---------------------------- MODULE AccountsProofs ----------------------------
(***************************************************************************)
(* Proofs about Accounts: its type invariant, the single successor of a    *)
(* refresh token, the ways to sign in and the limit of devices.            *)
(***************************************************************************)
EXTENDS Accounts, FiniteSetTheorems, TLAPS

-----------------------------------------------------------------------------
(* The inductive invariant.                                                *)

Active == {r \in Requests : request[r] # Idle}

\* What a request carries: nothing is done for an account that does not exist.
WhoOf(kind) == CASE kind = "register" -> {None} [] kind = "oauth" -> Identities [] OTHER -> Users
ArgOf(kind) ==
  CASE kind \in {"register", "email"} -> Emails [] kind \in {"refresh", "logout"} -> Tokens
    [] kind = "link" -> Identities [] kind = "unlink" -> {Provider[i] : i \in Identities}
    [] kind \in {"device", "validate"} -> Devices [] kind = "revoke" -> Machines
    [] OTHER -> {None}
Pcs == {"start", "insert", "issue", "user", "store", "revoke", "known", "byEmail", "create", "seed",
        "link", "taken", "others", "delete", "conflict", "write", "tokens", "machines", "tier",
        "count", "account", "device"}
RequestOf(kind) ==
  [kind : {kind}, pc : Pcs, who : WhoOf(kind), arg : ArgOf(kind),
   user : Users \cup {None}, found : {1, 3, None}]
RequestsOK ==
  /\ DOMAIN request = Requests
  /\ \A r \in Active : LET q == request[r] IN
       /\ q.kind \in DOMAIN setting.allow /\ q \in RequestOf(q.kind)
       /\ q.kind \in {"password", "link", "delete", "adminDelete"} => state[q.who] # "none"
       /\ q.pc \in {"issue", "known", "user", "seed", "link"} => q.user \in Users
       /\ q.pc \in {"seed", "link"} => q.kind = "oauth" /\ state[q.user] # "none"

\* An account without rows of its own is that of a sign-in about to make them.
SeedPending ==
  ~crashed => \A u \in Users : state[u] # "none" /\ u \notin seeded =>
    \E r \in Requests : At(r, "oauth", "seed") /\ request[r].user = u

\* A request that exchanges a token has revoked it, and is the only one to do so.
Exchanging == {r \in Active : request[r].kind = "refresh" /\ request[r].pc \in {"user", "issue"}}
ExchangePending ==
  /\ \A t \in Tokens : token[t] = NoToken \/ token[t].user \in Users
  /\ \A r \in Exchanging : LET t == request[r].arg IN
       /\ ~token[t].live /\ token[t].user = request[r].user
       /\ \A x \in Tokens : token[x].from # t
       /\ \A q \in Exchanging : request[q].arg = t => q = r

\* With one request at a time nobody else takes the identity that is being
\* signed in with, nor what is left to an account when one is unlinked.
SignInPending ==
  setting.together = 1 =>
    /\ \A q, r \in Active : q = r
    /\ \A r \in Active : request[r].kind = "oauth" /\ request[r].pc \in {"byEmail", "create", "seed", "link"} =>
         link[request[r].who] = None
    /\ \A r \in Active : request[r].kind = "unlink" /\ request[r].pc = "delete" =>
         request[r].who \in password
           \/ \E i \in Linked(request[r].who) : Provider[i] # request[r].arg
    /\ ~crashed => \A u \in Users : Enabled(u) =>
         \/ u \in password \/ Linked(u) # {}
         \/ \E r \in Active : /\ request[r].kind = "oauth" /\ request[r].pc \in {"seed", "link"}
                              /\ request[r].user = u

\* A registration that has read its limit keeps to it.
Registering == {r \in Active : request[r].kind \in {"device", "validate"}}
LimitRead ==
  /\ \A u \in Users : plan[u] = "expert" => peak[u] = "expert"
  /\ \A r \in Registering : request[r].pc \in {"count", "insert"} =>
       request[r].found = 1 \/ (request[r].found = 3 /\ peak[request[r].who] = "expert")
RegistrationPending ==
  OneRegistration =>
    /\ \A q, r \in Registering : request[q].who = request[r].who => q = r
    /\ \A r \in Registering : request[r].pc = "insert" =>
         Cardinality(ActiveMachines(request[r].who)) < Limit(request[r].who)

IInv ==
  /\ TypeOK /\ RequestsOK /\ SeedPending /\ OneSuccessor /\ ExchangePending
  /\ SignInPending /\ LimitRead /\ RegistrationPending /\ DeviceLimit

-----------------------------------------------------------------------------
(* What the steps of a request do to it.                                   *)

LEMMA ActiveIs ==
  ASSUME RequestsOK, NEW r \in Active
  PROVE  /\ r \in Requests /\ request[r] # Idle /\ request[r].kind \in DOMAIN setting.allow
         /\ request[r] \in RequestOf(request[r].kind)
BY DEF RequestsOK, Active

\* A record of a request is not Idle.
LEMMA NotIdle ==
  ASSUME NEW kind, NEW q \in RequestOf(kind)
  PROVE  q # Idle /\ q.kind = kind /\ q.who \in WhoOf(kind) /\ q.arg \in ArgOf(kind) /\ q.pc \in Pcs
<1>1. q.kind = kind /\ q.who \in WhoOf(kind) /\ q.arg \in ArgOf(kind) /\ q.pc \in Pcs
  BY DEF RequestOf
<1>2. q.pc # "idle"
  BY <1>1 DEF Pcs
<1> QED BY <1>1, <1>2 DEF Idle

Others(r) == DOMAIN request' = Requests /\ \A q \in Requests : q # r => request'[q] = request[q]

\* The request goes on, for the same account with the same argument ...
Went(r) ==
  /\ r \in Active /\ Active' = Active /\ Others(r)
  /\ request'[r] \in RequestOf(request[r].kind)
  /\ request'[r].kind = request[r].kind /\ request'[r].who = request[r].who
  /\ request'[r].arg = request[r].arg

\* ... or is answered.
Ended(r) == r \in Active /\ Active' = Active \ {r} /\ Others(r) /\ request'[r] = Idle

LEMMA Going ==
  ASSUME RequestsOK, NEW r \in Active, NEW p \in RequestOf(request[r].kind),
         p.who = request[r].who, p.arg = request[r].arg, request' = [request EXCEPT ![r] = p]
  PROVE  Went(r) /\ request'[r] = p
<1>1. r \in Requests /\ DOMAIN request = Requests
  BY ActiveIs DEF RequestsOK
<1>2. /\ request'[r] = p /\ DOMAIN request' = Requests
      /\ \A q \in Requests : q # r => request'[q] = request[q]
  BY <1>1
<1>3. p # Idle /\ p.kind = request[r].kind
  BY NotIdle
<1>4. Active' = Active
  <2>1. \A s \in Requests : s \in Active' <=> s \in Active
    BY <1>2, <1>3 DEF Active
  <2> QED BY <2>1 DEF Active
<1> QED BY <1>1, <1>2, <1>3, <1>4 DEF Went, Others

LEMMA GoesTo ==
  ASSUME RequestsOK, NEW r \in Active, NEW pc \in Pcs, Goto(r, pc)
  PROVE  Went(r) /\ request'[r].pc = pc
         /\ request'[r].user = request[r].user /\ request'[r].found = request[r].found
<1>1. r \in Requests /\ request[r] \in RequestOf(request[r].kind) /\ DOMAIN request = Requests
  BY ActiveIs DEF RequestsOK
<1>2. PICK kind, q, p : kind = request[r].kind /\ q = request[r] /\ p = [q EXCEPT !.pc = pc]
  OBVIOUS
<1>3. q \in RequestOf(kind)
  BY <1>1, <1>2
<1>4. /\ p \in RequestOf(kind) /\ p.who = q.who /\ p.arg = q.arg /\ p.pc = pc
      /\ p.user = q.user /\ p.found = q.found
  BY <1>2, <1>3 DEF RequestOf
<1>5. request' = [request EXCEPT ![r] = p]
  BY <1>1, <1>2 DEF Goto
<1>6. Went(r) /\ request'[r] = p
  <2>1. p \in RequestOf(request[r].kind) /\ p.who = request[r].who /\ p.arg = request[r].arg
    BY <1>2, <1>4
  <2> QED BY <1>5, <2>1, Going
<1> QED BY <1>2, <1>4, <1>6

LEMMA GoesWith ==
  ASSUME RequestsOK, NEW r \in Active, NEW pc \in Pcs, NEW u \in Users \cup {None}, With(r, pc, u)
  PROVE  Went(r) /\ request'[r].pc = pc /\ request'[r].user = u
<1>1. r \in Requests /\ request[r] \in RequestOf(request[r].kind) /\ DOMAIN request = Requests
  BY ActiveIs DEF RequestsOK
<1>2. PICK kind, q, p : kind = request[r].kind /\ q = request[r] /\ p = [q EXCEPT !.pc = pc, !.user = u]
  OBVIOUS
<1>3. q \in RequestOf(kind)
  BY <1>1, <1>2
<1>4. /\ p \in RequestOf(kind) /\ p.who = q.who /\ p.arg = q.arg /\ p.pc = pc
      /\ p.user = u
  BY <1>2, <1>3 DEF RequestOf
<1>5. request' = [request EXCEPT ![r] = p]
  BY <1>1, <1>2 DEF With
<1>6. Went(r) /\ request'[r] = p
  <2>1. p \in RequestOf(request[r].kind) /\ p.who = request[r].who /\ p.arg = request[r].arg
    BY <1>2, <1>4
  <2> QED BY <1>5, <2>1, Going
<1> QED BY <1>2, <1>4, <1>6

LEMMA GoesFinding ==
  ASSUME RequestsOK, NEW r \in Active, NEW pc \in Pcs, NEW x \in {1, 3}, Found(r, pc, x)
  PROVE  Went(r) /\ request'[r].pc = pc /\ request'[r].found = x
<1>1. r \in Requests /\ request[r] \in RequestOf(request[r].kind) /\ DOMAIN request = Requests
  BY ActiveIs DEF RequestsOK
<1>2. PICK kind, q, p : kind = request[r].kind /\ q = request[r] /\ p = [q EXCEPT !.pc = pc, !.found = x]
  OBVIOUS
<1>3. q \in RequestOf(kind)
  BY <1>1, <1>2
<1>4. /\ p \in RequestOf(kind) /\ p.who = q.who /\ p.arg = q.arg /\ p.pc = pc
      /\ p.found = x
  BY <1>2, <1>3 DEF RequestOf
<1>5. request' = [request EXCEPT ![r] = p]
  BY <1>1, <1>2 DEF Found
<1>6. Went(r) /\ request'[r] = p
  <2>1. p \in RequestOf(request[r].kind) /\ p.who = request[r].who /\ p.arg = request[r].arg
    BY <1>2, <1>4
  <2> QED BY <1>5, <2>1, Going
<1> QED BY <1>2, <1>4, <1>6

LEMMA Replied ==
  ASSUME RequestsOK, NEW r \in Active, Reply(r)
  PROVE  Ended(r)
<1>1. r \in Requests /\ DOMAIN request = Requests
  BY ActiveIs DEF RequestsOK
<1>2. /\ request'[r] = Idle /\ DOMAIN request' = Requests
      /\ \A q \in Requests : q # r => request'[q] = request[q]
  BY <1>1 DEF Reply
<1>3. Active' = Active \ {r}
  BY <1>2 DEF Active
<1> QED BY <1>2, <1>3 DEF Ended, Others

\* A request starts.
Begun(r) ==
  /\ r \in Requests \ Active /\ Active' = Active \cup {r} /\ Others(r)
  /\ request'[r].kind \in DOMAIN setting.allow
  /\ request'[r] \in RequestOf(request'[r].kind)
  /\ request'[r].pc = "start"
  /\ request'[r].kind \in {"password", "link", "delete", "adminDelete"} => state[request'[r].who] # "none"
  /\ Cardinality(Active) < setting.together
  /\ Cardinality(Same(request'[r].kind, request'[r].who)) < setting.allow[request'[r].kind]
  /\ UNCHANGED <<setting, tables, plan, peak, crashed>>

LEMMA Begins ==
  ASSUME RequestsOK, NEW r \in Requests, NEW kind, NEW who \in WhoOf(kind), NEW arg \in ArgOf(kind),
         kind \in {"password", "link", "delete", "adminDelete"} => state[who] # "none", Begin(r, kind, who, arg)
  PROVE  Begun(r)
<1>1. PICK p : p = [kind |-> kind, pc |-> "start", who |-> who, arg |-> arg, user |-> None, found |-> None]
  OBVIOUS
<1>2. p \in RequestOf(kind) /\ p.kind = kind /\ p.pc = "start" /\ p.who = who
  BY <1>1 DEF RequestOf, Pcs
<1>3. /\ request[r] = Idle /\ request' = [request EXCEPT ![r] = p] /\ kind \in DOMAIN setting.allow
      /\ Cardinality(Same(kind, who)) < setting.allow[kind]
      /\ UNCHANGED <<setting, tables, plan, peak, crashed>>
  BY <1>1 DEF Begin
<1>4. Cardinality(Active) < setting.together
  BY DEF Begin, Active
<1>5. /\ request'[r] = p /\ DOMAIN request' = Requests
      /\ \A q \in Requests : q # r => request'[q] = request[q]
  BY <1>3 DEF RequestsOK
<1>6. p # Idle
  BY <1>2, NotIdle
<1>7. Active' = Active \cup {r} /\ r \notin Active
  BY <1>3, <1>5, <1>6 DEF Active
<1> QED BY <1>2, <1>3, <1>4, <1>5, <1>7 DEF Begun, Others

LEMMA Starts ==
  ASSUME TypeOK, RequestsOK, ExchangePending, NEW r \in Requests, Start(r)
  PROVE  Begun(r)
<1>1. ASSUME NEW e \in Emails, Begin(r, "register", None, e) PROVE Begun(r)
  <2>1. None \in WhoOf("register") /\ e \in ArgOf("register")
    BY DEF WhoOf, ArgOf
  <2> QED BY <1>1, <2>1, Begins
<1>2. ASSUME NEW i \in Identities, Begin(r, "oauth", i, None) PROVE Begun(r)
  <2>1. i \in WhoOf("oauth") /\ None \in ArgOf("oauth")
    BY DEF WhoOf, ArgOf
  <2> QED BY <1>2, <2>1, Begins
<1>3. ASSUME NEW t \in Tokens, token[t] # NoToken, Begin(r, "refresh", token[t].user, t) PROVE Begun(r)
  <2>1. token[t].user \in WhoOf("refresh") /\ t \in ArgOf("refresh")
    BY <1>3 DEF WhoOf, ArgOf, ExchangePending
  <2> QED BY <1>3, <2>1, Begins
<1>4. ASSUME NEW u \in Users, NEW kind \in {"login", "adminDelete", "password", "delete"},
             Begin(r, kind, u, None), kind = "login" \/ state[u] # "none"
      PROVE  Begun(r)
  <2>1. u \in WhoOf(kind) /\ None \in ArgOf(kind)
    BY DEF WhoOf, ArgOf
  <2> QED BY <1>4, <2>1, Begins
<1>5. ASSUME NEW u \in Users, NEW t \in Tokens, Ask(r, "logout", u, t) PROVE Begun(r)
  <2>1. u \in WhoOf("logout") /\ t \in ArgOf("logout")
    BY DEF WhoOf, ArgOf
  <2> QED BY <1>5, <2>1, Begins DEF Ask
<1>6. ASSUME NEW u \in Users, NEW i \in Identities, Ask(r, "link", u, i) PROVE Begun(r)
  <2>1. u \in WhoOf("link") /\ i \in ArgOf("link") /\ state[u] # "none"
    BY <1>6 DEF WhoOf, ArgOf, Ask, Enabled
  <2> QED BY <1>6, <2>1, Begins DEF Ask
<1>7. ASSUME NEW u \in Users, NEW i \in Identities, Ask(r, "unlink", u, Provider[i]) PROVE Begun(r)
  <2>1. u \in WhoOf("unlink") /\ Provider[i] \in ArgOf("unlink")
    BY DEF WhoOf, ArgOf
  <2> QED BY <1>7, <2>1, Begins DEF Ask
<1>8. ASSUME NEW u \in Users, NEW e \in Emails, Ask(r, "email", u, e) PROVE Begun(r)
  <2>1. u \in WhoOf("email") /\ e \in ArgOf("email")
    BY DEF WhoOf, ArgOf
  <2> QED BY <1>8, <2>1, Begins DEF Ask
<1>9. ASSUME NEW u \in Users, NEW d \in Devices, NEW kind \in {"device", "validate"}, Begin(r, kind, u, d)
      PROVE  Begun(r)
  <2>1. u \in WhoOf(kind) /\ d \in ArgOf(kind)
    BY DEF WhoOf, ArgOf
  <2> QED BY <1>9, <2>1, Begins
<1>10. ASSUME NEW u \in Users, NEW m \in Machines, Ask(r, "revoke", u, m) PROVE Begun(r)
  <2>1. u \in WhoOf("revoke") /\ m \in ArgOf("revoke")
    BY DEF WhoOf, ArgOf
  <2> QED BY <1>10, <2>1, Begins DEF Ask
<1>11. ASSUME NEW u \in Users, NEW kind \in {"password", "delete"}, Ask(r, kind, u, None) PROVE Begun(r)
  BY <1>4, <1>11 DEF Ask, Enabled
<1>12. ASSUME NEW u \in Users, Enabled(u), Begin(r, "adminDelete", u, None) PROVE Begun(r)
  BY <1>4, <1>12 DEF Enabled
<1> QED BY <1>1, <1>2, <1>3, <1>4, <1>5, <1>6, <1>7, <1>8, <1>9, <1>10, <1>11, <1>12 DEF Start, Ask

-----------------------------------------------------------------------------
(* The steps that only read.                                               *)

\* Where a request gets by what it has read.
Leads(r) ==
  LET q == request[r]
      p == request'[r]
  IN
  /\ p.pc \in {"issue", "known", "user", "link"} => p.user \in Users
  /\ p.pc = "link" => q.kind = "oauth" /\ state[p.user] # "none"
  /\ p.pc # "seed"
  /\ q.kind = "refresh" /\ p.pc \in {"user", "issue"} => q.pc = "user" /\ p.pc = "issue" /\ p.user = q.user
  /\ q.kind = "oauth" /\ p.pc \in {"byEmail", "create", "link"} => link[q.who] = None \/ q.pc = "byEmail"
  /\ q.kind = "unlink" /\ p.pc = "delete" =>
       q.who \in password \/ \E i \in Linked(q.who) : Provider[i] # q.arg
  /\ q.kind \in {"device", "validate"} /\ p.pc = "count" =>
       p.found = 1 \/ (p.found = 3 /\ plan[q.who] = "expert")
  /\ q.kind \in {"device", "validate"} /\ p.pc = "insert" =>
       q.pc = "count" /\ p.found = q.found /\ ~(Cardinality(ActiveMachines(q.who)) >= q.found)

ReadStep(r) ==
  /\ r \in Active /\ ~(request[r].kind = "oauth" /\ request[r].pc \in {"seed", "link"})
  /\ UNCHANGED <<setting, tables, plan, peak, crashed>>
  /\ Ended(r) \/ (Went(r) /\ Leads(r))

LEMMA ReadAnswered ==
  ASSUME RequestsOK, NEW r \in Active, request[r].pc \notin {"seed", "link"}, Reads, Reply(r)
  PROVE  ReadStep(r)
BY Replied DEF ReadStep, Reads, Frame

LEMMA ReadGoes ==
  ASSUME RequestsOK, NEW r \in Active, request[r].pc \notin {"seed", "link"}, Reads, NEW pc \in Pcs, Goto(r, pc),
         Went(r) /\ request'[r].pc = pc /\ request'[r].user = request[r].user
           /\ request'[r].found = request[r].found => Leads(r)
  PROVE  ReadStep(r)
BY GoesTo DEF ReadStep, Reads, Frame

LEMMA ReadsOnly ==
  ASSUME TypeOK, RequestsOK, NEW r \in Requests,
         \/ RegisterLookup(r) \/ Login(r) \/ RefreshUser(r) \/ ReadPassword(r)
         \/ OAuthLink(r) \/ OAuthKnown(r) \/ OAuthByEmail(r)
         \/ LinkProvider(r) \/ LinkTaken(r) \/ UnlinkPassword(r) \/ UnlinkOthers(r)
         \/ EmailRead(r) \/ EmailConflict(r) \/ FindActive(r) \/ ReadTier(r) \/ CountMachines(r)
         \/ ValidateKey(r) \/ ValidateAccount(r) \/ ValidateDevice(r)
  PROVE  ReadStep(r)
<1>0. ASSUME NEW kind, NEW pc, At(r, kind, pc)
      PROVE  r \in Active /\ request[r].kind = kind /\ request[r].pc = pc
  BY <1>0 DEF At, Active
<1>1. CASE RegisterLookup(r)
  <2>1. r \in Active /\ request[r].kind = "register" /\ request[r].pc = "start"
    BY <1>0, <1>1 DEF RegisterLookup
  <2>2. Reads /\ (Reply(r) \/ Goto(r, "insert"))
    BY <1>1 DEF RegisterLookup
  <2> QED BY <2>1, <2>2, ReadAnswered, ReadGoes DEF Leads, Pcs
<1>2. CASE RefreshUser(r)
  <2>1. r \in Active /\ request[r].kind = "refresh" /\ request[r].pc = "user"
    BY <1>0, <1>2 DEF RefreshUser
  <2>2. Reads /\ (Reply(r) \/ Goto(r, "issue"))
    BY <1>2 DEF RefreshUser
  <2>3. request[r].user \in Users
    BY <2>1 DEF RequestsOK
  <2> QED BY <2>1, <2>2, <2>3, ReadAnswered, ReadGoes DEF Leads, Pcs
<1>3. CASE ReadPassword(r)
  <2>1. r \in Active /\ request[r].kind = "password" /\ request[r].pc = "start"
    BY <1>0, <1>3 DEF ReadPassword
  <2>2. Reads /\ (Reply(r) \/ Goto(r, "store"))
    BY <1>3 DEF ReadPassword
  <2> QED BY <2>1, <2>2, ReadAnswered, ReadGoes DEF Leads, Pcs
<1>4. CASE OAuthKnown(r)
  <2>1. r \in Active /\ request[r].kind = "oauth" /\ request[r].pc = "known"
    BY <1>0, <1>4 DEF OAuthKnown
  <2>2. Reads /\ (Reply(r) \/ Goto(r, "issue"))
    BY <1>4 DEF OAuthKnown
  <2>3. request[r].user \in Users
    BY <2>1 DEF RequestsOK
  <2> QED BY <2>1, <2>2, <2>3, ReadAnswered, ReadGoes DEF Leads, Pcs
<1>5. CASE LinkProvider(r)
  <2>1. r \in Active /\ request[r].kind = "link" /\ request[r].pc = "start"
    BY <1>0, <1>5 DEF LinkProvider
  <2>2. Reads /\ (Reply(r) \/ Goto(r, "taken"))
    BY <1>5 DEF LinkProvider
  <2> QED BY <2>1, <2>2, ReadAnswered, ReadGoes DEF Leads, Pcs
<1>6. CASE LinkTaken(r)
  <2>1. r \in Active /\ request[r].kind = "link" /\ request[r].pc = "taken"
    BY <1>0, <1>6 DEF LinkTaken
  <2>2. Reads /\ (Reply(r) \/ Goto(r, "insert"))
    BY <1>6 DEF LinkTaken
  <2> QED BY <2>1, <2>2, ReadAnswered, ReadGoes DEF Leads, Pcs
<1>7. CASE EmailRead(r)
  <2>1. r \in Active /\ request[r].kind = "email" /\ request[r].pc = "start"
    BY <1>0, <1>7 DEF EmailRead
  <2>2. Reads /\ (Reply(r) \/ Goto(r, "conflict"))
    BY <1>7 DEF EmailRead
  <2> QED BY <2>1, <2>2, ReadAnswered, ReadGoes DEF Leads, Pcs
<1>8. CASE EmailConflict(r)
  <2>1. r \in Active /\ request[r].kind = "email" /\ request[r].pc = "conflict"
    BY <1>0, <1>8 DEF EmailConflict
  <2>2. Reads /\ (Reply(r) \/ Goto(r, "write"))
    BY <1>8 DEF EmailConflict
  <2> QED BY <2>1, <2>2, ReadAnswered, ReadGoes DEF Leads, Pcs
<1>9. CASE FindActive(r)
  <2>1. r \in Active /\ request[r].kind = "device" /\ request[r].pc = "start"
    BY <1>0, <1>9 DEF FindActive
  <2>2. Reads /\ (Reply(r) \/ Goto(r, "tier"))
    BY <1>9 DEF FindActive
  <2> QED BY <2>1, <2>2, ReadAnswered, ReadGoes DEF Leads, Pcs
<1>10. CASE ValidateKey(r)
  <2>1. r \in Active /\ request[r].kind = "validate" /\ request[r].pc = "start"
    BY <1>0, <1>10 DEF ValidateKey
  <2>2. Reads /\ (Reply(r) \/ Goto(r, "account"))
    BY <1>10 DEF ValidateKey
  <2> QED BY <2>1, <2>2, ReadAnswered, ReadGoes DEF Leads, Pcs
<1>11. CASE ValidateAccount(r)
  <2>1. r \in Active /\ request[r].kind = "validate" /\ request[r].pc = "account"
    BY <1>0, <1>11 DEF ValidateAccount
  <2>2. Reads /\ (Reply(r) \/ Goto(r, "device"))
    BY <1>11 DEF ValidateAccount
  <2> QED BY <2>1, <2>2, ReadAnswered, ReadGoes DEF Leads, Pcs
<1>12. CASE Login(r)
  <2>1. r \in Active /\ request[r].kind = "login" /\ request[r].pc = "start"
    BY <1>0, <1>12 DEF Login
  <2>2. PICK u : u = request[r].who
    OBVIOUS
  <2>3. u \in Users
    BY <2>1, <2>2, ActiveIs, NotIdle DEF WhoOf
  <2>4. Reads /\ (Reply(r) \/ With(r, "issue", u))
    BY <2>2, <1>12 DEF Login
  <2>5. ASSUME With(r, "issue", u) PROVE ReadStep(r)
    <3>1. Went(r) /\ request'[r].pc = "issue" /\ request'[r].user = u
      BY <2>1, <2>3, <2>5, GoesWith DEF Pcs
    <3> QED BY <2>1, <2>3, <2>4, <3>1 DEF ReadStep, Leads, Reads, Frame
  <2> QED BY <2>1, <2>4, <2>5, ReadAnswered
<1>13. CASE OAuthLink(r)
  <2>1. r \in Active /\ request[r].kind = "oauth" /\ request[r].pc = "start"
    BY <1>0, <1>13 DEF OAuthLink
  <2>2. PICK i, u : i = request[r].who /\ u = link[i]
    OBVIOUS
  <2>3. i \in Identities /\ u \in Users \cup {None}
    BY <2>1, <2>2, ActiveIs, NotIdle DEF WhoOf, TypeOK
  <2>4. Reads /\ IF u # None THEN With(r, "known", u) ELSE Goto(r, "byEmail")
    BY <2>2, <1>13 DEF OAuthLink
  <2>5. CASE u # None
    <3>1. Went(r) /\ request'[r].pc = "known" /\ request'[r].user = u /\ u \in Users
      BY <2>1, <2>3, <2>4, <2>5, GoesWith DEF Pcs
    <3> QED BY <2>1, <2>4, <3>1 DEF ReadStep, Leads, Reads, Frame
  <2>6. CASE u = None
    <3>1. Goto(r, "byEmail") /\ link[request[r].who] = None
      BY <2>2, <2>4, <2>6
    <3> QED BY <2>1, <2>4, <3>1, ReadGoes DEF Leads, Pcs
  <2> QED BY <2>5, <2>6
<1>14. CASE OAuthByEmail(r)
  <2>1. r \in Active /\ request[r].kind = "oauth" /\ request[r].pc = "byEmail" /\ Reads
    BY <1>0, <1>14 DEF OAuthByEmail
  <2>2. \/ Goto(r, "create") \/ Reply(r)
        \/ \E u \in Users : Enabled(u) /\ With(r, "link", u)
    BY <1>14 DEF OAuthByEmail
  <2>3. ASSUME NEW u \in Users, Enabled(u), With(r, "link", u) PROVE ReadStep(r)
    <3>1. Went(r) /\ request'[r].pc = "link" /\ request'[r].user = u
      BY <2>1, <2>3, GoesWith DEF Pcs
    <3>2. state[u] # "none"
      BY <2>3 DEF Enabled
    <3> QED BY <2>1, <3>1, <3>2 DEF ReadStep, Leads, Reads, Frame
  <2>4. CASE Goto(r, "create")
    BY <2>1, <2>4, ReadGoes DEF Leads, Pcs
  <2> QED BY <2>1, <2>2, <2>3, <2>4, ReadAnswered
<1>15. CASE UnlinkPassword(r)
  <2>1. r \in Active /\ request[r].kind = "unlink" /\ request[r].pc = "start"
    BY <1>0, <1>15 DEF UnlinkPassword
  <2>2. Reads /\ ((request[r].who \in password /\ Goto(r, "delete")) \/ Goto(r, "others"))
    BY <1>15 DEF UnlinkPassword
  <2> QED BY <2>1, <2>2, ReadGoes DEF Leads, Pcs
<1>16. CASE UnlinkOthers(r)
  <2>1. r \in Active /\ request[r].kind = "unlink" /\ request[r].pc = "others"
    BY <1>0, <1>16 DEF UnlinkOthers
  <2>2. Reads /\ (Reply(r) \/ (Goto(r, "delete") /\ \E i \in Linked(request[r].who) : Provider[i] # request[r].arg))
    BY <1>16 DEF UnlinkOthers
  <2> QED BY <2>1, <2>2, ReadAnswered, ReadGoes DEF Leads, Pcs
<1>17. CASE ReadTier(r)
  <2>1. r \in Active /\ request[r].kind = "device" /\ request[r].pc = "tier" /\ Reads
    BY <1>0, <1>17 DEF ReadTier
  <2>2. \E x \in {1, 3} : Found(r, "count", x) /\ (x = 1 \/ plan[request[r].who] = "expert")
    BY <1>17 DEF ReadTier
  <2>3. PICK x \in {1, 3} : Found(r, "count", x) /\ (x = 1 \/ plan[request[r].who] = "expert")
    BY <2>2
  <2>4. Went(r) /\ request'[r].pc = "count" /\ request'[r].found = x
    BY <2>1, <2>3, GoesFinding DEF Pcs
  <2> QED BY <2>1, <2>3, <2>4 DEF ReadStep, Leads, Reads, Frame
<1>18. CASE CountMachines(r)
  <2>1. r \in Active /\ request[r].kind \in {"device", "validate"} /\ request[r].pc = "count"
    BY <1>0, <1>18 DEF CountMachines
  <2>2. Reads /\ (Reply(r) \/ (Goto(r, "insert") /\ ~(Cardinality(ActiveMachines(request[r].who)) >= request[r].found)))
    BY <1>18 DEF CountMachines
  <2> QED BY <2>1, <2>2, ReadAnswered, ReadGoes DEF Leads, Pcs
<1>19. CASE ValidateDevice(r)
  <2>1. r \in Active /\ request[r].kind = "validate" /\ request[r].pc = "device"
    BY <1>0, <1>19 DEF ValidateDevice
  <2>2. Reads /\ (Reply(r) \/ Found(r, "count", 1))
    BY <1>19 DEF ValidateDevice
  <2>3. ASSUME Found(r, "count", 1) PROVE ReadStep(r)
    <3>1. Went(r) /\ request'[r].pc = "count" /\ request'[r].found = 1
      BY <2>1, <2>3, GoesFinding DEF Pcs
    <3> QED BY <2>1, <2>2, <3>1 DEF ReadStep, Leads, Reads, Frame
  <2> QED BY <2>1, <2>2, <2>3, ReadAnswered
<1> QED BY <1>1, <1>2, <1>3, <1>4, <1>5, <1>6, <1>7, <1>8, <1>9, <1>10, <1>11, <1>12, <1>13, <1>14, <1>15, <1>16, <1>17, <1>18, <1>19

-----------------------------------------------------------------------------
(* The steps that write.                                                   *)

\* Of account u, who registers or signs in for the first time.
Creates(r, u, kind, pc, next) ==
  /\ r \in Active /\ request[r].kind = kind /\ request[r].pc = pc
  /\ state[u] = "none" /\ state' = [state EXCEPT ![u] = "live"]
  /\ Went(r) /\ request'[r].pc = next /\ request'[r].user = u
  /\ UNCHANGED <<link, token, machine, key>> /\ Frame
Registered(r, u) ==
  /\ Creates(r, u, "register", "insert", "issue")
  /\ email' = [email EXCEPT ![u] = request[r].arg] /\ ~EmailTaken(request[r].arg)
  /\ hidden' = [hidden EXCEPT ![u] = None]
  /\ password' = password \cup {u} /\ seeded' = seeded \cup {u}
OAuthCreated(r, u) ==
  LET e == Mail[request[r].who]
      i == IF e = None THEN request[r].who ELSE None
  IN
  /\ Creates(r, u, "oauth", "create", "seed")
  /\ email' = [email EXCEPT ![u] = e] /\ (e # None => ~EmailTaken(e))
  /\ hidden' = [hidden EXCEPT ![u] = i] /\ (i # None => \A v \in Users : hidden[v] # i)
  /\ UNCHANGED <<password, seeded>>
OAuthSeeded(r) ==
  /\ r \in Active /\ request[r].kind = "oauth" /\ request[r].pc = "seed"
  /\ seeded' = seeded \cup {request[r].user}
  /\ Went(r) /\ request'[r].pc = "link" /\ request'[r].user = request[r].user
  /\ UNCHANGED <<state, email, hidden, password, link, token, machine, key>> /\ Frame
OAuthLinked(r) ==
  /\ r \in Active /\ request[r].kind = "oauth" /\ request[r].pc = "link"
  /\ link' = [link EXCEPT ![request[r].who] = IF @ = None THEN request[r].user ELSE @]
  /\ Went(r) /\ request'[r].pc = "issue" /\ request'[r].user = request[r].user
  /\ UNCHANGED <<state, email, hidden, password, seeded, token, machine, key>> /\ Frame
LinkInserted(r) ==
  /\ r \in Active /\ request[r].kind = "link" /\ Ended(r)
  /\ link' = [link EXCEPT ![request[r].arg] = IF @ = None THEN request[r].who ELSE @]
  /\ UNCHANGED <<state, email, hidden, password, seeded, token, machine, key>> /\ Frame
Unlinked(r) ==
  /\ r \in Active /\ request[r].kind = "unlink" /\ request[r].pc = "delete" /\ Ended(r)
  /\ link' = [i \in Identities |->
       IF link[i] = request[r].who /\ Provider[i] = request[r].arg THEN None ELSE link[i]]
  /\ UNCHANGED <<state, email, hidden, password, seeded, token, machine, key>> /\ Frame
PasswordStored(r) ==
  /\ r \in Active /\ request[r].kind = "password"
  /\ Went(r) /\ request'[r].pc = "revoke"
  /\ password' = password \cup {request[r].who}
  /\ UNCHANGED <<state, email, hidden, seeded, link, token, machine, key>> /\ Frame
EmailWritten(r) ==
  /\ r \in Active /\ request[r].kind = "email" /\ Ended(r)
  /\ ~EmailTaken(request[r].arg) /\ email' = [email EXCEPT ![request[r].who] = request[r].arg]
  /\ UNCHANGED <<state, hidden, password, seeded, link, token, machine, key>> /\ Frame
Scrubbed(r) ==
  /\ r \in Active /\ request[r].kind \in {"delete", "adminDelete"} /\ request[r].pc = "start"
  /\ Ended(r) \/ (Went(r) /\ request'[r].pc = "tokens")
  /\ state' = [state EXCEPT ![request[r].who] = "deleted"]
  /\ email' = [email EXCEPT ![request[r].who] = None]
  /\ hidden' = [hidden EXCEPT ![request[r].who] = None]
  /\ password' = password \ {request[r].who}
  /\ UNCHANGED <<seeded, link, token, machine, key>> /\ Frame
Issued(r, t) ==
  /\ r \in Active /\ request[r].pc = "issue" /\ Ended(r)
  /\ token[t] = NoToken
  /\ token' = [token EXCEPT ![t] = [user |-> request[r].user, live |-> TRUE,
                 from |-> IF request[r].kind = "refresh" THEN request[r].arg ELSE None]]
  /\ UNCHANGED <<state, email, hidden, password, seeded, link, machine, key>> /\ Frame
Exchanged(r) ==
  /\ r \in Active /\ request[r].kind = "refresh" /\ request[r].pc = "start"
  /\ token[request[r].arg].live /\ Revoke({request[r].arg})
  /\ Went(r) /\ request'[r].pc = "user" /\ request'[r].user = token[request[r].arg].user
  /\ UNCHANGED <<state, email, hidden, password, seeded, link, machine, key>> /\ Frame
Revoked(r, ts) ==
  /\ r \in Active /\ request[r].kind \in {"logout", "password", "delete"} /\ Revoke(ts)
  /\ Ended(r) \/ (Went(r) /\ request'[r].pc = "machines")
  /\ UNCHANGED <<state, email, hidden, password, seeded, link, machine, key>> /\ Frame
MachineAdded(r, m) ==
  /\ r \in Active /\ request[r].kind \in {"device", "validate"} /\ request[r].pc = "insert" /\ Ended(r)
  /\ machine[m] = NoMachine
  /\ machine' = [machine EXCEPT ![m] = [user |-> request[r].who, device |-> request[r].arg, active |-> TRUE]]
  /\ UNCHANGED <<state, email, hidden, password, seeded, link, token, key>> /\ Frame
Deactivated(r, ms) ==
  /\ r \in Active /\ request[r].kind \in {"delete", "revoke"} /\ Ended(r) /\ Deactivate(ms)
  /\ UNCHANGED <<state, email, hidden, password, seeded, link, token, key>> /\ Frame

WriteStep(r) ==
  \/ \E u \in Users : Registered(r, u) \/ OAuthCreated(r, u)
  \/ OAuthSeeded(r) \/ OAuthLinked(r) \/ LinkInserted(r) \/ Unlinked(r)
  \/ PasswordStored(r) \/ EmailWritten(r) \/ Scrubbed(r)
  \/ \E t \in Tokens : Issued(r, t)
  \/ Exchanged(r) \/ \E ts : Revoked(r, ts)
  \/ \E m \in Machines : MachineAdded(r, m)
  \/ \E ms : Deactivated(r, ms)

LEMMA WhoIs ==
  ASSUME RequestsOK, NEW r \in Active
  PROVE  /\ request[r].kind = "oauth" => request[r].who \in Identities
         /\ request[r].kind \notin {"oauth", "register"} => request[r].who \in Users
         /\ request[r].kind \in {"register", "email"} => request[r].arg \in Emails
         /\ request[r].kind = "link" => request[r].arg \in Identities
         /\ request[r].kind = "refresh" => request[r].arg \in Tokens
         /\ request[r].kind \in {"device", "validate"} => request[r].arg \in Devices
<1>1. PICK k : k = request[r].kind
  OBVIOUS
<1>2. request[r].who \in WhoOf(k) /\ request[r].arg \in ArgOf(k)
  BY <1>1, ActiveIs, NotIdle
<1> QED BY <1>1, <1>2 DEF WhoOf, ArgOf

LEMMA Writes ==
  ASSUME TypeOK, RequestsOK, NEW r \in Requests,
         \/ RegisterInsert(r) \/ Issue(r) \/ RefreshRevoke(r) \/ Logout(r)
         \/ StorePassword(r) \/ RevokeAll(r) \/ OAuthCreate(r) \/ OAuthSeed(r) \/ OAuthInsertLink(r)
         \/ LinkInsert(r) \/ UnlinkDelete(r) \/ EmailWrite(r)
         \/ Scrub(r) \/ DeleteTokens(r) \/ DeleteMachines(r)
         \/ InsertMachine(r) \/ RevokeMachine(r)
  PROVE  ReadStep(r) \/ WriteStep(r)
<1>0. ASSUME NEW kind, NEW pc, At(r, kind, pc)
      PROVE  r \in Active /\ request[r].kind = kind /\ request[r].pc = pc
  BY <1>0 DEF At, Active
<1> DEFINE A == request[r].arg
           W == request[r].who
<1>1. CASE RegisterInsert(r)
  <2>1. r \in Active /\ request[r].kind = "register" /\ request[r].pc = "insert"
    BY <1>0, <1>1 DEF RegisterInsert
  <2>2. UNCHANGED <<link, token, machine, key>> /\ Frame
    BY <1>1 DEF RegisterInsert
  <2>3. CASE EmailTaken(A)
    <3>1. Reply(r) /\ Reads
      BY <1>1, <2>2, <2>3 DEF RegisterInsert, Reads, tables
    <3> QED BY <2>1, <3>1, ReadAnswered
  <2>4. CASE ~EmailTaken(A)
    <3>1. PICK u \in Users : Create(u, A, None, TRUE) /\ seeded' = seeded \cup {u} /\ With(r, "issue", u)
      BY <1>1, <2>4 DEF RegisterInsert
    <3>2. Went(r) /\ request'[r].pc = "issue" /\ request'[r].user = u
      BY <2>1, <3>1, GoesWith DEF Pcs
    <3>3. Registered(r, u)
      BY <2>1, <2>2, <2>4, <3>1, <3>2 DEF Registered, Creates, Create
    <3> QED BY <3>3 DEF WriteStep
  <2> QED BY <2>3, <2>4
<1>2. CASE Issue(r)
  <2>1. r \in Active /\ request[r].pc = "issue"
    BY <1>2 DEF Issue, Active
  <2>2. UNCHANGED <<state, email, hidden, password, seeded, link, machine, key>> /\ Frame /\ Reply(r)
    BY <1>2 DEF Issue
  <2>3. CASE UNCHANGED token
    <3>1. Reads
      BY <2>2, <2>3 DEF Reads, tables
    <3> QED BY <2>1, <2>2, <3>1, ReadAnswered
  <2>4. ASSUME NEW t \in Tokens,
               \A x \in Tokens : token[x] = NoToken <=> x >= t,
               token' = [token EXCEPT ![t] = [user |-> request[r].user, live |-> TRUE,
                 from |-> IF request[r].kind = "refresh" THEN request[r].arg ELSE None]]
        PROVE  Issued(r, t)
    <3>1. t >= t
      BY BoundsAssumption DEF Tokens
    <3>2. token[t] = NoToken
      BY <2>4, <3>1
    <3>3. Ended(r)
      BY <2>1, <2>2, Replied
    <3> QED BY <2>1, <2>2, <2>4, <3>2, <3>3 DEF Issued
  <2>5. UNCHANGED token \/ \E t \in Tokens :
          /\ \A x \in Tokens : token[x] = NoToken <=> x >= t
          /\ token' = [token EXCEPT ![t] = [user |-> request[r].user, live |-> TRUE,
                 from |-> IF request[r].kind = "refresh" THEN request[r].arg ELSE None]]
    <3>1. setting.tokens \subseteq Tokens
      BY SettingsAssumption DEF TypeOK
    <3> QED BY <1>2, <3>1 DEF Issue
  <2> QED BY <2>3, <2>4, <2>5 DEF WriteStep
<1>3. CASE RefreshRevoke(r)
  <2>1. r \in Active /\ request[r].kind = "refresh" /\ request[r].pc = "start"
    BY <1>0, <1>3 DEF RefreshRevoke
  <2>2. UNCHANGED <<state, email, hidden, password, seeded, link, machine, key>> /\ Frame
    BY <1>3 DEF RefreshRevoke
  <2>3. CASE ~token[A].live
    <3>1. Reads /\ Reply(r)
      BY <1>3, <2>2, <2>3 DEF RefreshRevoke, Reads, tables
    <3> QED BY <2>1, <3>1, ReadAnswered
  <2>4. CASE token[A].live
    <3>1. Revoke({A}) /\ With(r, "user", token[A].user)
      BY <1>3, <2>4 DEF RefreshRevoke
    <3>2. PICK u : u = token[A].user
      OBVIOUS
    <3>3. u \in Users \cup {None}
      BY <2>1, <3>2, WhoIs DEF TypeOK
    <3>4. Went(r) /\ request'[r].pc = "user" /\ request'[r].user = u
      BY <2>1, <3>1, <3>2, <3>3, GoesWith DEF Pcs
    <3>5. Exchanged(r)
      BY <2>1, <2>2, <2>4, <3>1, <3>2, <3>4 DEF Exchanged
    <3> QED BY <3>5 DEF WriteStep
  <2> QED BY <2>3, <2>4
<1>4. CASE Logout(r) \/ RevokeAll(r)
  <2>1. /\ r \in Active /\ request[r].kind \in {"logout", "password"} /\ Reply(r)
        /\ UNCHANGED <<state, email, hidden, password, seeded, link, machine, key>> /\ Frame
    BY <1>0, <1>4 DEF Logout, RevokeAll
  <2>2. \E ts : Revoke(ts)
    BY <1>4 DEF Logout, RevokeAll
  <2>3. Ended(r)
    BY <2>1, Replied
  <2> QED BY <2>1, <2>2, <2>3 DEF WriteStep, Revoked
<1>5. CASE StorePassword(r)
  <2>1. r \in Active /\ request[r].kind = "password" /\ Goto(r, "revoke")
    BY <1>0, <1>5 DEF StorePassword
  <2>2. Went(r) /\ request'[r].pc = "revoke"
    BY <2>1, GoesTo DEF Pcs
  <2>3. PasswordStored(r)
    BY <1>5, <2>1, <2>2 DEF StorePassword, PasswordStored
  <2> QED BY <2>3 DEF WriteStep
<1>6. CASE OAuthCreate(r)
  <2>1. r \in Active /\ request[r].kind = "oauth" /\ request[r].pc = "create"
    BY <1>0, <1>6 DEF OAuthCreate
  <2>2. UNCHANGED <<seeded, link, token, machine, key>> /\ Frame
    BY <1>6 DEF OAuthCreate
  <2>3. CASE Reply(r) /\ UNCHANGED <<state, email, hidden, password>>
    <3>1. Reads
      BY <2>2, <2>3 DEF Reads, tables
    <3> QED BY <2>1, <2>3, <3>1, ReadAnswered
  <2>4. CASE ~(Reply(r) /\ UNCHANGED <<state, email, hidden, password>>)
    <3>1. PICK u \in Users : Create(u, Mail[W], IF Mail[W] = None THEN W ELSE None, FALSE) /\ With(r, "seed", u)
      BY <1>6, <2>4 DEF OAuthCreate
    <3>2. Went(r) /\ request'[r].pc = "seed" /\ request'[r].user = u
      BY <2>1, <3>1, GoesWith DEF Pcs
    <3>3. ~(IF Mail[W] = None THEN \E v \in Users : hidden[v] = W ELSE EmailTaken(Mail[W]))
      BY <1>6, <2>4 DEF OAuthCreate
    <3>4. Creates(r, u, "oauth", "create", "seed")
      BY <2>1, <2>2, <3>1, <3>2 DEF Creates, Create
    <3>5. OAuthCreated(r, u)
      BY <2>2, <3>1, <3>3, <3>4 DEF OAuthCreated, Create
    <3> QED BY <3>5 DEF WriteStep
  <2> QED BY <2>3, <2>4
<1>7. CASE OAuthSeed(r)
  <2>1. r \in Active /\ request[r].kind = "oauth" /\ request[r].pc = "seed" /\ Goto(r, "link")
    BY <1>0, <1>7 DEF OAuthSeed
  <2>2. Went(r) /\ request'[r].pc = "link" /\ request'[r].user = request[r].user
    BY <2>1, GoesTo DEF Pcs
  <2>3. OAuthSeeded(r)
    BY <1>7, <2>1, <2>2 DEF OAuthSeed, OAuthSeeded
  <2> QED BY <2>3 DEF WriteStep
<1>8. CASE OAuthInsertLink(r)
  <2>1. r \in Active /\ request[r].kind = "oauth" /\ request[r].pc = "link" /\ Goto(r, "issue")
    BY <1>0, <1>8 DEF OAuthInsertLink
  <2>2. Went(r) /\ request'[r].pc = "issue" /\ request'[r].user = request[r].user
    BY <2>1, GoesTo DEF Pcs
  <2>3. /\ link' = IF link[W] = None THEN [link EXCEPT ![W] = request[r].user] ELSE link
        /\ UNCHANGED <<state, email, hidden, password, seeded, token, machine, key>> /\ Frame
    BY <1>8 DEF OAuthInsertLink
  <2>4. W \in Identities /\ DOMAIN link = Identities /\ link \in [Identities -> Users \cup {None}]
    BY <2>1, WhoIs DEF TypeOK
  <2>5. link' = [link EXCEPT ![W] = IF @ = None THEN request[r].user ELSE @]
    BY <2>3, <2>4
  <2>6. OAuthLinked(r)
    BY <2>1, <2>2, <2>3, <2>5 DEF OAuthLinked
  <2> QED BY <2>6 DEF WriteStep
<1>9. CASE LinkInsert(r)
  <2>1. r \in Active /\ request[r].kind = "link" /\ Reply(r)
    BY <1>0, <1>9 DEF LinkInsert
  <2>2. Ended(r)
    BY <2>1, Replied
  <2>3. /\ link' = IF link[A] = None THEN [link EXCEPT ![A] = W] ELSE link
        /\ UNCHANGED <<state, email, hidden, password, seeded, token, machine, key>> /\ Frame
    BY <1>9 DEF LinkInsert
  <2>4. A \in Identities /\ link \in [Identities -> Users \cup {None}]
    BY <2>1, WhoIs DEF TypeOK
  <2>5. link' = [link EXCEPT ![A] = IF @ = None THEN W ELSE @]
    BY <2>3, <2>4
  <2>6. LinkInserted(r)
    BY <2>1, <2>2, <2>3, <2>5 DEF LinkInserted
  <2> QED BY <2>6 DEF WriteStep
<1>10. CASE UnlinkDelete(r)
  <2>1. r \in Active /\ request[r].kind = "unlink" /\ request[r].pc = "delete" /\ Reply(r)
    BY <1>0, <1>10 DEF UnlinkDelete
  <2>2. Ended(r)
    BY <2>1, Replied
  <2>3. Unlinked(r)
    BY <1>10, <2>1, <2>2 DEF UnlinkDelete, Unlinked
  <2> QED BY <2>3 DEF WriteStep
<1>11. CASE EmailWrite(r)
  <2>1. r \in Active /\ request[r].kind = "email" /\ request[r].pc = "write" /\ Reply(r)
    BY <1>0, <1>11 DEF EmailWrite
  <2>2. Ended(r)
    BY <2>1, Replied
  <2>3. UNCHANGED <<state, hidden, password, seeded, link, token, machine, key>> /\ Frame
    BY <1>11 DEF EmailWrite
  <2>4. CASE EmailTaken(A)
    <3>1. Reads
      BY <1>11, <2>3, <2>4 DEF EmailWrite, Reads, tables
    <3> QED BY <2>1, <3>1, ReadAnswered
  <2>5. CASE ~EmailTaken(A)
    <3>1. email' = [email EXCEPT ![W] = A]
      BY <1>11, <2>5 DEF EmailWrite
    <3>2. EmailWritten(r)
      BY <2>1, <2>2, <2>3, <2>5, <3>1 DEF EmailWritten
    <3> QED BY <3>2 DEF WriteStep
  <2> QED BY <2>4, <2>5
<1>12. CASE Scrub(r)
  <2>1. r \in Active /\ request[r].kind \in {"delete", "adminDelete"} /\ request[r].pc = "start"
    BY <1>0, <1>12 DEF Scrub
  <2>2. Reply(r) \/ Goto(r, "tokens")
    BY <1>12 DEF Scrub
  <2>3. Ended(r) \/ (Went(r) /\ request'[r].pc = "tokens")
    BY <2>1, <2>2, Replied, GoesTo DEF Pcs
  <2>4. Scrubbed(r)
    BY <1>12, <2>1, <2>3 DEF Scrub, Scrubbed
  <2> QED BY <2>4 DEF WriteStep
<1>13. CASE DeleteTokens(r)
  <2>1. /\ r \in Active /\ request[r].kind = "delete" /\ Goto(r, "machines") /\ Revoke(TokensOf(W))
        /\ UNCHANGED <<state, email, hidden, password, seeded, link, machine, key>> /\ Frame
    BY <1>0, <1>13 DEF DeleteTokens
  <2>2. Went(r) /\ request'[r].pc = "machines"
    BY <2>1, GoesTo DEF Pcs
  <2>3. Revoked(r, TokensOf(W))
    BY <2>1, <2>2 DEF Revoked
  <2> QED BY <2>3 DEF WriteStep
<1>14. CASE DeleteMachines(r) \/ RevokeMachine(r)
  <2>1. /\ r \in Active /\ request[r].kind \in {"delete", "revoke"} /\ Reply(r)
        /\ UNCHANGED <<state, email, hidden, password, seeded, link, token, key>> /\ Frame
    BY <1>0, <1>14 DEF DeleteMachines, RevokeMachine
  <2>2. \E ms : Deactivate(ms)
    BY <1>14 DEF DeleteMachines, RevokeMachine
  <2>3. Ended(r)
    BY <2>1, Replied
  <2> QED BY <2>1, <2>2, <2>3 DEF WriteStep, Deactivated
<1>15. CASE InsertMachine(r)
  <2>1. /\ r \in Active /\ request[r].kind \in {"device", "validate"} /\ request[r].pc = "insert" /\ Reply(r)
        /\ UNCHANGED <<state, email, hidden, password, seeded, link, token, key>> /\ Frame
    BY <1>0, <1>15 DEF InsertMachine
  <2>2. PICK m \in Machines :
          /\ \A x \in Machines : machine[x] = NoMachine <=> x >= m
          /\ machine' = [machine EXCEPT ![m] = [user |-> W, device |-> A, active |-> TRUE]]
    BY <1>15 DEF InsertMachine
  <2>3. m >= m
    BY BoundsAssumption DEF Machines
  <2>4. machine[m] = NoMachine
    BY <2>2, <2>3
  <2>5. Ended(r)
    BY <2>1, Replied
  <2>6. MachineAdded(r, m)
    BY <2>1, <2>2, <2>4, <2>5 DEF MachineAdded
  <2> QED BY <2>6 DEF WriteStep
<1> QED BY <1>1, <1>2, <1>3, <1>4, <1>5, <1>6, <1>7, <1>8, <1>9, <1>10, <1>11, <1>12, <1>13, <1>14, <1>15

\* Every step, as the proofs below distinguish them.
HandleStep(r) == ReadStep(r) \/ WriteStep(r)
ServerStep ==
  \/ \E u \in Users, p \in {"free", "premium", "expert"} : ChangePlan(u, p)
  \/ \E u \in Users : IssueKey(u)
  \/ Restart \/ UNCHANGED vars

LEMMA Steps ==
  ASSUME TypeOK, RequestsOK, ExchangePending, [Next]_vars
  PROVE  (\E r \in Requests : Begun(r) \/ HandleStep(r)) \/ ServerStep
<1>1. ASSUME NEW r \in Requests, Start(r) PROVE Begun(r)
  BY <1>1, Starts
<1>2. ASSUME NEW r \in Requests, Handle(r) PROVE HandleStep(r)
  BY <1>2, ReadsOnly, Writes DEF Handle, HandleStep
<1> QED BY <1>1, <1>2 DEF Next, ServerStep

\* Nothing but these steps changes the requests, or what is fixed.
LEMMA RequestSteps ==
  ASSUME NEW r \in Requests, HandleStep(r)
  PROVE  r \in Active /\ Frame /\ (Ended(r) \/ Went(r))
<1>1. CASE ReadStep(r)
  BY <1>1 DEF ReadStep, Frame
<1>2. CASE WriteStep(r)
  BY <1>2 DEF WriteStep, Registered, OAuthCreated, Creates, OAuthSeeded, OAuthLinked, LinkInserted,
     Unlinked, PasswordStored, EmailWritten, Scrubbed, Issued, Exchanged, Revoked, MachineAdded, Deactivated
<1> QED BY <1>1, <1>2 DEF HandleStep

LEMMA ServerSteps ==
  ASSUME ServerStep
  PROVE  /\ UNCHANGED <<setting, state, email, hidden, password, seeded, link, token, machine>>
         /\ UNCHANGED request \/ (Active' = {} /\ request' = [r \in Requests |-> Idle] /\ crashed')
         /\ (crashed' => crashed) \/ Active' = {}
<1>1. CASE UNCHANGED vars \/ \E u \in Users : IssueKey(u)
  BY <1>1 DEF vars, tables, IssueKey
<1>2. CASE \E u \in Users, p \in {"free", "premium", "expert"} : ChangePlan(u, p)
  BY <1>2 DEF tables, ChangePlan
<1>3. CASE Restart
  BY <1>3 DEF Restart, tables, Active
<1> QED BY <1>1, <1>2, <1>3 DEF ServerStep

-----------------------------------------------------------------------------
(* Requests.                                                               *)

\* No row of users is ever removed.
LEMMA RowsStay ==
  ASSUME TypeOK, RequestsOK, ExchangePending, [Next]_vars, NEW u \in Users, state[u] # "none"
  PROVE  state'[u] # "none"
<1>1. ASSUME NEW r \in Requests, Begun(r) PROVE state' = state
  BY <1>1 DEF Begun, tables
<1>2. ASSUME NEW r \in Requests, ReadStep(r) PROVE state' = state
  BY <1>2 DEF ReadStep, tables
<1>3. ASSUME NEW r \in Requests, WriteStep(r)
      PROVE  \/ state' = state
             \/ \E v, s : state' = [state EXCEPT ![v] = s] /\ s # "none"
  <2>1. CASE (\E v \in Users : Registered(r, v) \/ OAuthCreated(r, v)) \/ Scrubbed(r)
    <3>1. (\E v : state' = [state EXCEPT ![v] = "live"]) \/ \E v : state' = [state EXCEPT ![v] = "deleted"]
      BY <2>1 DEF Registered, OAuthCreated, Creates, Scrubbed
    <3> QED BY <3>1
  <2>2. CASE \/ OAuthSeeded(r) \/ OAuthLinked(r) \/ LinkInserted(r) \/ Unlinked(r) \/ PasswordStored(r)
             \/ EmailWritten(r) \/ (\E t \in Tokens : Issued(r, t)) \/ Exchanged(r) \/ (\E ts : Revoked(r, ts))
             \/ (\E m \in Machines : MachineAdded(r, m)) \/ \E ms : Deactivated(r, ms)
    BY <2>2 DEF OAuthSeeded, OAuthLinked, LinkInserted, Unlinked, PasswordStored, EmailWritten, Issued,
       Exchanged, Revoked, MachineAdded, Deactivated
  <2> QED BY <1>3, <2>1, <2>2 DEF WriteStep
<1>4. CASE ServerStep
  BY <1>4, ServerSteps
<1>5. DOMAIN state = Users
  BY DEF TypeOK
<1> QED BY <1>1, <1>2, <1>3, <1>4, <1>5, Steps DEF HandleStep

\* Where a request that goes on has got, its account exists.
LEMMA WentWhere ==
  ASSUME TypeOK, RequestsOK, ExchangePending, [Next]_vars, NEW r \in Requests, HandleStep(r), Went(r)
  PROVE  /\ request'[r].pc \in {"issue", "known", "user", "seed", "link"} => request'[r].user \in Users
         /\ request'[r].pc \in {"seed", "link"} =>
              request'[r].kind = "oauth" /\ state'[request'[r].user] # "none"
<1> DEFINE q == request[r]
           p == request'[r]
<1>0. r \in Active /\ p.kind = q.kind
  BY RequestSteps DEF Went
<1>1. CASE ReadStep(r)
  <2>1. Leads(r) /\ state' = state
    <3>1. ~Ended(r)
      BY NotIdle DEF Ended, Went
    <3> QED BY <1>1, <3>1 DEF ReadStep, tables
  <2> QED BY <1>0, <2>1 DEF Leads
<1>2. ASSUME NEW u \in Users, NEW kind, NEW pc, NEW next \in {"issue", "seed"}, Creates(r, u, kind, pc, next),
             next = "seed" => kind = "oauth"
      PROVE  /\ p.pc = next /\ p.user = u /\ state'[p.user] # "none"
             /\ p.pc = "seed" => p.kind = "oauth"
  <2>1. p.pc = next /\ p.user = u /\ state' = [state EXCEPT ![u] = "live"] /\ q.kind = kind
    BY <1>2 DEF Creates
  <2> QED BY <1>0, <1>2, <2>1 DEF TypeOK
<1>3. CASE \E u \in Users : Registered(r, u) \/ OAuthCreated(r, u)
  BY <1>2, <1>3 DEF Registered, OAuthCreated
<1>4. CASE OAuthSeeded(r) \/ OAuthLinked(r)
  <2>1. /\ q.pc \in {"seed", "link"} /\ p.pc \in {"link", "issue"} /\ p.user = q.user /\ q.kind = "oauth"
        /\ state' = state
    BY <1>4 DEF OAuthSeeded, OAuthLinked
  <2>2. q.user \in Users /\ state[q.user] # "none"
    BY <1>0, <2>1 DEF RequestsOK
  <2> QED BY <1>0, <2>1, <2>2
<1>5. CASE Exchanged(r)
  <2>1. p.pc = "user" /\ p.user = token[q.arg].user /\ token[q.arg].live /\ q.arg \in Tokens
    BY <1>0, <1>5, WhoIs DEF Exchanged
  <2>2. token[q.arg] # NoToken
    BY <2>1 DEF NoToken
  <2> QED BY <2>1, <2>2 DEF ExchangePending
<1>6. CASE \/ PasswordStored(r) \/ Scrubbed(r) \/ \E ts : Revoked(r, ts)
  <2>1. Ended(r) \/ p.pc \in {"revoke", "tokens", "machines"}
    BY <1>6 DEF PasswordStored, Scrubbed, Revoked
  <2> QED BY <2>1, NotIdle DEF Ended, Went
<1>7. CASE \/ LinkInserted(r) \/ Unlinked(r) \/ EmailWritten(r) \/ \E t \in Tokens : Issued(r, t)
           \/ (\E m \in Machines : MachineAdded(r, m)) \/ \E ms : Deactivated(r, ms)
  <2>1. Ended(r)
    BY <1>7 DEF LinkInserted, Unlinked, EmailWritten, Issued, MachineAdded, Deactivated
  <2> QED BY <2>1, NotIdle DEF Ended, Went
<1> QED BY <1>1, <1>3, <1>4, <1>5, <1>6, <1>7 DEF HandleStep, WriteStep

LEMMA RequestsInductive ==
  ASSUME TypeOK, RequestsOK, ExchangePending, [Next]_vars
  PROVE  RequestsOK'
<1> DEFINE Good(q) ==
             /\ q.kind \in DOMAIN setting'.allow /\ q \in RequestOf(q.kind)
             /\ q.kind \in {"password", "link", "delete", "adminDelete"} => state'[q.who] # "none"
             /\ q.pc \in {"issue", "known", "user", "seed", "link"} => q.user \in Users
             /\ q.pc \in {"seed", "link"} => q.kind = "oauth" /\ state'[q.user] # "none"
<1>0. setting' = setting
  BY Steps, RequestSteps, ServerSteps DEF Begun, Frame
<1>1. ASSUME NEW s \in Active PROVE Good(request[s])
  <2>1. request[s].kind \in {"password", "link", "delete", "adminDelete"} => request[s].who \in Users
    BY WhoIs
  <2> QED BY <1>0, <2>1, RowsStay DEF RequestsOK
<1>2. ASSUME NEW r \in Requests, Begun(r) PROVE RequestsOK'
  <2>1. Active' = Active \cup {r} /\ Others(r) /\ state' = state /\ r \notin Active /\ r \in Requests
    BY <1>2 DEF Begun, tables
  <2>2. Good(request'[r])
    BY <1>0, <1>2, <2>1 DEF Begun
  <2>3. \A s \in Active : request'[s] = request[s]
    BY <2>1 DEF Others, Active
  <2>4. \A s \in Active' : Good(request'[s])
    BY <1>1, <2>1, <2>2, <2>3
  <2> QED BY <2>1, <2>4 DEF RequestsOK, Others
<1>3. ASSUME NEW r \in Requests, HandleStep(r) PROVE RequestsOK'
  <2>1. r \in Active /\ (Ended(r) \/ Went(r)) /\ Others(r)
    BY <1>3, RequestSteps DEF Ended, Went
  <2>2. \A s \in Active' : s # r => s \in Active /\ request'[s] = request[s]
    BY <2>1 DEF Others, Active, Ended, Went
  <2>3. ASSUME Went(r) PROVE Good(request'[r])
    <3>1. PICK q, p : q = request[r] /\ p = request'[r]
      OBVIOUS
    <3>2. Good(q)
      BY <1>1, <2>1, <3>1
    <3>3. p \in RequestOf(q.kind) /\ p.kind = q.kind /\ p.who = q.who
      BY <2>3, <3>1 DEF Went
    <3>4. /\ p.pc \in {"issue", "known", "user", "seed", "link"} => p.user \in Users
          /\ p.pc \in {"seed", "link"} => p.kind = "oauth" /\ state'[p.user] # "none"
      BY <1>3, <2>3, <3>1, WentWhere
    <3> QED BY <3>1, <3>2, <3>3, <3>4
  <2>4. Ended(r) => r \notin Active'
    BY DEF Ended
  <2>5. \A s \in Active' : Good(request'[s])
    BY <1>1, <2>1, <2>2, <2>3, <2>4
  <2> QED BY <2>1, <2>5 DEF RequestsOK, Others
<1>4. CASE ServerStep
  <2>1. CASE UNCHANGED request
    <3>1. Active' = Active
      BY <2>1 DEF Active
    <3>2. \A s \in Active' : Good(request'[s])
      BY <1>1, <2>1, <3>1
    <3> QED BY <2>1, <3>2 DEF RequestsOK
  <2>2. CASE Active' = {} /\ request' = [r \in Requests |-> Idle]
    BY <2>2 DEF RequestsOK
  <2> QED BY <1>4, <2>1, <2>2, ServerSteps
<1> QED BY <1>2, <1>3, <1>4, Steps

-----------------------------------------------------------------------------
(* The type invariant.                                                     *)

Unique(f) == \A u, v \in Users : u # v => (f[u] # None => f[u] # f[v])

LEMMA UniqueStays ==
  ASSUME NEW S, NEW f \in [Users -> S \cup {None}], Unique(f), NEW u \in Users, NEW x \in S \cup {None},
         x # None => \A v \in Users : f[v] # x
  PROVE  [f EXCEPT ![u] = x] \in [Users -> S \cup {None}] /\ Unique([f EXCEPT ![u] = x])
<1>1. PICK g : g = [f EXCEPT ![u] = x]
  OBVIOUS
<1>2. g \in [Users -> S \cup {None}] /\ g[u] = x /\ \A v \in Users : v # u => g[v] = f[v]
  BY <1>1
<1>3. Unique(g)
  BY <1>2 DEF Unique
<1> QED BY <1>1, <1>2, <1>3

Addressed ==
  /\ state \in [Users -> {"none", "live", "deleted"}]
  /\ email \in [Users -> Emails \cup {None}] /\ hidden \in [Users -> Identities \cup {None}]
  /\ Unique(email) /\ Unique(hidden)

LEMMA AddressedInductive ==
  ASSUME TypeOK, RequestsOK, ExchangePending, [Next]_vars
  PROVE  Addressed'
<1>0. Addressed
  BY DEF Addressed, TypeOK, Unique
<1>1. CASE UNCHANGED <<state, email, hidden>>
  BY <1>0, <1>1 DEF Addressed, Unique
<1>2. ASSUME NEW u \in Users, NEW s \in {"none", "live", "deleted"}, NEW e \in Emails \cup {None},
             NEW h \in Identities \cup {None},
             state' = [state EXCEPT ![u] = s], email' = [email EXCEPT ![u] = e], hidden' = [hidden EXCEPT ![u] = h],
             e # None => \A v \in Users : email[v] # e, h # None => \A v \in Users : hidden[v] # h
      PROVE  Addressed'
  <2>1. email' \in [Users -> Emails \cup {None}] /\ Unique(email')
    BY <1>0, <1>2, UniqueStays DEF Addressed
  <2>2. hidden' \in [Users -> Identities \cup {None}] /\ Unique(hidden')
    BY <1>0, <1>2, UniqueStays DEF Addressed
  <2>3. state' \in [Users -> {"none", "live", "deleted"}]
    BY <1>0, <1>2 DEF Addressed
  <2> QED BY <2>1, <2>2, <2>3 DEF Addressed, Unique
<1>3. ASSUME NEW r \in Requests, NEW u \in Users, Registered(r, u) PROVE Addressed'
  <2>1. /\ r \in Active /\ request[r].kind = "register" /\ state' = [state EXCEPT ![u] = "live"]
        /\ email' = [email EXCEPT ![u] = request[r].arg] /\ hidden' = [hidden EXCEPT ![u] = None]
        /\ \A v \in Users : email[v] # request[r].arg
    BY <1>3 DEF Registered, Creates, EmailTaken
  <2>2. PICK e : e = request[r].arg
    OBVIOUS
  <2>3. e \in Emails
    BY <2>1, <2>2, WhoIs
  <2> QED BY <1>2, <2>1, <2>2, <2>3
<1>4. ASSUME NEW r \in Requests, NEW u \in Users, OAuthCreated(r, u) PROVE Addressed'
  <2>1. PICK i, e, h : i = request[r].who /\ e = Mail[i] /\ h = IF e = None THEN i ELSE None
    OBVIOUS
  <2>2. r \in Active /\ request[r].kind = "oauth" /\ state' = [state EXCEPT ![u] = "live"]
    BY <1>4 DEF OAuthCreated, Creates
  <2>3. i \in Identities /\ e \in Emails \cup {None} /\ h \in Identities \cup {None}
    BY <2>1, <2>2, WhoIs, MailAssumption
  <2>4. /\ email' = [email EXCEPT ![u] = e] /\ hidden' = [hidden EXCEPT ![u] = h]
        /\ (e # None => \A v \in Users : email[v] # e) /\ (h # None => \A v \in Users : hidden[v] # h)
    BY <1>4, <2>1 DEF OAuthCreated, EmailTaken
  <2> QED BY <1>2, <2>2, <2>3, <2>4
<1>5. ASSUME NEW r \in Requests, EmailWritten(r) PROVE Addressed'
  <2>1. PICK u, e : u = request[r].who /\ e = request[r].arg
    OBVIOUS
  <2>2. u \in Users /\ e \in Emails
    BY <1>5, <2>1, WhoIs DEF EmailWritten
  <2>3. /\ email' = [email EXCEPT ![u] = e] /\ (\A v \in Users : email[v] # e)
        /\ UNCHANGED <<state, hidden>>
    BY <1>5, <2>1 DEF EmailWritten, EmailTaken
  <2>4. email' \in [Users -> Emails \cup {None}] /\ Unique(email')
    BY <1>0, <2>2, <2>3, UniqueStays DEF Addressed
  <2> QED BY <1>0, <2>3, <2>4 DEF Addressed, Unique
<1>6. ASSUME NEW r \in Requests, Scrubbed(r) PROVE Addressed'
  <2>1. PICK u : u = request[r].who
    OBVIOUS
  <2>2. u \in Users
    BY <1>6, <2>1, WhoIs DEF Scrubbed
  <2>3. /\ state' = [state EXCEPT ![u] = "deleted"] /\ email' = [email EXCEPT ![u] = None]
        /\ hidden' = [hidden EXCEPT ![u] = None]
    BY <1>6, <2>1 DEF Scrubbed
  <2> QED BY <1>2, <2>2, <2>3
<1>7. ASSUME NEW r \in Requests, Begun(r) PROVE Addressed'
  BY <1>1, <1>7 DEF Begun, tables
<1>8. ASSUME NEW r \in Requests, HandleStep(r) PROVE Addressed'
  <2>1. CASE ReadStep(r)
    BY <1>1, <2>1 DEF ReadStep, tables
  <2>2. CASE \/ OAuthSeeded(r) \/ OAuthLinked(r) \/ LinkInserted(r) \/ Unlinked(r) \/ PasswordStored(r)
             \/ (\E t \in Tokens : Issued(r, t)) \/ Exchanged(r) \/ (\E ts : Revoked(r, ts))
             \/ (\E m \in Machines : MachineAdded(r, m)) \/ \E ms : Deactivated(r, ms)
    BY <1>1, <2>2 DEF OAuthSeeded, OAuthLinked, LinkInserted, Unlinked, PasswordStored, Issued, Exchanged,
       Revoked, MachineAdded, Deactivated
  <2> QED BY <1>3, <1>4, <1>5, <1>6, <1>8, <2>1, <2>2 DEF HandleStep, WriteStep
<1>9. CASE ServerStep
  BY <1>1, <1>9, ServerSteps
<1> QED BY <1>7, <1>8, <1>9, Steps

\* Passwords, rows and identities belong to accounts that exist.
Existing == {u \in Users : state[u] # "none"}
Owned ==
  password \subseteq Existing /\ seeded \subseteq Existing /\ link \in [Identities -> Existing \cup {None}]

LEMMA OwnedIs ==
  ASSUME DOMAIN link = Identities
  PROVE  Owned <=> /\ password \subseteq Users /\ seeded \subseteq Users
                   /\ link \in [Identities -> Users \cup {None}]
                   /\ \A u \in Users : state[u] = "none" => u \notin password \cup seeded /\ Linked(u) = {}
<1>1. ASSUME Owned
      PROVE  /\ password \subseteq Users /\ seeded \subseteq Users
             /\ link \in [Identities -> Users \cup {None}]
             /\ \A u \in Users : state[u] = "none" => u \notin password \cup seeded /\ Linked(u) = {}
  BY <1>1, NoneAssumption DEF Owned, Existing, Linked
<1>2. ASSUME password \subseteq Users, seeded \subseteq Users,
             link \in [Identities -> Users \cup {None}],
             \A u \in Users : state[u] = "none" => u \notin password \cup seeded /\ Linked(u) = {}
      PROVE  Owned
  <2>1. \A i \in Identities : link[i] \in Existing \cup {None}
    BY <1>2 DEF Existing, Linked
  <2>2. password \subseteq Existing /\ seeded \subseteq Existing
    BY <1>2 DEF Existing
  <2> QED BY <1>2, <2>1, <2>2 DEF Owned
<1> QED BY <1>1, <1>2

LEMMA OwnedInductive ==
  ASSUME TypeOK, RequestsOK, ExchangePending, [Next]_vars
  PROVE  Owned'
<1>0. Owned
  BY OwnedIs DEF TypeOK
<1>1. Existing \subseteq Existing'
  BY RowsStay DEF Existing
<1>2. CASE UNCHANGED <<password, seeded, link>>
  BY <1>0, <1>1, <1>2 DEF Owned
<1>3. ASSUME NEW r \in Requests, NEW u \in Users, Registered(r, u) \/ OAuthCreated(r, u) PROVE Owned'
  <2>1. /\ password' \subseteq password \cup {u} /\ seeded' \subseteq seeded \cup {u} /\ link' = link
        /\ state' = [state EXCEPT ![u] = "live"]
    BY <1>3 DEF Registered, OAuthCreated, Creates
  <2>2. u \in Existing'
    BY <2>1 DEF Existing, TypeOK
  <2> QED BY <1>0, <1>1, <2>1, <2>2 DEF Owned
<1>4. ASSUME NEW r \in Requests, OAuthSeeded(r) \/ OAuthLinked(r) PROVE Owned'
  <2>1. r \in Active /\ request[r].kind = "oauth" /\ request[r].pc \in {"seed", "link"}
    BY <1>4 DEF OAuthSeeded, OAuthLinked
  <2>2. PICK u, i : u = request[r].user /\ i = request[r].who
    OBVIOUS
  <2>3. u \in Existing /\ i \in Identities
    BY <2>1, <2>2, WhoIs DEF RequestsOK, Existing
  <2>4. /\ password' = password /\ seeded' \subseteq seeded \cup {u}
        /\ link' = link \/ link' = [link EXCEPT ![i] = IF @ = None THEN u ELSE @]
    BY <1>4, <2>2 DEF OAuthSeeded, OAuthLinked
  <2> QED BY <1>0, <1>1, <2>3, <2>4 DEF Owned
<1>5. ASSUME NEW r \in Requests, LinkInserted(r) PROVE Owned'
  <2>1. PICK u, i : u = request[r].who /\ i = request[r].arg
    OBVIOUS
  <2>2. u \in Existing /\ i \in Identities
    BY <1>5, <2>1, WhoIs DEF LinkInserted, RequestsOK, Existing
  <2>3. /\ password' = password /\ seeded' = seeded
        /\ link' = [link EXCEPT ![i] = IF @ = None THEN u ELSE @]
    BY <1>5, <2>1 DEF LinkInserted
  <2> QED BY <1>0, <1>1, <2>2, <2>3 DEF Owned
<1>6. ASSUME NEW r \in Requests, Unlinked(r) PROVE Owned'
  <2>1. /\ password' = password /\ seeded' = seeded /\ DOMAIN link' = Identities
        /\ link' = [i \in Identities |-> link'[i]]
        /\ \A i \in Identities : link'[i] \in {link[i], None}
    BY <1>6 DEF Unlinked
  <2> QED BY <1>0, <1>1, <2>1 DEF Owned
<1>7. ASSUME NEW r \in Requests, PasswordStored(r) \/ Scrubbed(r) PROVE Owned'
  <2>1. PICK u : u = request[r].who
    OBVIOUS
  <2>2. PasswordStored(r) => u \in Existing
    BY <2>1, WhoIs DEF PasswordStored, RequestsOK, Existing
  <2>3. /\ seeded' = seeded /\ link' = link
        /\ password' \subseteq password \/ (PasswordStored(r) /\ password' = password \cup {u})
    BY <1>7, <2>1 DEF PasswordStored, Scrubbed
  <2> QED BY <1>0, <1>1, <2>2, <2>3 DEF Owned
<1>8. ASSUME NEW r \in Requests, Begun(r) PROVE Owned'
  BY <1>2, <1>8 DEF Begun, tables
<1>9. ASSUME NEW r \in Requests, HandleStep(r) PROVE Owned'
  <2>1. CASE ReadStep(r)
    BY <1>2, <2>1 DEF ReadStep, tables
  <2>2. CASE \/ EmailWritten(r) \/ (\E t \in Tokens : Issued(r, t)) \/ Exchanged(r) \/ (\E ts : Revoked(r, ts))
             \/ (\E m \in Machines : MachineAdded(r, m)) \/ \E ms : Deactivated(r, ms)
    BY <1>2, <2>2 DEF EmailWritten, Issued, Exchanged, Revoked, MachineAdded, Deactivated
  <2> QED BY <1>3, <1>4, <1>5, <1>6, <1>7, <1>9, <2>1, <2>2 DEF HandleStep, WriteStep
<1>10. CASE ServerStep
  BY <1>2, <1>10, ServerSteps
<1> QED BY <1>8, <1>9, <1>10, Steps

\* Tokens and devices.
LEMMA TokensInductive ==
  ASSUME TypeOK, RequestsOK, ExchangePending, [Next]_vars
  PROVE  /\ token' \in [Tokens -> [user : Users \cup {None}, live : BOOLEAN, from : Tokens \cup {None}]]
         /\ \A t \in Tokens : token'[t] = NoToken \/ token'[t].user \in Users
<1> DEFINE RowType == [user : Users \cup {None}, live : BOOLEAN, from : Tokens \cup {None}]
           Goal == token' \in [Tokens -> RowType] /\ \A t \in Tokens : token'[t] = NoToken \/ token'[t].user \in Users
<1>0. token \in [Tokens -> RowType] /\ \A t \in Tokens : token[t] = NoToken \/ token[t].user \in Users
  BY DEF TypeOK, ExchangePending
<1>1. CASE token' = token
  BY <1>0, <1>1
<1>2. ASSUME NEW r \in Requests, NEW t \in Tokens, Issued(r, t) PROVE Goal
  <2>1. PICK n : n = [user |-> request[r].user, live |-> TRUE,
                      from |-> IF request[r].kind = "refresh" THEN request[r].arg ELSE None]
    OBVIOUS
  <2>2. r \in Active /\ request[r].user \in Users
    BY <1>2 DEF Issued, RequestsOK
  <2>3. (IF request[r].kind = "refresh" THEN request[r].arg ELSE None) \in Tokens \cup {None}
    BY <2>2, WhoIs
  <2>4. n \in RowType /\ n.user \in Users
    BY <2>1, <2>2, <2>3
  <2>5. token' = [token EXCEPT ![t] = n]
    BY <1>2, <2>1 DEF Issued
  <2> QED BY <1>0, <2>4, <2>5
<1>3. ASSUME NEW ts, Revoke(ts) PROVE Goal
  <2>1. ASSUME NEW t \in Tokens PROVE token'[t] \in RowType /\ (token'[t] = NoToken \/ token'[t].user \in Users)
    <3>1. PICK o : o = token[t]
      OBVIOUS
    <3>2. o \in RowType /\ (o = NoToken \/ o.user \in Users)
      BY <1>0, <3>1
    <3>3. token'[t] = IF t \in ts THEN [o EXCEPT !.live = FALSE] ELSE o
      BY <1>3, <3>1 DEF Revoke
    <3>4. [o EXCEPT !.live = FALSE] \in RowType /\ [o EXCEPT !.live = FALSE].user = o.user
      BY <3>2
    <3>5. ASSUME o = NoToken PROVE [o EXCEPT !.live = FALSE] = NoToken
      <4>1. o = [user |-> None, live |-> FALSE, from |-> None]
        BY <3>5 DEF NoToken
      <4>2. o.live = FALSE
        BY <4>1
      <4>3. [o EXCEPT !.live = o.live] = o
        BY <3>2
      <4> QED BY <3>5, <4>2, <4>3
    <3> QED BY <3>2, <3>3, <3>4, <3>5
  <2>2. token' = [t \in Tokens |-> token'[t]]
    BY <1>3 DEF Revoke
  <2> QED BY <2>1, <2>2
<1>4. ASSUME NEW r \in Requests, Begun(r) PROVE Goal
  BY <1>1, <1>4 DEF Begun, tables
<1>5. ASSUME NEW r \in Requests, HandleStep(r) PROVE Goal
  <2>1. CASE ReadStep(r)
    BY <1>1, <2>1 DEF ReadStep, tables
  <2>2. CASE Exchanged(r) \/ \E ts : Revoked(r, ts)
    BY <1>3, <2>2 DEF Exchanged, Revoked
  <2>3. CASE \/ (\E u \in Users : Registered(r, u) \/ OAuthCreated(r, u))
             \/ OAuthSeeded(r) \/ OAuthLinked(r) \/ LinkInserted(r) \/ Unlinked(r) \/ PasswordStored(r)
             \/ EmailWritten(r) \/ Scrubbed(r)
             \/ (\E m \in Machines : MachineAdded(r, m)) \/ \E ms : Deactivated(r, ms)
    BY <1>1, <2>3 DEF Registered, OAuthCreated, Creates, OAuthSeeded, OAuthLinked, LinkInserted, Unlinked,
       PasswordStored, EmailWritten, Scrubbed, MachineAdded, Deactivated
  <2> QED BY <1>2, <1>5, <2>1, <2>2, <2>3 DEF HandleStep, WriteStep
<1>6. CASE ServerStep
  BY <1>1, <1>6, ServerSteps
<1> QED BY <1>4, <1>5, <1>6, Steps

LEMMA MachinesInductive ==
  ASSUME TypeOK, RequestsOK, ExchangePending, [Next]_vars
  PROVE  machine' \in [Machines -> [user : Users \cup {None}, device : Devices \cup {None}, active : BOOLEAN]]
<1> DEFINE RowType == [user : Users \cup {None}, device : Devices \cup {None}, active : BOOLEAN]
           Goal == machine' \in [Machines -> RowType]
<1>0. machine \in [Machines -> RowType]
  BY DEF TypeOK
<1>1. CASE machine' = machine
  BY <1>0, <1>1
<1>2. ASSUME NEW r \in Requests, NEW m \in Machines, MachineAdded(r, m) PROVE Goal
  <2>1. PICK n : n = [user |-> request[r].who, device |-> request[r].arg, active |-> TRUE]
    OBVIOUS
  <2>2. request[r].who \in Users /\ request[r].arg \in Devices
    BY <1>2, WhoIs DEF MachineAdded
  <2>3. n \in RowType
    BY <2>1, <2>2
  <2>4. machine' = [machine EXCEPT ![m] = n]
    BY <1>2, <2>1 DEF MachineAdded
  <2> QED BY <1>0, <2>3, <2>4
<1>3. ASSUME NEW ms, Deactivate(ms) PROVE Goal
  <2>1. ASSUME NEW m \in Machines PROVE machine'[m] \in RowType
    <3>1. PICK o : o = machine[m]
      OBVIOUS
    <3>2. o \in RowType
      BY <1>0, <3>1
    <3>3. machine'[m] = IF m \in ms THEN [o EXCEPT !.active = FALSE] ELSE o
      BY <1>3, <3>1 DEF Deactivate
    <3> QED BY <3>2, <3>3
  <2>2. machine' = [m \in Machines |-> machine'[m]]
    BY <1>3 DEF Deactivate
  <2> QED BY <2>1, <2>2
<1>4. ASSUME NEW r \in Requests, Begun(r) PROVE Goal
  BY <1>1, <1>4 DEF Begun, tables
<1>5. ASSUME NEW r \in Requests, HandleStep(r) PROVE Goal
  <2>1. CASE ReadStep(r)
    BY <1>1, <2>1 DEF ReadStep, tables
  <2>2. CASE \E ms : Deactivated(r, ms)
    BY <1>3, <2>2 DEF Deactivated
  <2>3. CASE \/ (\E u \in Users : Registered(r, u) \/ OAuthCreated(r, u))
             \/ OAuthSeeded(r) \/ OAuthLinked(r) \/ LinkInserted(r) \/ Unlinked(r) \/ PasswordStored(r)
             \/ EmailWritten(r) \/ Scrubbed(r)
             \/ (\E t \in Tokens : Issued(r, t)) \/ Exchanged(r) \/ \E ts : Revoked(r, ts)
    BY <1>1, <2>3 DEF Registered, OAuthCreated, Creates, OAuthSeeded, OAuthLinked, LinkInserted, Unlinked,
       PasswordStored, EmailWritten, Scrubbed, Issued, Exchanged, Revoked
  <2> QED BY <1>2, <1>5, <2>1, <2>2, <2>3 DEF HandleStep, WriteStep
<1>6. CASE ServerStep
  BY <1>1, <1>6, ServerSteps
<1> QED BY <1>4, <1>5, <1>6, Steps

\* Plans, keys and the restart.
LEMMA RestInductive ==
  ASSUME TypeOK, RequestsOK, ExchangePending, [Next]_vars
  PROVE  /\ setting' \in Settings /\ key' \subseteq Users /\ crashed' \in BOOLEAN
         /\ plan' \in [Users -> {"free", "premium", "expert"}]
         /\ peak' \in [Users -> {"free", "premium", "expert"}]
<1>0. /\ setting \in Settings /\ key \subseteq Users /\ crashed \in BOOLEAN
      /\ plan \in [Users -> {"free", "premium", "expert"}]
      /\ peak \in [Users -> {"free", "premium", "expert"}]
  BY DEF TypeOK
<1>1. ASSUME NEW r \in Requests, Begun(r) PROVE UNCHANGED <<setting, key, crashed, plan, peak>>
  BY <1>1 DEF Begun, tables
<1>2. ASSUME NEW r \in Requests, HandleStep(r) PROVE UNCHANGED <<setting, key, crashed, plan, peak>>
  <2>1. key' = key
    BY <1>2 DEF HandleStep, ReadStep, tables, WriteStep, Registered, OAuthCreated, Creates, OAuthSeeded,
       OAuthLinked, LinkInserted, Unlinked, PasswordStored, EmailWritten, Scrubbed, Issued, Exchanged,
       Revoked, MachineAdded, Deactivated
  <2> QED BY <1>2, <2>1, RequestSteps DEF Frame
<1>3. ASSUME NEW u \in Users, NEW p \in {"free", "premium", "expert"}, ChangePlan(u, p)
      PROVE  /\ plan' \in [Users -> {"free", "premium", "expert"}]
             /\ peak' \in [Users -> {"free", "premium", "expert"}]
             /\ UNCHANGED <<setting, key, crashed>>
  <2>1. plan' = [plan EXCEPT ![u] = p] /\ (peak' = [peak EXCEPT ![u] = p] \/ peak' = peak)
        /\ UNCHANGED <<setting, key, crashed>>
    <3>1. peak' = [peak EXCEPT ![u] = IF Rank(p) > Rank(peak[u]) THEN p ELSE peak[u]]
      BY <1>0, <1>3 DEF ChangePlan
    <3>2. [peak EXCEPT ![u] = peak[u]] = peak
      BY <1>0
    <3> QED BY <1>3, <3>1, <3>2 DEF ChangePlan, tables
  <2> QED BY <1>0, <2>1
<1>4. ASSUME NEW u \in Users, IssueKey(u)
      PROVE  key' \subseteq Users /\ UNCHANGED <<setting, crashed, plan, peak>>
  BY <1>0, <1>4 DEF IssueKey
<1>5. CASE Restart
  BY <1>0, <1>5 DEF Restart, tables
<1>6. CASE UNCHANGED vars
  BY <1>0, <1>6 DEF vars, tables
<1> QED BY <1>0, <1>1, <1>2, <1>3, <1>4, <1>5, <1>6, Steps DEF ServerStep

\* An account's rows are missing only while the sign-in that made it is at work.
LEMMA SeedSteps ==
  ASSUME TypeOK, RequestsOK, NEW r \in Requests, HandleStep(r)
  PROVE  /\ seeded \subseteq seeded'
         /\ request[r].kind = "oauth" /\ request[r].pc = "seed" => request[r].user \in seeded'
         /\ \A u \in Users : state[u] = "none" /\ state'[u] # "none" =>
              \/ u \in seeded'
              \/ /\ r \in Active' /\ request'[r].kind = "oauth" /\ request'[r].pc = "seed"
                 /\ request'[r].user = u
<1>1. CASE ReadStep(r)
  BY <1>1 DEF ReadStep, tables
<1>2. ASSUME NEW u \in Users, Registered(r, u) \/ OAuthCreated(r, u)
      PROVE  /\ seeded \subseteq seeded' /\ ~(request[r].kind = "oauth" /\ request[r].pc = "seed")
             /\ \A v \in Users : v # u => state'[v] = state[v]
             /\ \/ u \in seeded'
                \/ /\ r \in Active' /\ request'[r].kind = "oauth" /\ request'[r].pc = "seed"
                   /\ request'[r].user = u
  BY <1>2 DEF Registered, OAuthCreated, Creates, Went, TypeOK
<1>3. CASE Scrubbed(r)
  <2>1. PICK w : w = request[r].who
    OBVIOUS
  <2>2. w \in Users /\ state[w] # "none"
    BY <1>3, <2>1, WhoIs DEF Scrubbed, RequestsOK
  <2>3. /\ UNCHANGED seeded /\ request[r].kind # "oauth"
        /\ \A u \in Users : u # w => state'[u] = state[u]
    BY <1>3, <2>1 DEF Scrubbed, TypeOK
  <2> QED BY <2>2, <2>3
<1>4. CASE \/ OAuthSeeded(r) \/ OAuthLinked(r) \/ LinkInserted(r) \/ Unlinked(r) \/ PasswordStored(r)
           \/ EmailWritten(r) \/ (\E t \in Tokens : Issued(r, t)) \/ Exchanged(r) \/ (\E ts : Revoked(r, ts))
           \/ (\E m \in Machines : MachineAdded(r, m)) \/ \E ms : Deactivated(r, ms)
  BY <1>4 DEF OAuthSeeded, OAuthLinked, LinkInserted, Unlinked, PasswordStored, EmailWritten, Issued, Exchanged,
     Revoked, MachineAdded, Deactivated
<1> QED BY <1>1, <1>2, <1>3, <1>4 DEF HandleStep, WriteStep

LEMMA SeedInductive ==
  ASSUME TypeOK, RequestsOK, ExchangePending, SeedPending, [Next]_vars
  PROVE  SeedPending'
<1> DEFINE Seeding(u, s) == /\ s \in Active /\ request[s].kind = "oauth" /\ request[s].pc = "seed"
                            /\ request[s].user = u
           Seeds(u, s) == /\ s \in Active' /\ request'[s].kind = "oauth" /\ request'[s].pc = "seed"
                          /\ request'[s].user = u
<1>0. \A u \in Users : ~crashed /\ state[u] # "none" /\ u \notin seeded => \E s \in Requests : Seeding(u, s)
  BY DEF SeedPending, At, Active
<1>1. SUFFICES ASSUME ~crashed', NEW u \in Users, state'[u] # "none", u \notin seeded'
               PROVE  \E s \in Requests : Seeds(u, s)
  BY DEF SeedPending, At, Active
<1>2. ASSUME NEW r \in Requests, Begun(r) PROVE \E s \in Requests : Seeds(u, s)
  <2>1. /\ UNCHANGED <<state, seeded, crashed>> /\ r \notin Active /\ Active' = Active \cup {r} /\ Others(r)
    BY <1>2 DEF Begun, tables
  <2>2. PICK s \in Requests : Seeding(u, s)
    BY <1>0, <1>1, <2>1
  <2>3. request'[s] = request[s] /\ s \in Active'
    BY <2>1, <2>2 DEF Others
  <2> QED BY <2>2, <2>3
<1>3. ASSUME NEW r \in Requests, HandleStep(r) PROVE \E s \in Requests : Seeds(u, s)
  <2>1. /\ r \in Active /\ Others(r) /\ Active' \cup {r} = Active /\ crashed' = crashed
    BY <1>3, RequestSteps DEF Ended, Went, Frame
  <2>2. CASE state[u] = "none"
    BY <1>1, <1>3, <2>1, <2>2, SeedSteps
  <2>3. CASE state[u] # "none"
    <3>1. u \notin seeded
      BY <1>1, <1>3, SeedSteps
    <3>2. PICK s \in Requests : Seeding(u, s)
      BY <1>0, <1>1, <2>1, <2>3, <3>1
    <3>3. s # r
      BY <1>1, <1>3, <3>2, SeedSteps
    <3>4. request'[s] = request[s] /\ s \in Active'
      BY <2>1, <3>2, <3>3 DEF Others
    <3> QED BY <3>2, <3>4
  <2> QED BY <2>2, <2>3
<1>4. CASE ServerStep
  <2>1. UNCHANGED <<state, seeded>> /\ (UNCHANGED request \/ crashed')
    BY <1>4, ServerSteps
  <2>2. UNCHANGED request /\ (crashed => crashed')
    <3>1. crashed => crashed'
      BY <1>4 DEF ServerStep, ChangePlan, IssueKey, Restart, vars
    <3> QED BY <1>1, <2>1, <3>1
  <2>3. PICK s \in Requests : Seeding(u, s)
    BY <1>0, <1>1, <2>1, <2>2
  <2>4. s \in Active'
    BY <2>2, <2>3 DEF Active
  <2> QED BY <2>2, <2>3, <2>4
<1> QED BY <1>2, <1>3, <1>4, Steps

LEMMA TypeInductive ==
  ASSUME TypeOK, RequestsOK, ExchangePending, SeedPending, [Next]_vars
  PROVE  TypeOK'
<1>1. Addressed' /\ Owned' /\ SeedPending'
  BY AddressedInductive, OwnedInductive, SeedInductive
<1>2. DOMAIN link' = Identities
  BY <1>1 DEF Owned
<1>3. /\ password' \subseteq Users /\ seeded' \subseteq Users
      /\ link' \in [Identities -> Users \cup {None}]
      /\ \A u \in Users : state'[u] = "none" => u \notin password' \cup seeded' /\ Linked(u)' = {}
  BY <1>1, NoneAssumption DEF Owned, Existing, Linked
<1>4. ASSUME Quiet', ~crashed' PROVE seeded' = {u \in Users : state'[u] # "none"}
  <2>1. \A u \in Users : state'[u] # "none" => u \in seeded'
    BY <1>1, <1>4 DEF SeedPending, Quiet, At
  <2> QED BY <1>1, <2>1 DEF Owned, Existing
<1>5. /\ token' \in [Tokens -> [user : Users \cup {None}, live : BOOLEAN, from : Tokens \cup {None}]]
      /\ machine' \in [Machines -> [user : Users \cup {None}, device : Devices \cup {None}, active : BOOLEAN]]
      /\ setting' \in Settings /\ key' \subseteq Users /\ crashed' \in BOOLEAN
      /\ plan' \in [Users -> {"free", "premium", "expert"}]
      /\ peak' \in [Users -> {"free", "premium", "expert"}]
  BY TokensInductive, MachinesInductive, RestInductive
<1>6. \A u, v \in Users : u # v => /\ email'[u] # None => email'[u] # email'[v]
                                   /\ hidden'[u] # None => hidden'[u] # hidden'[v]
  BY <1>1 DEF Addressed, Unique
<1> QED BY <1>1, <1>3, <1>4, <1>5, <1>6 DEF TypeOK, Addressed

-----------------------------------------------------------------------------
(* Refresh tokens.                                                         *)

\* Tokens are revoked, at most.
Lowered ==
  \A x \in Tokens : /\ token'[x].user = token[x].user /\ token'[x].from = token[x].from
                    /\ token'[x].live => token[x].live

LEMMA RevokeLowers ==
  ASSUME TypeOK, NEW ts, Revoke(ts)
  PROVE  Lowered /\ \A x \in Tokens \cap ts : ~token'[x].live
<1>1. ASSUME NEW x \in Tokens
      PROVE  /\ token'[x].user = token[x].user /\ token'[x].from = token[x].from
             /\ token'[x].live => token[x].live
             /\ x \in ts => ~token'[x].live
  <2>1. PICK o, n : o = token[x] /\ n = [o EXCEPT !.live = FALSE]
    OBVIOUS
  <2>2. o \in [user : Users \cup {None}, live : BOOLEAN, from : Tokens \cup {None}]
    BY <2>1 DEF TypeOK
  <2>3. token'[x] = IF x \in ts THEN n ELSE o
    BY <2>1 DEF Revoke
  <2>4. n.user = o.user /\ n.from = o.from /\ n.live = FALSE
    BY <2>1, <2>2
  <2> QED BY <2>1, <2>3, <2>4
<1> QED BY <1>1 DEF Lowered

\* Who exchanges a token went on doing so, or just revoked it.
LEMMA ExchangeSteps ==
  ASSUME TypeOK, RequestsOK, NEW r \in Requests, HandleStep(r)
  PROVE  /\ \A s \in Exchanging' : s # r => s \in Exchanging /\ request'[s] = request[s]
         /\ r \in Exchanging' /\ ~Exchanged(r) =>
              /\ r \in Exchanging /\ request'[r].arg = request[r].arg
              /\ request'[r].user = request[r].user
<1> DEFINE q == request[r]
           p == request'[r]
<1>1. /\ r \in Active /\ Others(r) /\ (Ended(r) \/ Went(r))
      /\ \A s \in Active' : s # r => s \in Active /\ request'[s] = request[s]
  BY RequestSteps DEF Ended, Went, Others, Active
<1>2. \A s \in Exchanging' : s # r => s \in Exchanging /\ request'[s] = request[s]
  BY <1>1 DEF Exchanging
<1>3. ASSUME r \in Exchanging', ~Exchanged(r)
      PROVE  r \in Exchanging /\ p.arg = q.arg /\ p.user = q.user
  <2>1. /\ Went(r) /\ p.kind = "refresh" /\ p.pc \in {"user", "issue"} /\ q.kind = "refresh" /\ p.arg = q.arg
        /\ p # Idle
    BY <1>1, <1>3 DEF Exchanging, Ended, Went, Active
  <2>2. ReadStep(r)
    <3>1. ~(\E u \in Users : Registered(r, u) \/ OAuthCreated(r, u))
      BY <2>1 DEF Registered, OAuthCreated, Creates
    <3>2. ~(\/ OAuthSeeded(r) \/ OAuthLinked(r) \/ LinkInserted(r) \/ Unlinked(r) \/ PasswordStored(r)
            \/ EmailWritten(r) \/ Scrubbed(r) \/ (\E ts : Revoked(r, ts))
            \/ (\E m \in Machines : MachineAdded(r, m)) \/ \E ms : Deactivated(r, ms))
      BY <2>1 DEF OAuthSeeded, OAuthLinked, LinkInserted, Unlinked, PasswordStored, EmailWritten, Scrubbed,
         Revoked, MachineAdded, Deactivated
    <3>3. ~ \E t \in Tokens : Issued(r, t)
      BY <2>1 DEF Issued, Ended
    <3> QED BY <1>3, <3>1, <3>2, <3>3 DEF HandleStep, WriteStep
  <2>3. q.pc = "user" /\ p.user = q.user
    BY <2>1, <2>2 DEF ReadStep, Leads, Ended
  <2> QED BY <1>1, <2>1, <2>3 DEF Exchanging
<1> QED BY <1>2, <1>3

LEMMA ExchangersTokens ==
  ASSUME TypeOK, RequestsOK, ExchangePending, NEW r \in Exchanging
  PROVE  /\ r \in Active /\ request[r].kind = "refresh" /\ request[r].arg \in Tokens
         /\ request[r].user \in Users /\ ~token[request[r].arg].live
         /\ token[request[r].arg].user = request[r].user
         /\ \A x \in Tokens : token[x].from # request[r].arg
         /\ \A s \in Exchanging : request[s].arg = request[r].arg => s = r
<1>1. r \in Active /\ request[r].kind = "refresh" /\ request[r].pc \in {"user", "issue"}
  BY DEF Exchanging
<1>2. request[r].arg \in Tokens /\ request[r].user \in Users
  BY <1>1, WhoIs DEF RequestsOK
<1> QED BY <1>1, <1>2 DEF ExchangePending

LEMMA TokenSteps ==
  ASSUME TypeOK, RequestsOK, ExchangePending, [Next]_vars
  PROVE  \/ /\ Lowered /\ \A s \in Exchanging' : /\ s \in Exchanging /\ request'[s].arg = request[s].arg
                                                 /\ request'[s].user = request[s].user
         \/ \E r \in Requests : HandleStep(r) /\ (Exchanged(r) \/ \E t \in Tokens : Issued(r, t))
<1> DEFINE Kept == Lowered /\ \A s \in Exchanging' : /\ s \in Exchanging /\ request'[s].arg = request[s].arg
                                                     /\ request'[s].user = request[s].user
<1>1. ASSUME NEW r \in Requests, Begun(r) PROVE Kept
  <2>1. /\ Active' = Active \cup {r} /\ Others(r) /\ token' = token /\ request'[r].pc = "start"
        /\ r \notin Active /\ r \in Requests
    BY <1>1 DEF Begun, tables
  <2>2. \A s \in Exchanging' : s # r /\ s \in Active /\ request'[s] = request[s]
    BY <2>1 DEF Exchanging, Active, Others
  <2> QED BY <2>1, <2>2 DEF Exchanging, Lowered
<1>2. ASSUME NEW r \in Requests, HandleStep(r), ~Exchanged(r), ~ \E t \in Tokens : Issued(r, t)
      PROVE  Kept
  <2>1. CASE token' = token
    BY <1>2, <2>1, ExchangeSteps DEF Lowered
  <2>2. CASE \E ts : Revoked(r, ts)
    <3>1. Lowered
      BY <2>2, RevokeLowers DEF Revoked
    <3> QED BY <1>2, <3>1, ExchangeSteps
  <2>3. CASE \/ (\E u \in Users : Registered(r, u) \/ OAuthCreated(r, u))
             \/ OAuthSeeded(r) \/ OAuthLinked(r) \/ LinkInserted(r) \/ Unlinked(r) \/ PasswordStored(r)
             \/ EmailWritten(r) \/ Scrubbed(r)
             \/ (\E m \in Machines : MachineAdded(r, m)) \/ \E ms : Deactivated(r, ms)
    <3>1. token' = token
      BY <2>3 DEF Registered, OAuthCreated, Creates, OAuthSeeded, OAuthLinked, LinkInserted, Unlinked,
         PasswordStored, EmailWritten, Scrubbed, MachineAdded, Deactivated
    <3> QED BY <2>1, <3>1
  <2>4. CASE ReadStep(r)
    BY <2>1, <2>4 DEF ReadStep, tables
  <2> QED BY <1>2, <2>2, <2>3, <2>4 DEF HandleStep, WriteStep
<1>3. CASE ServerStep
  <2>1. token' = token /\ (UNCHANGED request \/ Active' = {})
    BY <1>3, ServerSteps
  <2>2. UNCHANGED request => Exchanging' = Exchanging
    BY DEF Exchanging, Active
  <2>3. Active' = {} => Exchanging' = {}
    BY DEF Exchanging
  <2> QED BY <2>1, <2>2, <2>3 DEF Lowered
<1> QED BY <1>1, <1>2, <1>3, Steps

\* What Issued and Exchanged do to the tokens.
LEMMA IssueStep ==
  ASSUME TypeOK, RequestsOK, ExchangePending, NEW r \in Requests, NEW t \in Tokens, Issued(r, t)
  PROVE  /\ r \in Active /\ r \notin Exchanging' /\ request[r].user \in Users
         /\ \A x \in Tokens : x # t => token'[x] = token[x]
         /\ token[t].user = None /\ token[t].from = None
         /\ token'[t].user = request[r].user
         /\ IF request[r].kind = "refresh" THEN r \in Exchanging /\ token'[t].from = request[r].arg
            ELSE token'[t].from = None
<1>1. /\ r \in Active /\ request[r].pc = "issue" /\ Ended(r) /\ token[t] = NoToken
      /\ token' = [token EXCEPT ![t] = [user |-> request[r].user, live |-> TRUE,
                     from |-> IF request[r].kind = "refresh" THEN request[r].arg ELSE None]]
  BY DEF Issued
<1>2. r \notin Exchanging'
  BY <1>1 DEF Ended, Exchanging
<1>3. request[r].user \in Users
  BY <1>1 DEF RequestsOK
<1>4. DOMAIN token = Tokens
  BY DEF TypeOK
<1>5. request[r].kind = "refresh" => r \in Exchanging
  BY <1>1 DEF Exchanging
<1>6. token[t].user = None /\ token[t].from = None
  BY <1>1 DEF NoToken
<1> QED BY <1>1, <1>2, <1>3, <1>4, <1>5, <1>6

LEMMA ExchangeStep ==
  ASSUME TypeOK, RequestsOK, NEW r \in Requests, Exchanged(r)
  PROVE  /\ r \in Active /\ request[r].arg \in Tokens /\ token[request[r].arg].live
         /\ ~token'[request[r].arg].live /\ Lowered
         /\ request'[r].arg = request[r].arg /\ request'[r].user = token[request[r].arg].user
<1>1. /\ r \in Active /\ request[r].kind = "refresh" /\ token[request[r].arg].live
      /\ Revoke({request[r].arg}) /\ Went(r) /\ request'[r].user = token[request[r].arg].user
  BY DEF Exchanged
<1>2. request[r].arg \in Tokens
  BY <1>1, WhoIs
<1>3. Lowered /\ ~token'[request[r].arg].live
  BY <1>1, <1>2, RevokeLowers
<1> QED BY <1>1, <1>2, <1>3 DEF Went

\* ... and to the requests that exchange tokens.
LEMMA IssueExchanges ==
  ASSUME TypeOK, RequestsOK, ExchangePending, NEW r \in Requests, HandleStep(r), NEW t \in Tokens, Issued(r, t)
  PROVE  /\ \A s \in Exchanging' : s # r /\ s \in Exchanging /\ request'[s] = request[s]
         /\ \A s \in Exchanging : request[s].arg # t
<1>1. r \notin Exchanging'
  BY IssueStep
<1>2. \A s \in Exchanging' : s # r /\ s \in Exchanging /\ request'[s] = request[s]
  BY <1>1, ExchangeSteps
<1>3. ASSUME NEW s \in Exchanging PROVE request[s].arg # t
  <2>1. token[request[s].arg].user \in Users
    BY ExchangersTokens
  <2>2. token[t].user = None
    BY IssueStep
  <2> QED BY <2>1, <2>2, NoneAssumption
<1> QED BY <1>2, <1>3

LEMMA ExchangeInductive ==
  ASSUME TypeOK, RequestsOK, ExchangePending, OneSuccessor, [Next]_vars
  PROVE  ExchangePending'
<1> DEFINE Good(t, u, r) == /\ ~token'[t].live /\ token'[t].user = u /\ \A x \in Tokens : token'[x].from # t
                            /\ \A s \in Exchanging' : request'[s].arg = t => s = r
           Goal == \A r \in Exchanging' : Good(request'[r].arg, request'[r].user, r)
<1>1. ASSUME Goal PROVE ExchangePending'
  BY <1>1, TokensInductive DEF ExchangePending
<1>2. ASSUME Lowered, \A s \in Exchanging' : /\ s \in Exchanging /\ request'[s].arg = request[s].arg
                                             /\ request'[s].user = request[s].user
      PROVE  Goal
  BY <1>2, ExchangersTokens DEF Lowered
<1>3. ASSUME NEW r \in Requests, HandleStep(r), Exchanged(r) PROVE Goal
  <2>1. PICK a : a = request[r].arg
    OBVIOUS
  <2>2. /\ a \in Tokens /\ token[a].live /\ ~token'[a].live /\ Lowered
        /\ request'[r].arg = a /\ request'[r].user = token[a].user
    BY <1>3, <2>1, ExchangeStep
  <2>3. \A x \in Tokens : token'[x].from # a
    BY <2>2, NoneAssumption DEF Lowered, OneSuccessor
  <2>4. \A s \in Exchanging' : s # r => s \in Exchanging /\ request'[s] = request[s]
    BY <1>3, ExchangeSteps
  <2>5. \A s \in Exchanging' : s # r => request'[s].arg # a
    BY <2>2, <2>4, ExchangersTokens
  <2>6. Good(a, token[a].user, r)
    BY <2>2, <2>3, <2>5 DEF Lowered
  <2>7. ASSUME NEW s \in Exchanging', s # r PROVE Good(request[s].arg, request[s].user, s)
    BY <2>2, <2>4, <2>5, <2>7, ExchangersTokens DEF Lowered
  <2> QED BY <2>2, <2>4, <2>6, <2>7
<1>4. ASSUME NEW r \in Requests, HandleStep(r), NEW t \in Tokens, Issued(r, t) PROVE Goal
  <2>1. /\ \A s \in Exchanging' : s # r /\ s \in Exchanging /\ request'[s] = request[s]
        /\ \A s \in Exchanging : request[s].arg # t
    BY <1>4, IssueExchanges
  <2>2. ASSUME NEW s \in Exchanging' PROVE Good(request[s].arg, request[s].user, s)
    <3>1. PICK a : a = request[s].arg
      OBVIOUS
    <3>2. /\ s # r /\ a # t /\ a \in Tokens /\ ~token[a].live /\ token[a].user = request[s].user
          /\ \A x \in Tokens : token[x].from # a
          /\ \A q \in Exchanging : request[q].arg = a => q = s
      BY <2>1, <2>2, <3>1, ExchangersTokens
    <3>3. \A x \in Tokens : x # t => token'[x] = token[x]
      BY <1>4, IssueStep
    <3>4. token'[t].from # a
      <4>1. CASE request[r].kind = "refresh"
        BY <1>4, <3>2, <4>1, IssueStep
      <4>2. CASE request[r].kind # "refresh"
        BY <1>4, <3>2, <4>2, IssueStep, NoneAssumption
      <4> QED BY <4>1, <4>2
    <3> QED BY <2>1, <3>1, <3>2, <3>3, <3>4
  <2> QED BY <2>1, <2>2
<1> QED BY <1>1, <1>2, <1>3, <1>4, TokenSteps

LEMMA OneSuccessorInductive ==
  ASSUME TypeOK, RequestsOK, ExchangePending, OneSuccessor, [Next]_vars
  PROVE  OneSuccessor'
<1>0. \A x \in Tokens : token[x].from \in Tokens \cup {None}
  BY DEF TypeOK
<1>1. ASSUME Lowered PROVE OneSuccessor'
  BY <1>0, <1>1 DEF Lowered, OneSuccessor
<1>2. ASSUME NEW r \in Requests, HandleStep(r), NEW t \in Tokens, Issued(r, t) PROVE OneSuccessor'
  <2>1. /\ \A x \in Tokens : x # t => token'[x] = token[x]
        /\ token[t].user = None /\ token[t].from = None /\ token'[t].user = request[r].user
    BY <1>2, IssueStep
  <2>2. \A x \in Tokens : token[x].from # t
    <3>1. ASSUME NEW x \in Tokens, token[x].from = t PROVE FALSE
      <4>1. token[x].user = None
        BY <2>1, <3>1, NoneAssumption DEF OneSuccessor
      <4>2. token[x] = NoToken
        BY <4>1, NoneAssumption DEF ExchangePending
      <4>3. token[x].from = None
        BY <4>2 DEF NoToken
      <4> QED BY <3>1, <4>3, NoneAssumption
    <3> QED BY <3>1
  <2>3. CASE request[r].kind = "refresh"
    <3>1. PICK a : a = request[r].arg
      OBVIOUS
    <3>2. r \in Exchanging /\ token'[t].from = a
      BY <1>2, <2>3, <3>1, IssueStep
    <3>3. /\ a \in Tokens /\ ~token[a].live /\ token[a].user = request[r].user
          /\ \A x \in Tokens : token[x].from # a
      BY <3>1, <3>2, ExchangersTokens
    <3>4. a # t
      BY <1>2, <3>1, <3>2, IssueExchanges
    <3> QED BY <1>0, <2>1, <2>2, <3>2, <3>3, <3>4 DEF OneSuccessor
  <2>4. CASE request[r].kind # "refresh"
    <3>1. token'[t].from = None
      BY <1>2, <2>4, IssueStep
    <3> QED BY <1>0, <2>1, <2>2, <3>1 DEF OneSuccessor
  <2> QED BY <2>3, <2>4
<1>3. ASSUME NEW r \in Requests, Exchanged(r) PROVE OneSuccessor'
  BY <1>1, <1>3, ExchangeStep
<1> QED BY <1>1, <1>2, <1>3, TokenSteps

-----------------------------------------------------------------------------
(* Signing in.                                                             *)

\* How the account is signed in to, now or by the end of the request that made it.
WayIn(u, r) ==
  \/ u \in password \/ Linked(u) # {}
  \/ r \in Active /\ request[r].kind = "oauth" /\ request[r].pc \in {"seed", "link"} /\ request[r].user = u

LEMMA LinkGrows ==
  ASSUME TypeOK, NEW i \in Identities, NEW w \in Users, link' = [link EXCEPT ![i] = IF @ = None THEN w ELSE @]
  PROVE  /\ \A u \in Users : Linked(u) # {} => Linked(u)' # {}
         /\ link[i] = None => Linked(w)' # {}
<1>1. DOMAIN link = Identities
  BY DEF TypeOK
<1>2. \A j \in Identities : link[j] # None => link'[j] = link[j]
  BY <1>1
<1>3. \A u \in Users : Linked(u) # {} => Linked(u)' # {}
  BY <1>2, NoneAssumption DEF Linked
<1>4. link[i] = None => link'[i] = w
  BY <1>1
<1> QED BY <1>3, <1>4 DEF Linked

LEMMA WaysStay ==
  ASSUME TypeOK, RequestsOK, SignInPending, setting.together = 1, NEW r \in Requests, HandleStep(r),
         NEW u \in Users, Enabled(u)', Enabled(u) => WayIn(u, r)
  PROVE  WayIn(u, r)'
<1> DEFINE q == request[r]
           p == request'[r]
<1>0. r \in Active /\ (Ended(r) \/ Went(r))
  BY RequestSteps
<1>1. CASE ReadStep(r)
  <2>1. /\ UNCHANGED <<state, password, link>> /\ ~(q.kind = "oauth" /\ q.pc \in {"seed", "link"})
    BY <1>1 DEF ReadStep, tables
  <2> QED BY <2>1 DEF WayIn, Linked, Enabled
<1>2. ASSUME NEW v \in Users, Registered(r, v) PROVE WayIn(u, r)'
  <2>1. /\ q.kind = "register" /\ password' = password \cup {v} /\ link' = link
        /\ state' = [state EXCEPT ![v] = "live"]
    BY <1>2 DEF Registered, Creates
  <2>2. u # v => state'[u] = state[u]
    BY <2>1 DEF TypeOK
  <2> QED BY <2>1, <2>2 DEF WayIn, Linked, Enabled
<1>3. ASSUME NEW v \in Users, OAuthCreated(r, v) PROVE WayIn(u, r)'
  <2>1. /\ q.pc = "create" /\ q.kind = "oauth" /\ password' = password /\ link' = link
        /\ state' = [state EXCEPT ![v] = "live"]
        /\ Went(r) /\ p.pc = "seed" /\ p.user = v
    BY <1>3 DEF OAuthCreated, Creates
  <2>2. u # v => state'[u] = state[u]
    BY <2>1 DEF TypeOK
  <2>3. r \in Active' /\ p.kind = "oauth"
    BY <2>1 DEF Went
  <2> QED BY <2>1, <2>2, <2>3 DEF WayIn, Linked, Enabled
<1>4. CASE OAuthSeeded(r)
  <2>1. /\ q.pc = "seed" /\ q.kind = "oauth" /\ UNCHANGED <<state, password, link>>
        /\ Went(r) /\ p.pc = "link" /\ p.user = q.user
    BY <1>4 DEF OAuthSeeded
  <2>2. r \in Active' /\ p.kind = "oauth"
    BY <2>1 DEF Went
  <2> QED BY <2>1, <2>2 DEF WayIn, Linked, Enabled
<1>5. CASE OAuthLinked(r)
  <2>1. PICK i, w : i = q.who /\ w = q.user
    OBVIOUS
  <2>2. /\ q.pc = "link" /\ q.kind = "oauth" /\ UNCHANGED <<state, password>>
        /\ link' = [link EXCEPT ![i] = IF @ = None THEN w ELSE @]
    BY <1>5, <2>1 DEF OAuthLinked
  <2>3. i \in Identities /\ w \in Users /\ link[i] = None
    BY <1>0, <2>1, <2>2, WhoIs DEF RequestsOK, SignInPending
  <2>4. /\ \A v \in Users : Linked(v) # {} => Linked(v)' # {}
        /\ Linked(w)' # {}
    BY <2>2, <2>3, LinkGrows
  <2> QED BY <2>1, <2>2, <2>4 DEF WayIn, Enabled
<1>6. CASE LinkInserted(r)
  <2>1. PICK i, w : i = q.arg /\ w = q.who
    OBVIOUS
  <2>2. /\ q.kind = "link" /\ UNCHANGED <<state, password>>
        /\ link' = [link EXCEPT ![i] = IF @ = None THEN w ELSE @]
    BY <1>6, <2>1 DEF LinkInserted
  <2>3. i \in Identities /\ w \in Users
    BY <1>0, <2>1, <2>2, WhoIs
  <2>4. \A v \in Users : Linked(v) # {} => Linked(v)' # {}
    BY <2>2, <2>3, LinkGrows
  <2> QED BY <2>2, <2>4 DEF WayIn, Enabled
<1>7. CASE Unlinked(r)
  <2>1. PICK w, a : w = q.who /\ a = q.arg
    OBVIOUS
  <2>2. /\ q.kind = "unlink" /\ q.pc = "delete" /\ UNCHANGED <<state, password>>
        /\ link' = [i \in Identities |-> IF link[i] = w /\ Provider[i] = a THEN None ELSE link[i]]
    BY <1>7, <2>1 DEF Unlinked
  <2>3. w \in password \/ \E i \in Linked(w) : Provider[i] # a
    BY <1>0, <2>1, <2>2 DEF SignInPending
  <2>4. \A i \in Identities : link'[i] = link[i] \/ (link[i] = w /\ Provider[i] = a)
    BY <2>2
  <2>5. u # w /\ Linked(u) # {} => Linked(u)' # {}
    BY <2>4 DEF Linked
  <2>6. w \in password \/ Linked(w)' # {}
    BY <2>3, <2>4 DEF Linked
  <2> QED BY <2>2, <2>5, <2>6 DEF WayIn, Enabled
<1>8. CASE PasswordStored(r)
  <2>1. q.kind = "password" /\ password \subseteq password' /\ UNCHANGED <<state, link>>
    BY <1>8 DEF PasswordStored
  <2> QED BY <2>1 DEF WayIn, Linked, Enabled
<1>9. CASE Scrubbed(r)
  <2>1. PICK w : w = q.who
    OBVIOUS
  <2>2. /\ q.kind # "oauth" /\ password' = password \ {w} /\ link' = link
        /\ state' = [state EXCEPT ![w] = "deleted"]
    BY <1>9, <2>1 DEF Scrubbed
  <2>3. u # w /\ state'[u] = state[u]
    BY <2>2 DEF TypeOK, Enabled
  <2> QED BY <2>2, <2>3 DEF WayIn, Linked, Enabled
<1>10. CASE \/ EmailWritten(r) \/ (\E t \in Tokens : Issued(r, t)) \/ Exchanged(r) \/ (\E ts : Revoked(r, ts))
            \/ (\E m \in Machines : MachineAdded(r, m)) \/ \E ms : Deactivated(r, ms)
  <2>1. UNCHANGED <<state, password, link>> /\ ~(q.kind = "oauth" /\ q.pc \in {"seed", "link"})
    BY <1>10 DEF EmailWritten, Issued, Exchanged, Revoked, MachineAdded, Deactivated
  <2> QED BY <2>1 DEF WayIn, Linked, Enabled
<1> QED BY <1>1, <1>2, <1>3, <1>4, <1>5, <1>6, <1>7, <1>8, <1>9, <1>10 DEF HandleStep, WriteStep

\* A request that took the identity for free, or counted what remains, is right.
Right(r) ==
  /\ request[r].kind = "oauth" /\ request[r].pc \in {"byEmail", "create", "seed", "link"} =>
       link[request[r].who] = None
  /\ request[r].kind = "unlink" /\ request[r].pc = "delete" =>
       request[r].who \in password \/ \E i \in Linked(request[r].who) : Provider[i] # request[r].arg

LEMMA SignInSteps ==
  ASSUME TypeOK, RequestsOK, SignInPending, setting.together = 1, NEW r \in Requests, HandleStep(r), Went(r)
  PROVE  Right(r)'
<1>0. PICK q, p : q = request[r] /\ p = request'[r]
  OBVIOUS
<1>1. r \in Active /\ p.kind = q.kind /\ p.who = q.who /\ p.arg = q.arg /\ ~Ended(r)
  <2>1. r \in Active /\ p.kind = q.kind /\ p.who = q.who /\ p.arg = q.arg
    BY <1>0 DEF Went
  <2>2. p # Idle
    BY <1>0, NotIdle DEF Went
  <2> QED BY <1>0, <2>1, <2>2 DEF Ended
<1>2. q.kind = "oauth" /\ q.pc \in {"byEmail", "create", "seed", "link"} => link[q.who] = None
  BY <1>0, <1>1 DEF SignInPending
<1>9. ASSUME p.kind = "oauth" /\ p.pc \in {"byEmail", "create", "seed", "link"} => link'[p.who] = None,
             p.kind = "unlink" /\ p.pc = "delete" =>
               p.who \in password' \/ \E i \in Identities : link'[i] = p.who /\ Provider[i] # p.arg
      PROVE  Right(r)'
  BY <1>0, <1>9 DEF Right, Linked
<1>3. CASE ReadStep(r)
  <2>1. Leads(r) /\ UNCHANGED <<password, link>>
    BY <1>1, <1>3 DEF ReadStep, tables
  <2>2. p.kind = "oauth" /\ p.pc \in {"byEmail", "create", "seed", "link"} => link'[p.who] = None
    BY <1>0, <1>1, <1>2, <2>1 DEF Leads
  <2>3. p.kind = "unlink" /\ p.pc = "delete" =>
          p.who \in password' \/ \E i \in Identities : link'[i] = p.who /\ Provider[i] # p.arg
    BY <1>0, <1>1, <2>1 DEF Leads, Linked
  <2> QED BY <1>9, <2>2, <2>3
<1>4. CASE WriteStep(r)
  <2>1. \/ q.kind # "oauth" /\ p.pc # "delete"
        \/ q.kind = "oauth" /\ q.pc \in {"create", "seed"} /\ link' = link
        \/ p.pc = "issue"
    BY <1>0, <1>1, <1>4 DEF WriteStep, Registered, OAuthCreated, Creates, OAuthSeeded, OAuthLinked, LinkInserted,
       Unlinked, PasswordStored, EmailWritten, Scrubbed, Issued, Exchanged, Revoked, MachineAdded, Deactivated
  <2> QED BY <1>1, <1>2, <1>9, <2>1
<1> QED BY <1>3, <1>4 DEF HandleStep

LEMMA SignInInductive ==
  ASSUME TypeOK, RequestsOK, ExchangePending, SignInPending, [Next]_vars
  PROVE  SignInPending'
<1> DEFINE Way(u) == u \in password \/ Linked(u) # {} \/ \E s \in Requests : WayIn(u, s)
           Goal == /\ \A q, s \in Active' : q = s
                   /\ \A s \in Active' : Right(s)'
                   /\ ~crashed' => \A u \in Users : Enabled(u)' => Way(u)'
<1>0. setting' = setting
  BY Steps, RequestSteps, ServerSteps DEF Begun, Frame
<1>1. ASSUME setting.together = 1 => Goal PROVE SignInPending'
  BY <1>0, <1>1 DEF SignInPending, WayIn, Right
<1>2. SUFFICES ASSUME setting.together = 1 PROVE Goal
  BY <1>1
<1>3. /\ \A q, s \in Active : q = s
      /\ \A s \in Active : Right(s)
      /\ ~crashed => \A u \in Users : Enabled(u) => \A s \in Requests : Active \subseteq {s} => WayIn(u, s)
  BY <1>2 DEF SignInPending, WayIn, Right
<1>4. ASSUME NEW r \in Requests, Begun(r) PROVE Goal
  <2>1. Active = {}
    <3>1. IsFiniteSet(Active)
      BY RequestsAssumption, FS_Subset DEF Active
    <3>2. Cardinality(Active) \in Nat /\ Cardinality(Active) < 1
      BY <1>2, <1>4, <3>1, FS_CardinalityType DEF Begun
    <3>3. Cardinality(Active) = 0
      BY <3>2
    <3> QED BY <3>1, <3>3, FS_EmptySet
  <2>2. /\ Active' = {r} /\ request'[r].pc = "start"
        /\ UNCHANGED <<state, password, link, crashed>>
    BY <1>4, <2>1 DEF Begun, tables
  <2>3. \A s \in Active' : Right(s)'
    BY <2>2 DEF Right
  <2>4. \A u \in Users : Enabled(u)' /\ ~crashed' => WayIn(u, r)'
    <3>1. SUFFICES ASSUME NEW u \in Users, Enabled(u)', ~crashed' PROVE WayIn(u, r)'
      OBVIOUS
    <3>2. WayIn(u, r)
      BY <1>3, <2>1, <2>2, <3>1 DEF Enabled
    <3>3. u \in password \/ Linked(u) # {}
      BY <2>1, <3>2 DEF WayIn
    <3> QED BY <2>2, <3>3 DEF WayIn, Linked
  <2> QED BY <2>2, <2>3, <2>4
<1>5. ASSUME NEW r \in Requests, HandleStep(r) PROVE Goal
  <2>1. Active = {r} /\ (Ended(r) \/ Went(r)) /\ crashed' = crashed
    BY <1>3, <1>5, RequestSteps DEF Frame
  <2>2. Active' \subseteq {r} /\ (r \in Active' => Went(r))
    BY <2>1 DEF Ended, Went
  <2>3. Went(r) => Right(r)'
    BY <1>2, <1>5, SignInSteps
  <2>4. \A u \in Users : Enabled(u)' /\ ~crashed' => WayIn(u, r)'
    BY <1>2, <1>3, <1>5, <2>1, WaysStay
  <2> QED BY <2>2, <2>3, <2>4
<1>6. CASE ServerStep
  <2>1. /\ UNCHANGED <<state, password, link>>
        /\ UNCHANGED request \/ (Active' = {} /\ crashed')
    BY <1>6, ServerSteps
  <2>2. CASE Active' = {} /\ crashed'
    BY <2>2
  <2>3. CASE UNCHANGED request
    <3>1. Active' = Active /\ (crashed => crashed')
      <4>1. crashed => crashed'
        BY <1>6 DEF ServerStep, ChangePlan, IssueKey, Restart, vars
      <4> QED BY <2>3, <4>1 DEF Active
    <3>2. \A s \in Active' : Right(s)'
      BY <1>3, <2>1, <2>3, <3>1 DEF Right, Linked
    <3>3. ASSUME NEW u \in Users, Enabled(u)', ~crashed' PROVE Way(u)'
      <4>1. Enabled(u) /\ ~crashed
        BY <2>1, <3>1, <3>3 DEF Enabled
      <4>2. Way(u)
        BY <1>2, <4>1 DEF SignInPending, WayIn, Active
      <4> QED BY <2>1, <2>3, <3>1, <4>2 DEF WayIn, Linked
    <3> QED BY <1>3, <3>1, <3>2, <3>3
  <2> QED BY <2>1, <2>2, <2>3
<1> QED BY <1>4, <1>5, <1>6, Steps

-----------------------------------------------------------------------------
(* Devices.                                                                *)

LEMMA Counting ==
  /\ \A S \in SUBSET Machines : IsFiniteSet(S) /\ Cardinality(S) \in Nat
  /\ \A S, T \in SUBSET Machines : S \subseteq T => Cardinality(S) <= Cardinality(T)
  /\ \A S \in SUBSET Machines, m \in Machines : Cardinality(S \cup {m}) <= Cardinality(S) + 1
<1>1. IsFiniteSet(Machines)
  BY BoundsAssumption, FS_Interval DEF Machines
<1>2. \A S \in SUBSET Machines : IsFiniteSet(S) /\ Cardinality(S) \in Nat
  BY <1>1, FS_Subset, FS_CardinalityType
<1>3. \A S, T \in SUBSET Machines : S \subseteq T => Cardinality(S) <= Cardinality(T)
  BY <1>2, FS_Subset
<1>4. ASSUME NEW S \in SUBSET Machines, NEW m \in Machines PROVE Cardinality(S \cup {m}) <= Cardinality(S) + 1
  <2>1. CASE m \in S
    <3>1. S \cup {m} = S
      BY <2>1
    <3> QED BY <1>2, <3>1
  <2>2. CASE m \notin S
    <3>1. Cardinality(S \cup {m}) = Cardinality(S) + 1
      BY <1>2, <2>2, FS_AddElement
    <3> QED BY <1>2, <3>1
  <2> QED BY <2>1, <2>2
<1> QED BY <1>2, <1>3, <1>4

\* The greatest plan covers the plan, and never sinks.
LEMMA PeakSteps ==
  ASSUME TypeOK, RequestsOK, ExchangePending, LimitRead, [Next]_vars
  PROVE  \A u \in Users : /\ plan'[u] = "expert" => peak'[u] = "expert"
                          /\ peak[u] = "expert" => peak'[u] = "expert"
<1>0. /\ plan \in [Users -> {"free", "premium", "expert"}]
      /\ peak \in [Users -> {"free", "premium", "expert"}]
      /\ \A u \in Users : plan[u] = "expert" => peak[u] = "expert"
  BY DEF TypeOK, LimitRead
<1>1. ASSUME NEW v \in Users, NEW p \in {"free", "premium", "expert"}, ChangePlan(v, p), NEW u \in Users
      PROVE  /\ plan'[u] = "expert" => peak'[u] = "expert"
             /\ peak[u] = "expert" => peak'[u] = "expert"
  <2>1. /\ plan' = [plan EXCEPT ![v] = p]
        /\ peak' = [peak EXCEPT ![v] = IF Rank(p) > Rank(@) THEN p ELSE @]
    BY <1>1 DEF ChangePlan
  <2>2. CASE u # v
    BY <1>0, <2>1, <2>2
  <2>3. CASE u = v
    <3>1. plan'[u] = p /\ peak'[u] = IF Rank(p) > Rank(peak[u]) THEN p ELSE peak[u]
      BY <1>0, <2>1, <2>3
    <3>2. peak[u] \in {"free", "premium", "expert"}
      BY <1>0
    <3>3. Rank("free") = 0 /\ Rank("premium") = 1 /\ Rank("expert") = 2
      BY DEF Rank
    <3> QED BY <3>1, <3>2, <3>3
  <2> QED BY <2>2, <2>3
<1>2. CASE UNCHANGED <<plan, peak>>
  BY <1>0, <1>2
<1>3. ASSUME NEW r \in Requests, Begun(r) \/ HandleStep(r) PROVE UNCHANGED <<plan, peak>>
  BY <1>3, RequestSteps DEF Begun, Frame
<1>4. CASE UNCHANGED vars \/ Restart \/ \E u \in Users : IssueKey(u)
  BY <1>2, <1>4 DEF vars, Restart, IssueKey
<1> QED BY <1>1, <1>2, <1>3, <1>4, Steps DEF ServerStep

\* What a step does to a registration: it reads its limit, or counts.
LEMMA RegisteringSteps ==
  ASSUME TypeOK, RequestsOK, NEW r \in Requests, HandleStep(r), r \in Registering'
  PROVE  /\ r \in Registering /\ request'[r].who = request[r].who /\ machine' = machine /\ plan' = plan
         /\ request'[r].pc = "count" =>
              request'[r].found = 1 \/ (request'[r].found = 3 /\ plan[request[r].who] = "expert")
         /\ request'[r].pc = "insert" =>
              /\ request[r].pc = "count" /\ request'[r].found = request[r].found
              /\ ~(Cardinality(ActiveMachines(request[r].who)) >= request[r].found)
<1>1. /\ r \in Active /\ Went(r) /\ request'[r].kind \in {"device", "validate"} /\ ~Ended(r)
      /\ request'[r].kind = request[r].kind /\ request'[r].who = request[r].who
  <2>1. request'[r].kind \in {"device", "validate"} /\ request'[r] # Idle
    BY DEF Registering, Active
  <2>2. r \in Active /\ Went(r) /\ ~Ended(r)
    BY <2>1, RequestSteps DEF Ended
  <2> QED BY <2>1, <2>2 DEF Went
<1>2. ReadStep(r)
  <2>1. ~(\E u \in Users : Registered(r, u) \/ OAuthCreated(r, u))
    BY <1>1 DEF Registered, OAuthCreated, Creates
  <2>2. ~(\/ OAuthSeeded(r) \/ OAuthLinked(r) \/ LinkInserted(r) \/ Unlinked(r) \/ PasswordStored(r)
          \/ EmailWritten(r) \/ Scrubbed(r) \/ Exchanged(r) \/ (\E ts : Revoked(r, ts))
          \/ (\E m \in Machines : MachineAdded(r, m)) \/ (\E t \in Tokens : Issued(r, t))
          \/ \E ms : Deactivated(r, ms))
    BY <1>1 DEF OAuthSeeded, OAuthLinked, LinkInserted, Unlinked, PasswordStored, EmailWritten, Scrubbed,
       Exchanged, Revoked, MachineAdded, Issued, Deactivated
  <2> QED BY <2>1, <2>2 DEF HandleStep, WriteStep
<1>3. Leads(r) /\ machine' = machine /\ plan' = plan
  BY <1>1, <1>2 DEF ReadStep, tables
<1> QED BY <1>1, <1>3 DEF Leads, Registering

\* Who is registering after a step was before, or is the one who begins.
LEMMA RegisteringBefore ==
  ASSUME TypeOK, RequestsOK, ExchangePending, [Next]_vars, NEW s \in Registering'
  PROVE  \/ s \in Registering /\ request'[s] = request[s]
         \/ s \in Registering /\ HandleStep(s)
         \/ Begun(s)
<1>1. ASSUME NEW r \in Requests, Begun(r), s # r PROVE s \in Registering /\ request'[s] = request[s]
  BY <1>1 DEF Begun, Registering, Others, Active
<1>2. ASSUME NEW r \in Requests, HandleStep(r), s # r PROVE s \in Registering /\ request'[s] = request[s]
  <2>1. Active' \subseteq Active /\ Others(r)
    BY <1>2, RequestSteps DEF Ended, Went
  <2> QED BY <1>2, <2>1 DEF Registering, Others, Active
<1>3. CASE ServerStep
  <2>1. UNCHANGED request \/ Active' = {}
    BY <1>3, ServerSteps
  <2> QED BY <2>1 DEF Registering, Active
<1>4. ASSUME HandleStep(s), s \in Requests PROVE s \in Registering
  BY <1>4, RegisteringSteps
<1> QED BY <1>1, <1>2, <1>3, <1>4, Steps

LEMMA LimitReadInductive ==
  ASSUME TypeOK, RequestsOK, ExchangePending, LimitRead, [Next]_vars
  PROVE  LimitRead'
<1>1. \A u \in Users : /\ plan'[u] = "expert" => peak'[u] = "expert"
                       /\ peak[u] = "expert" => peak'[u] = "expert"
  BY PeakSteps
<1>2. ASSUME NEW s \in Registering', request'[s].pc \in {"count", "insert"}
      PROVE  request'[s].found = 1 \/ (request'[s].found = 3 /\ peak'[request'[s].who] = "expert")
  <2>1. CASE Begun(s)
    BY <1>2, <2>1 DEF Begun
  <2>2. ASSUME s \in Registering PROVE s \in Active /\ request[s].who \in Users
    BY <2>2, WhoIs DEF Registering
  <2>3. CASE s \in Registering /\ request'[s] = request[s]
    BY <1>1, <1>2, <2>2, <2>3 DEF LimitRead
  <2>4. CASE s \in Registering /\ HandleStep(s)
    <3>1. s \in Requests
      BY <2>4 DEF Registering, Active
    <3>2. PICK w, p, q : w = request[s].who /\ p = request'[s] /\ q = request[s]
      OBVIOUS
    <3>3. /\ p.who = w /\ w \in Users /\ plan' = plan
          /\ p.pc = "count" => p.found = 1 \/ (p.found = 3 /\ plan[w] = "expert")
          /\ p.pc = "insert" => q.pc = "count" /\ p.found = q.found
      BY <2>2, <2>4, <3>1, <3>2, RegisteringSteps
    <3>4. q.pc = "count" => q.found = 1 \/ (q.found = 3 /\ peak[w] = "expert")
      BY <2>4, <3>2 DEF LimitRead
    <3> QED BY <1>1, <1>2, <3>2, <3>3, <3>4
  <2> QED BY <2>1, <2>3, <2>4, RegisteringBefore
<1> QED BY <1>1, <1>2 DEF LimitRead

\* No step but the insert of a registration adds an active device.
LEMMA MachineSteps ==
  ASSUME TypeOK, RequestsOK, ExchangePending, [Next]_vars
  PROVE  \/ \A u \in Users : ActiveMachines(u)' \subseteq ActiveMachines(u)
         \/ \E r \in Requests : HandleStep(r) /\ \E m \in Machines : MachineAdded(r, m)
<1>1. CASE machine' = machine
  BY <1>1 DEF ActiveMachines
<1>2. ASSUME NEW ms, Deactivate(ms) PROVE \A u \in Users : ActiveMachines(u)' \subseteq ActiveMachines(u)
  <2>1. ASSUME NEW m \in Machines
        PROVE  machine'[m].user = machine[m].user /\ (machine'[m].active => machine[m].active)
    <3>1. PICK o, n : o = machine[m] /\ n = [o EXCEPT !.active = FALSE]
      OBVIOUS
    <3>2. o \in [user : Users \cup {None}, device : Devices \cup {None}, active : BOOLEAN]
      BY <3>1 DEF TypeOK
    <3>3. machine'[m] = IF m \in ms THEN n ELSE o
      BY <1>2, <3>1 DEF Deactivate
    <3>4. n.user = o.user /\ n.active = FALSE
      BY <3>1, <3>2
    <3> QED BY <3>1, <3>3, <3>4
  <2> QED BY <2>1 DEF ActiveMachines
<1>3. ASSUME NEW r \in Requests, Begun(r) PROVE machine' = machine
  BY <1>3 DEF Begun, tables
<1>4. ASSUME NEW r \in Requests, HandleStep(r)
      PROVE  \/ machine' = machine \/ (\E ms : Deactivate(ms))
             \/ \E m \in Machines : MachineAdded(r, m)
  <2>1. CASE ReadStep(r)
    BY <2>1 DEF ReadStep, tables
  <2>2. CASE WriteStep(r)
    BY <2>2 DEF WriteStep, Registered, OAuthCreated, Creates, OAuthSeeded, OAuthLinked, LinkInserted, Unlinked,
       PasswordStored, EmailWritten, Scrubbed, Issued, Exchanged, Revoked, Deactivated
  <2> QED BY <1>4, <2>1, <2>2 DEF HandleStep
<1>5. CASE ServerStep
  BY <1>1, <1>5, ServerSteps
<1> QED BY <1>1, <1>2, <1>3, <1>4, <1>5, Steps

\* The insert gives the account one device more, and ends the registration.
LEMMA AddStep ==
  ASSUME TypeOK, RequestsOK, NEW r \in Requests, NEW m \in Machines, MachineAdded(r, m)
  PROVE  /\ r \in Registering /\ request[r].pc = "insert" /\ r \notin Registering'
         /\ \A u \in Users : IF u = request[r].who THEN ActiveMachines(u)' \subseteq ActiveMachines(u) \cup {m}
                             ELSE ActiveMachines(u)' \subseteq ActiveMachines(u)
<1>1. PICK w, n : w = request[r].who /\ n = [user |-> w, device |-> request[r].arg, active |-> TRUE]
  OBVIOUS
<1>2. /\ r \in Active /\ request[r].kind \in {"device", "validate"} /\ request[r].pc = "insert" /\ Ended(r)
      /\ machine' = [machine EXCEPT ![m] = n]
  BY <1>1 DEF MachineAdded
<1>3. r \in Registering /\ r \notin Registering'
  BY <1>2 DEF Registering, Ended
<1>4. n.user = w /\ \A x \in Machines : x # m => machine'[x] = machine[x]
  BY <1>1, <1>2
<1>5. machine'[m] = n
  BY <1>2 DEF TypeOK
<1>6. \A u \in Users : u # w => ActiveMachines(u)' \subseteq ActiveMachines(u)
  BY <1>4, <1>5 DEF ActiveMachines
<1>7. ActiveMachines(w)' \subseteq ActiveMachines(w) \cup {m}
  BY <1>4 DEF ActiveMachines
<1> QED BY <1>1, <1>2, <1>3, <1>6, <1>7

\* A registration begins when the account has no other.
LEMMA BeginsAlone ==
  ASSUME TypeOK, RequestsOK, OneRegistration, NEW r \in Requests, Begun(r), r \in Registering'
  PROVE  \A s \in Registering : request[s].who # request'[r].who
<1>1. PICK k, w : k = request'[r].kind /\ w = request'[r].who
  OBVIOUS
<1>2. /\ k \in {"device", "validate"} \cap DOMAIN setting.allow
      /\ Cardinality(Same(k, w)) < setting.allow[k]
  BY <1>1 DEF Begun, Registering
<1>3. setting.allow[k] = 1
  BY <1>2 DEF OneRegistration
<1>4. IsFiniteSet(Same(k, w))
  BY RequestsAssumption, FS_Subset DEF Same
<1>5. Cardinality(Same(k, w)) \in Nat
  BY <1>4, FS_CardinalityType
<1>6. Same(k, w) = {}
  BY <1>2, <1>3, <1>4, <1>5, FS_EmptySet
<1>7. ASSUME NEW s \in Registering, request[s].who = w PROVE FALSE
  <2>1. request[s].kind \in {"device", "validate"} \cap DOMAIN setting.allow /\ s \in Requests /\ request[s] # Idle
    BY ActiveIs DEF Registering
  <2>2. request[s].kind = k
    BY <1>2, <2>1 DEF OneRegistration
  <2>3. s \in Same(k, w)
    BY <1>7, <2>1, <2>2 DEF Same
  <2> QED BY <1>6, <2>3
<1> QED BY <1>1, <1>7

\* An insert is of a limit that was not reached.
LEMMA LimitSteps ==
  ASSUME TypeOK, RequestsOK, ExchangePending, LimitRead, [Next]_vars, NEW u \in Users
  PROVE  Limit(u) \in {1, 3} /\ Limit(u)' \in {1, 3} /\ Limit(u) <= Limit(u)'
<1>1. peak[u] = "expert" => peak'[u] = "expert"
  BY PeakSteps
<1> QED BY <1>1 DEF Limit

LEMMA RegistrationInductive ==
  ASSUME TypeOK, RequestsOK, ExchangePending, LimitRead, RegistrationPending, DeviceLimit, [Next]_vars
  PROVE  RegistrationPending' /\ DeviceLimit'
<1> DEFINE Few(u) == Cardinality(ActiveMachines(u)) < Limit(u)
           Kept(u) == Cardinality(ActiveMachines(u)) <= Limit(u)
<1>0. setting' = setting
  BY Steps, RequestSteps, ServerSteps DEF Begun, Frame
<1>1. SUFFICES ASSUME OneRegistration
               PROVE  /\ \A q, s \in Registering' : request'[q].who = request'[s].who => q = s
                      /\ \A s \in Registering' : request'[s].pc = "insert" => Few(request[s].who)'
                      /\ \A u \in Users : Kept(u)'
  <2>1. OneRegistration' => OneRegistration
    BY <1>0 DEF OneRegistration
  <2> QED BY <2>1 DEF RegistrationPending, DeviceLimit
<1>2. /\ \A q, s \in Registering : request[q].who = request[s].who => q = s
      /\ \A s \in Registering : request[s].pc = "insert" => Few(request[s].who)
      /\ \A u \in Users : Kept(u)
  BY <1>1 DEF RegistrationPending, DeviceLimit
<1>3. \A s \in Registering : s \in Requests /\ request[s].who \in Users
  BY WhoIs DEF Registering, Active
<1>4. \A q, s \in Registering' : request'[q].who = request'[s].who => q = s
  <2>1. SUFFICES ASSUME NEW q \in Registering', NEW s \in Registering', request'[q].who = request'[s].who
                 PROVE  q = s
    OBVIOUS
  <2>2. ASSUME NEW x \in Registering'
        PROVE  (x \in Registering /\ request'[x].who = request[x].who) \/ Begun(x)
    <3>1. x \in Registering => x \in Requests
      BY <1>3
    <3> QED BY <2>2, <3>1, RegisteringBefore, RegisteringSteps
  <2>3. ASSUME NEW x \in Registering', NEW y \in Registering', Begun(x), y # x
        PROVE  request'[x].who # request'[y].who
    <3>1. x \in Requests
      BY <2>3 DEF Begun
    <3>2. \A z \in Registering : request[z].who # request'[x].who
      BY <1>1, <2>3, <3>1, BeginsAlone
    <3>3. y \in Registering /\ request'[y] = request[y]
      BY <2>3 DEF Begun, Others, Registering, Active
    <3> QED BY <3>2, <3>3
  <2> QED BY <1>2, <2>1, <2>2, <2>3
<1>5. ASSUME NEW u \in Users
      PROVE  /\ Limit(u) \in {1, 3} /\ Limit(u)' \in {1, 3} /\ Limit(u) <= Limit(u)'
             /\ Cardinality(ActiveMachines(u)) \in Nat /\ Cardinality(ActiveMachines(u)') \in Nat
             /\ ActiveMachines(u)' \subseteq ActiveMachines(u) =>
                  Cardinality(ActiveMachines(u)') <= Cardinality(ActiveMachines(u))
  <2>1. ActiveMachines(u) \in SUBSET Machines /\ ActiveMachines(u)' \in SUBSET Machines
    BY DEF ActiveMachines
  <2> QED BY <2>1, Counting, LimitSteps
<1>6. ASSUME NEW u \in Users, ActiveMachines(u)' \subseteq ActiveMachines(u)
      PROVE  Kept(u)' /\ (Few(u) => Few(u)')
  <2>1. PICK a, b, c, d : /\ a = Cardinality(ActiveMachines(u)) /\ b = Cardinality(ActiveMachines(u)')
                          /\ c = Limit(u) /\ d = Limit(u)'
    OBVIOUS
  <2>2. a \in Nat /\ b \in Nat /\ c \in {1, 3} /\ d \in {1, 3} /\ c <= d /\ b <= a /\ a <= c
    BY <1>2, <1>5, <1>6, <2>1
  <2>3. b <= d /\ (a < c => b < d)
    BY <2>2
  <2> QED BY <2>1, <2>3
<1>7. ASSUME NEW r \in Requests, NEW m \in Machines, MachineAdded(r, m)
      PROVE  /\ r \in Registering /\ r \notin Registering'
             /\ \A u \in Users : u # request[r].who => ActiveMachines(u)' \subseteq ActiveMachines(u)
             /\ \A u \in Users : u = request[r].who => Kept(u)'
  <2>1. PICK w : w = request[r].who
    OBVIOUS
  <2>2. /\ r \in Registering /\ request[r].pc = "insert" /\ r \notin Registering'
        /\ \A u \in Users : IF u = w THEN ActiveMachines(u)' \subseteq ActiveMachines(u) \cup {m}
                            ELSE ActiveMachines(u)' \subseteq ActiveMachines(u)
    BY <1>7, <2>1, AddStep
  <2>3. w \in Users /\ Few(w) /\ ActiveMachines(w)' \subseteq ActiveMachines(w) \cup {m}
    BY <1>2, <1>3, <2>1, <2>2
  <2>4. PICK S, T : S = ActiveMachines(w) /\ T = ActiveMachines(w)'
    OBVIOUS
  <2>5. S \in SUBSET Machines /\ T \in SUBSET Machines /\ S \cup {m} \in SUBSET Machines
    BY <2>4 DEF ActiveMachines
  <2>6. Cardinality(T) <= Cardinality(S \cup {m}) /\ Cardinality(S \cup {m}) <= Cardinality(S) + 1
    BY <2>3, <2>4, <2>5, Counting
  <2>7. Cardinality(T) \in Nat /\ Cardinality(S \cup {m}) \in Nat /\ Cardinality(S) \in Nat
    BY <2>5, Counting
  <2>8. PICK a, b, c, d, e : /\ a = Cardinality(S) /\ b = Cardinality(S \cup {m}) /\ e = Cardinality(T)
                             /\ c = Limit(w) /\ d = Limit(w)'
    OBVIOUS
  <2>9. a \in Nat /\ b \in Nat /\ e \in Nat /\ c \in {1, 3} /\ d \in {1, 3} /\ c <= d /\ a < c /\ e <= b /\ b <= a + 1
    BY <1>5, <2>3, <2>4, <2>6, <2>7, <2>8
  <2>10. e <= d
    BY <2>9
  <2> QED BY <2>1, <2>2, <2>4, <2>8, <2>10
<1>8. \A u \in Users : Kept(u)'
  BY <1>6, <1>7, MachineSteps
<1>9. ASSUME NEW s \in Registering', request'[s].pc = "insert" PROVE Few(request[s].who)'
  <2>1. CASE Begun(s)
    BY <1>9, <2>1 DEF Begun
  <2>2. PICK w, v : w = request[s].who /\ v = request'[s].who
    OBVIOUS
  <2>3. CASE s \in Registering /\ request'[s] = request[s]
    <3>1. w \in Users /\ v = w /\ Few(w)
      BY <1>2, <1>3, <1>9, <2>2, <2>3
    <3>2. ActiveMachines(w)' \subseteq ActiveMachines(w)
      <4>1. ASSUME NEW r \in Requests, NEW m \in Machines, MachineAdded(r, m) PROVE request[r].who # w
        BY <1>2, <1>7, <1>9, <2>2, <2>3, <4>1
      <4> QED BY <1>7, <3>1, <4>1, MachineSteps
    <3>3. Few(w)'
      BY <1>6, <3>1, <3>2
    <3> QED BY <2>2, <3>1, <3>3
  <2>4. CASE s \in Registering /\ HandleStep(s)
    <3>1. PICK q, p : q = request[s] /\ p = request'[s]
      OBVIOUS
    <3>2. /\ w \in Users /\ v = w /\ machine' = machine /\ q.pc = "count"
          /\ ~(Cardinality(ActiveMachines(w)) >= q.found)
      BY <1>3, <1>9, <2>2, <2>4, <3>1, RegisteringSteps
    <3>3. q.found = 1 \/ (q.found = 3 /\ peak[w] = "expert")
      BY <2>2, <2>4, <3>1, <3>2 DEF LimitRead
    <3>4. q.found \in {1, 3} /\ q.found <= Limit(w)
      BY <3>3 DEF Limit
    <3>5. PICK a, c, f : a = Cardinality(ActiveMachines(w)) /\ c = Limit(w) /\ f = q.found
      OBVIOUS
    <3>6. a \in Nat /\ c \in {1, 3} /\ f \in {1, 3} /\ f <= c /\ ~(a >= f)
      BY <1>5, <3>2, <3>4, <3>5
    <3>7. a < c
      BY <3>6
    <3>8. ActiveMachines(w)' \subseteq ActiveMachines(w)
      BY <3>2 DEF ActiveMachines
    <3>9. Few(w)'
      BY <1>6, <3>2, <3>5, <3>7, <3>8
    <3> QED BY <2>2, <3>2, <3>9
  <2> QED BY <2>1, <2>3, <2>4, RegisteringBefore
<1> QED BY <1>4, <1>8, <1>9

-----------------------------------------------------------------------------
(* The theorems.                                                           *)

LEMMA InitInv == Init => IInv
<1> SUFFICES ASSUME Init PROVE IInv
  OBVIOUS
<1>1. /\ setting \in Settings /\ state = [u \in Users |-> "none"] /\ email = [u \in Users |-> None]
      /\ hidden = [u \in Users |-> None] /\ password = {} /\ seeded = {} /\ key = {}
      /\ link = [i \in Identities |-> None] /\ token = [t \in Tokens |-> NoToken]
      /\ machine = [m \in Machines |-> NoMachine]
      /\ plan = [u \in Users |-> "free"] /\ peak = plan
      /\ request = [r \in Requests |-> Idle] /\ crashed = FALSE
  BY DEF Init
<1>2. Active = {}
  BY <1>1 DEF Active
<1>3. NoToken \in [user : Users \cup {None}, live : BOOLEAN, from : Tokens \cup {None}] /\ NoToken.from = None
  BY DEF NoToken
<1>4. /\ NoMachine \in [user : Users \cup {None}, device : Devices \cup {None}, active : BOOLEAN]
      /\ NoMachine.active = FALSE
  BY DEF NoMachine
<1>5. \A u \in Users : Linked(u) = {}
  BY <1>1, NoneAssumption DEF Linked
<1>6. TypeOK
  BY <1>1, <1>3, <1>4, <1>5 DEF TypeOK
<1>7. RequestsOK /\ SeedPending
  BY <1>1, <1>2 DEF RequestsOK, SeedPending
<1>8. OneSuccessor /\ ExchangePending
  BY <1>1, <1>2, <1>3 DEF OneSuccessor, ExchangePending, Exchanging
<1>9. SignInPending /\ LimitRead
  BY <1>1, <1>2 DEF SignInPending, LimitRead, Registering, Enabled
<1>10. \A u \in Users : Cardinality(ActiveMachines(u)) <= Limit(u)
  <2>1. \A u \in Users : ActiveMachines(u) = {}
    BY <1>1, <1>4 DEF ActiveMachines
  <2>2. Cardinality({}) = 0
    BY FS_EmptySet
  <2> QED BY <2>1, <2>2 DEF Limit
<1>11. DeviceLimit /\ RegistrationPending
  BY <1>2, <1>10 DEF DeviceLimit, RegistrationPending, Registering
<1> QED BY <1>6, <1>7, <1>8, <1>9, <1>11 DEF IInv

LEMMA IInvInductive == IInv /\ [Next]_vars => IInv'
<1> SUFFICES ASSUME IInv, [Next]_vars PROVE IInv'
  OBVIOUS
<1>1. /\ TypeOK /\ RequestsOK /\ SeedPending /\ OneSuccessor /\ ExchangePending
      /\ SignInPending /\ LimitRead /\ RegistrationPending /\ DeviceLimit
  BY DEF IInv
<1>2. TypeOK' /\ RequestsOK' /\ SeedPending'
  BY <1>1, TypeInductive, RequestsInductive, SeedInductive
<1>3. OneSuccessor' /\ ExchangePending'
  BY <1>1, OneSuccessorInductive, ExchangeInductive
<1>4. SignInPending' /\ LimitRead'
  BY <1>1, SignInInductive, LimitReadInductive
<1>5. RegistrationPending' /\ DeviceLimit'
  BY <1>1, RegistrationInductive
<1> QED BY <1>2, <1>3, <1>4, <1>5 DEF IInv

THEOREM Invariance == Spec => []IInv
BY InitInv, IInvInductive, PTL DEF Spec

\* The unique indexes and foreign keys of the tables hold in every state, and an account
\* without a subscription comes from a sign-in that did not end: auth.ts and users.ts.
THEOREM TypeCorrect == Spec => []TypeOK
<1>1. IInv => TypeOK
  BY DEF IInv
<1> QED BY <1>1, Invariance, PTL

\* However many requests carry a refresh token, it is exchanged for one token at most, of
\* the same account, and is not live from then on: POST /refresh of auth.ts.
THEOREM TokensHaveOneSuccessor == Spec => []OneSuccessor
<1>1. IInv => OneSuccessor
  BY DEF IInv
<1> QED BY <1>1, Invariance, PTL

\* Of requests that run one after the other and end, none leaves an account without a
\* password and without an identity: oauthSignIn of auth.ts, and the refusal to remove the
\* last identity in users.ts.
THEOREM AccountsCanSignIn == Spec => []CanSignIn
<1>1. IInv => CanSignIn
  BY DEF IInv, SignInPending, CanSignIn, Quiet, Active
<1> QED BY <1>1, Invariance, PTL

\* With one registration of an account at a time, its active devices are never more than
\* the greatest plan it had allows: POST /me/machines of users.ts, /license/validate.
THEOREM DevicesStayLimited == Spec => []DeviceLimit
<1>1. IInv => DeviceLimit
  BY DEF IInv
<1> QED BY <1>1, Invariance, PTL
===============================================================================

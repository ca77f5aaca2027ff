--------------------------- MODULE AuthClientProofs ---------------------------
(***************************************************************************)
(* Who is shown as signed in can go on, stays signed in, and is out after  *)
(* a logout: the invariants of AuthClient and StaysSignedIn, for every     *)
(* number of calls, users and pairs of tokens, with and without lost       *)
(* messages and relaunches.                                                *)
(*                                                                         *)
(* Steps puts the specification's steps into twelve kinds, each stated by  *)
(* what it does to the calls, the store and the server; every part of the  *)
(* inductive invariant is then shown to survive each kind.                 *)
(***************************************************************************)
EXTENDS AuthClient, FiniteSetTheorems, TLAPS

-----------------------------------------------------------------------------
(* The inductive invariant.                                                *)

Kinds == {"login", "profile", "logout", "delete"}
Crossed == "crossed" \in mishap
IssuedPairs == Pairs \ Unissued
Known == IssuedPairs \cup {NoPair}

\* The calls under way, and when a page may start one: a button is disabled
\* while its own call runs, save for the profile's two and the Sign out.
Requests ==
  [kind : Kinds, pc : {"sent", "answered", "waiting"}, who : Users, held : Known, sent : Known,
   retry : BOOLEAN, answer : {"none", "ok", "401", "error"}, pair : Known]
CallsOK ==
  /\ call \in [Calls -> {Idle} \cup Requests]
  /\ \A c \in Active :
       /\ At(c, "sent") => call[c].answer = "none"
       /\ At(c, "waiting") => call[c].retry /\ call[c].answer = "401"
       /\ call[c].kind = "login" \/ call[c].held # NoPair
  /\ \A c, d \in Active : call[c].kind = call[d].kind /\ call[c].kind \notin {"profile", "logout"} => c = d

\* Pairs enough remain for the sign-ins and the refreshes under way.
Open == {c \in Active : call[c].answer \in {"none", "401"}}
Hungry == {c \in Open : call[c].retry /\ (At(c, "waiting") => refreshing.pc = "sent")}
Logging == {c \in Open : call[c].kind = "login"}
PairsRemain == Cardinality(Hungry) + Cardinality(Logging) <= Cardinality(Unissued)

\* The server's side.  Pairs are issued in their order, a pair and the sign-in
\* it descends from are of the same user; a sign-in has one live token; a
\* deleted account has none.
Numbered == \E k \in 0 .. MaxTokens : Unissued = (k + 1) .. MaxTokens
Lineage ==
  /\ issued \in [Pairs -> [user : Users \cup {None}, root : Pairs \cup {NoPair}]]
  /\ \A n \in IssuedPairs : Root(n) \in IssuedPairs /\ Owner(Root(n)) = Owner(n)
  /\ \A n \in live : Owner(n) \notin deleted
  /\ \A n, m \in live : Root(n) = Root(m) => n = m
  /\ left \subseteq IssuedPairs

\* The store: who is shown as signed in has tokens, unless crossed their own.
StoreOK ==
  /\ tokens \in Known /\ refreshing \in [pc : {"none", "sent", "ok", "refused"}, pair : Known]
  /\ refreshing.pc # "none" => refreshing.pair # NoPair
  /\ refreshing.pc = "none" => refreshing = NoRefresh
  /\ user # None => tokens # NoPair
  /\ ~Crossed => (user = None => tokens = NoPair) /\ (user # None => Owner(tokens) = user)

\* A sign-in that is answered and not stored: its pair is nobody's yet, and
\* nobody else has signed in.
NobodyHas(n) ==
  Root(tokens) # n /\ Root(refreshing.pair) # n /\ \A c \in Active : Root(call[c].held) # n
SignInPending ==
  \A c \in Under("login") :
    /\ ~Crossed => user = None
    /\ call[c].answer = "ok" =>
         /\ At(c, "answered") /\ call[c].pair \in IssuedPairs
         /\ Owner(call[c].pair) = call[c].who /\ Root(call[c].pair) = call[c].pair
         /\ NobodyHas(call[c].pair)
         /\ call[c].pair \in live \/ call[c].who \in deleted

\* A refresh under way is one of the sign-in in force, and until a mishap of
\* the very token in force.
RefreshOwn ==
  /\ ~Crossed /\ refreshing.pc \in {"sent", "ok"} =>
       user # None /\ Root(refreshing.pair) = Root(tokens)
  /\ mishap = {} /\ refreshing.pc = "sent" => refreshing.pair = tokens
  /\ mishap = {} /\ refreshing.pc = "ok" =>
       refreshing.pair # tokens /\ \A c \in Active : call[c].held # refreshing.pair

\* What a call sends is of the sign-in it was started in, while that is in force.
SentOwn ==
  ~Crossed => \A c \in Active :
    call[c].kind # "login" /\ Root(call[c].held) = Root(tokens) => Root(call[c].sent) = Root(tokens)
DeletedIs == \A c \in Under("delete") : call[c].answer = "ok" => Owner(call[c].sent) \in deleted

\* The token in force is one that no request has revoked, until the account is
\* deleted or a logout was answered and has left nothing of the sign-in.
Current == IF refreshing.pc = "ok" THEN refreshing.pair ELSE tokens
Leaving == \E c \in Under("logout") : call[c].answer \in {"ok", "error"}
Spent == \A n \in live : Root(n) # Root(tokens)
CurrentIsLive ==
  mishap = {} /\ user # None => Current \in live \/ user \in deleted \/ (Leaving /\ Spent)
RefusalIsDue ==
  mishap = {} /\ refreshing.pc = "refused" /\ user # None /\ Root(refreshing.pair) = Root(tokens) =>
    user \in deleted \/ Leaving \/ (refreshing.pair = tokens /\ tokens \in ended)

\* A logout that was answered has left nothing of the sign-in it was sent from.
LogoutServed ==
  mishap = {} => \A c \in Under("logout") :
    call[c].answer = "ok" /\ call[c].held = tokens /\ refreshing.pc # "ok" =>
      \A n \in live : Root(n) # Root(tokens)

IInv ==
  /\ TypeOK /\ CallsOK /\ PairsRemain /\ Numbered /\ Lineage /\ StoreOK
  /\ SignInPending /\ RefreshOwn /\ SentOwn /\ DeletedIs
  /\ CurrentIsLive /\ RefusalIsDue /\ LogoutServed /\ LogoutEndsSession

-----------------------------------------------------------------------------
(* Pairs of tokens.                                                        *)

LEMMA UnissuedFinite == IsFiniteSet(Unissued) /\ IsFiniteSet(Calls) /\ Unissued \subseteq Pairs
<1>1. IsFiniteSet(Pairs)
  BY TokensAssumption, FS_Interval DEF Pairs
<1>2. Unissued \subseteq Pairs
  BY DEF Unissued
<1> QED BY <1>1, <1>2, FS_Subset, CallsAssumption

LEMMA NewestIs ==
  ASSUME Numbered, Unissued # {}
  PROVE  Newest \in Unissued /\ Unissued \ {Newest} = (Newest + 1) .. MaxTokens
<1>1. PICK k \in 0 .. MaxTokens : Unissued = (k + 1) .. MaxTokens
  BY DEF Numbered
<1>2. k + 1 \in Unissued /\ \A m \in Unissued : k + 1 <= m
  BY <1>1, TokensAssumption
<1>3. Newest \in Unissued /\ \A m \in Unissued : Newest <= m
  BY <1>2 DEF Newest
<1>4. Newest = k + 1
  BY <1>1, <1>2, <1>3
<1> QED BY <1>1, <1>3, <1>4, TokensAssumption

\* What is issued: the newest pair, to a user, from a sign-in.
LEMMA Issues ==
  ASSUME Numbered, Lineage, Unissued # {}, NEW u \in Users, NEW root \in Known, Issue(u, root)
  PROVE  /\ Newest \in Unissued /\ Newest \in Pairs /\ Newest # NoPair /\ Newest \notin Known
         /\ issued' \in [Pairs -> [user : Users \cup {None}, root : Pairs \cup {NoPair}]]
         /\ Unissued' = Unissued \ {Newest} /\ IssuedPairs' = IssuedPairs \cup {Newest} /\ Numbered'
         /\ Known' = Known \cup {Newest} /\ fresh' = fresh \cup {Newest}
         /\ issued'[Newest] = [user |-> u, root |-> IF root = NoPair THEN Newest ELSE root]
         /\ \A n \in IssuedPairs : issued'[n] = issued[n]
<1>1. Newest \in Unissued /\ Newest \in Pairs
  BY NewestIs DEF Unissued
<1>2. Newest # NoPair /\ Newest \notin Known
  BY <1>1 DEF Known, IssuedPairs, NoPair, Pairs
<1>3. issued' = [issued EXCEPT ![Newest] = [user |-> u, root |-> IF root = NoPair THEN Newest ELSE root]]
      /\ fresh' = fresh \cup {Newest}
  BY DEF Issue
<1>4. issued' \in [Pairs -> [user : Users \cup {None}, root : Pairs \cup {NoPair}]]
  BY <1>1, <1>3 DEF Lineage, Known, IssuedPairs
<1>5. /\ issued'[Newest] = [user |-> u, root |-> IF root = NoPair THEN Newest ELSE root]
      /\ \A n \in Pairs : n # Newest => issued'[n] = issued[n]
  BY <1>1, <1>3 DEF Lineage
<1>6. Unissued' = Unissued \ {Newest}
  BY <1>1, <1>5, TokensAssumption DEF Unissued
<1>7. IssuedPairs' = IssuedPairs \cup {Newest} /\ Known' = Known \cup {Newest}
  BY <1>1, <1>6 DEF IssuedPairs, Known
<1>8. Numbered'
  <2>1. Newest \in 0 .. MaxTokens
    BY <1>1 DEF Pairs
  <2>2. Unissued' = (Newest + 1) .. MaxTokens
    BY <1>6, NewestIs
  <2>3. \A k \in 0 .. MaxTokens : Unissued' = (k + 1) .. MaxTokens => Numbered'
    BY DEF Numbered
  <2> QED BY <2>1, <2>2, <2>3
<1>9. \A n \in IssuedPairs : issued'[n] = issued[n]
  BY <1>1, <1>5 DEF IssuedPairs
<1> QED BY <1>1, <1>2, <1>3, <1>4, <1>5, <1>6, <1>7, <1>8, <1>9

-----------------------------------------------------------------------------
(* The calls of the pages.                                                 *)

LEMMA ActiveIs ==
  ASSUME CallsOK, NEW c \in Active
  PROVE  c \in Calls /\ call[c] \in Requests /\ call[c].pc \in {"sent", "answered", "waiting"}
<1>1. c \in Calls /\ call[c] # Idle
  BY DEF Active
<1>2. call[c] \in Requests
  BY <1>1 DEF CallsOK
<1> QED BY <1>1, <1>2 DEF Requests

LEMMA AtActive ==
  ASSUME NEW c \in Calls, NEW pc \in {"sent", "answered", "waiting"}, At(c, pc)
  PROVE  c \in Active
BY DEF At, Active, Idle

\* A call that is answered, by the server or by a failure.
LEMMA Replied ==
  ASSUME CallsOK, NEW c \in Active, NEW answer, NEW n, Reply(c, answer, n)
  PROVE  /\ call' = [call EXCEPT ![c] = call'[c]]
         /\ call'[c] = [kind |-> call[c].kind, pc |-> "answered", who |-> call[c].who,
                        held |-> call[c].held, sent |-> call[c].sent, retry |-> call[c].retry,
                        answer |-> answer, pair |-> n]
         /\ call'[c].pc = "answered" /\ call'[c].answer = answer /\ call'[c].pair = n
         /\ call'[c].kind = call[c].kind /\ call'[c].who = call[c].who /\ call'[c].held = call[c].held
         /\ call'[c].sent = call[c].sent /\ call'[c].retry = call[c].retry
         /\ \A d \in Calls : d # c => call'[d] = call[d]
         /\ Active' = Active
<1>1. c \in Calls /\ call[c] \in Requests
  BY ActiveIs
<1>2. call' = [call EXCEPT ![c] = [call[c] EXCEPT !.pc = "answered", !.answer = answer, !.pair = n]]
  BY <1>1 DEF Reply, CallsOK
<1>3. /\ call'[c] = [call[c] EXCEPT !.pc = "answered", !.answer = answer, !.pair = n]
      /\ \A d \in Calls : d # c => call'[d] = call[d]
  BY <1>1, <1>2 DEF CallsOK
<1>4. /\ call'[c].pc = "answered" /\ call'[c].answer = answer /\ call'[c].pair = n
      /\ call'[c].kind = call[c].kind /\ call'[c].who = call[c].who /\ call'[c].held = call[c].held
      /\ call'[c].sent = call[c].sent /\ call'[c].retry = call[c].retry
  BY <1>1, <1>3 DEF Requests
<1>5. call'[c] # Idle
  BY <1>4 DEF Idle
<1>6. Active' = Active
  BY <1>1, <1>3, <1>5 DEF Active
<1>7. call'[c] = [kind |-> call[c].kind, pc |-> "answered", who |-> call[c].who,
                  held |-> call[c].held, sent |-> call[c].sent, retry |-> call[c].retry,
                  answer |-> answer, pair |-> n]
  BY <1>1, <1>3 DEF Requests
<1>8. call' = [call EXCEPT ![c] = call'[c]]
  BY <1>1, <1>2 DEF CallsOK
<1> QED BY <1>3, <1>4, <1>6, <1>7, <1>8

LEMMA Ended ==
  ASSUME CallsOK, NEW c \in Active, End(c)
  PROVE  call' \in [Calls -> {Idle} \cup Requests] /\ Active' = Active \ {c} /\ call'[c] = Idle /\
         \A d \in Calls : d # c => call'[d] = call[d]
<1>1. c \in Calls
  BY ActiveIs
<1>2. call' = [call EXCEPT ![c] = Idle]
  BY DEF End
<1> QED BY <1>1, <1>2 DEF CallsOK, Active

-----------------------------------------------------------------------------
(* The kinds of steps.                                                     *)

Setup == UNCHANGED <<setting, launches>>

SignInServed(c) ==
  /\ At(c, "sent") /\ call[c].kind = "login" /\ call[c].who \notin deleted /\ Unissued # {}
  /\ Issue(call[c].who, NoPair) /\ live' = live \cup {Newest} /\ Reply(c, "ok", Newest)
  /\ UNCHANGED <<store, api, refreshing, ended, deleted, history>>

Told(c) ==
  \E answer \in {"ok", "401", "error"} :
    /\ At(c, "sent") \/ (At(c, "answered") /\ answer = "error")
    /\ answer = "ok" => call[c].kind = "profile"
    /\ Reply(c, answer, NoPair)
    /\ UNCHANGED <<store, api, refreshing, server, history>>

LogoutServedBy(c) ==
  /\ At(c, "sent") /\ call[c].kind = "logout"
  /\ live' = IF Owner(call[c].held) = Owner(call[c].sent) THEN live \ {call[c].held} ELSE live
  /\ Reply(c, "ok", NoPair)
  /\ UNCHANGED <<store, api, refreshing, issued, ended, fresh, deleted, history>>

DeletionServed(c) ==
  /\ At(c, "sent") /\ call[c].kind = "delete" /\ call[c].sent \in IssuedPairs
  /\ deleted' = deleted \cup {Owner(call[c].sent)}
  /\ live' = {n \in live : Owner(n) # Owner(call[c].sent)}
  /\ Reply(c, "ok", NoPair)
  /\ UNCHANGED <<store, api, refreshing, issued, ended, fresh, history>>

Exchanged ==
  /\ refreshing.pc = "sent" /\ refreshing.pair \in live /\ Unissued # {}
  /\ Issue(Owner(refreshing.pair), Root(refreshing.pair))
  /\ live' = (live \ {refreshing.pair}) \cup {Newest}
  /\ refreshing' = [pc |-> "ok", pair |-> Newest]
  /\ UNCHANGED <<store, api, call, ended, deleted, history>>

Refused ==
  /\ \/ refreshing.pc = "sent" /\ refreshing.pair \notin live \ ended /\ mishap' = mishap
     \/ refreshing.pc \in {"sent", "ok"} /\ mishap' = mishap \cup {"lost"}
  /\ refreshing' = [pc |-> "refused", pair |-> refreshing.pair]
  /\ UNCHANGED <<store, api, call, server, left>>

Waits(c) ==
  /\ At(c, "answered") /\ call[c].answer = "401" /\ call[c].retry /\ api # NoPair
  /\ call' = [call EXCEPT ![c].pc = "waiting"]
  /\ refreshing' = IF refreshing = NoRefresh THEN [pc |-> "sent", pair |-> api] ELSE refreshing
  /\ UNCHANGED <<store, api, server, history>>

Ages ==
  /\ fresh' \subseteq fresh /\ ended \subseteq ended' /\ ended' \subseteq ended \cup live
  /\ UNCHANGED <<setting, store, api, refreshing, call, issued, live, deleted, history, launches>>

Ends(c) ==
  /\ At(c, "answered") /\ End(c) /\ UNCHANGED <<refreshing, server>>
  /\ \/ api = NoPair /\ clearAuth /\ UNCHANGED history
     \/ Failed(c) \/ LoginDone(c) \/ ProfileDone(c) \/ LogoutDone(c) \/ DeleteDone(c)

LEMMA SomethingIsLeft ==
  ASSUME IInv
  PROVE  /\ \A c \in Logging : Unissued # {}
         /\ \A c \in Hungry : Unissued # {}
         /\ refreshing.pc = "sent" => \E c \in Hungry : At(c, "waiting")
<1>0. TypeOK /\ CallsOK /\ PairsRemain /\ StoreOK
  BY DEF IInv
<1>1. Hungry \subseteq Calls /\ Logging \subseteq Calls
  BY DEF Hungry, Logging, Open, Active
<1>2. IsFiniteSet(Hungry) /\ IsFiniteSet(Logging) /\ IsFiniteSet(Unissued)
  BY <1>1, UnissuedFinite, FS_Subset
<1>3. /\ Cardinality(Hungry) \in Nat /\ Cardinality(Logging) \in Nat /\ Cardinality(Unissued) \in Nat
      /\ (Cardinality(Hungry) = 0 <=> Hungry = {}) /\ (Cardinality(Logging) = 0 <=> Logging = {})
      /\ (Cardinality(Unissued) = 0 <=> Unissued = {})
  BY <1>2, FS_CardinalityType, FS_EmptySet
<1>4. Unissued = {} => Hungry = {} /\ Logging = {}
  BY <1>0, <1>3 DEF PairsRemain
<1>5. ASSUME refreshing.pc = "sent" PROVE \E c \in Hungry : At(c, "waiting")
  <2>1. refreshing # NoRefresh
    BY <1>5 DEF NoRefresh
  <2>2. PICK c \in Calls : At(c, "waiting")
    BY <1>0, <2>1 DEF TypeOK
  <2>3. c \in Active
    BY <2>2, AtActive
  <2>4. call[c].retry /\ call[c].answer = "401"
    BY <1>0, <2>2, <2>3 DEF CallsOK
  <2> QED BY <1>5, <2>2, <2>3, <2>4 DEF Hungry, Open
<1> QED BY <1>4, <1>5

LEMMA ServeIs ==
  ASSUME IInv, NEW c \in Calls, Serve(c)
  PROVE  c \in Active /\ Setup /\ (SignInServed(c) \/ Told(c) \/ LogoutServedBy(c) \/ DeletionServed(c))
<1>0. TypeOK /\ CallsOK
  BY DEF IInv
<1>1. At(c, "sent") /\ c \in Active /\ UNCHANGED <<setting, store, api, refreshing, history, launches>>
  BY AtActive DEF Serve
<1>2. call[c].kind \in Kinds /\ call[c].answer = "none"
  BY <1>0, <1>1, ActiveIs DEF Requests, CallsOK
<1>3. CASE call[c].kind = "login"
  <2>1. ServeLogin(c)
    BY <1>3 DEF Serve
  <2>2. c \in Logging
    BY <1>1, <1>2, <1>3 DEF Logging, Open
  <2>3. Unissued # {}
    BY <2>2, SomethingIsLeft
  <2> QED BY <1>1, <1>3, <2>1, <2>3 DEF ServeLogin, SignInServed, Told, Setup
<1>4. CASE call[c].kind # "login" /\ ~Authorized(call[c].sent)
  <2>1. Reply(c, "401", NoPair) /\ UNCHANGED server
    BY <1>4 DEF Serve
  <2> QED BY <1>1, <2>1 DEF Told, Setup
<1>5. CASE call[c].kind = "profile" /\ Authorized(call[c].sent)
  <2>1. Reply(c, "ok", NoPair) /\ UNCHANGED server
    BY <1>5 DEF Serve
  <2> QED BY <1>1, <1>5, <2>1 DEF Told, Setup
<1>6. CASE call[c].kind = "logout" /\ Authorized(call[c].sent)
  <2>1. ServeLogout(c)
    BY <1>6 DEF Serve
  <2> QED BY <1>1, <1>6, <2>1 DEF ServeLogout, LogoutServedBy, Setup
<1>7. CASE call[c].kind = "delete" /\ Authorized(call[c].sent)
  <2>1. ServeDelete(c)
    BY <1>7 DEF Serve
  <2>2. call[c].sent \in IssuedPairs
    BY <1>0, <1>7 DEF Authorized, TypeOK, IssuedPairs
  <2> QED BY <1>1, <1>7, <2>1, <2>2 DEF ServeDelete, DeletionServed, Told, Setup
<1> QED BY <1>2, <1>3, <1>4, <1>5, <1>6, <1>7 DEF Kinds

LEMMA AnsweredIs ==
  ASSUME NEW c \in Calls, Answered(c)
  PROVE  c \in Active /\ Setup /\ (Waits(c) \/ Ends(c))
<1>1. At(c, "answered") /\ c \in Active /\ UNCHANGED <<setting, server, launches>>
  BY AtActive DEF Answered
<1>2. CASE RefreshAccessToken(c)
  <2>1. CASE api = NoPair
    <3>1. clearAuth /\ UNCHANGED <<mishap, refreshing, left>> /\ End(c)
      BY <1>2, <2>1 DEF RefreshAccessToken
    <3> QED BY <1>1, <2>1, <3>1 DEF Ends, Setup, history
  <2>2. CASE api # NoPair
    <3>1. /\ call' = [call EXCEPT ![c].pc = "waiting"] /\ call[c].answer = "401" /\ call[c].retry
          /\ refreshing' = IF refreshing = NoRefresh THEN [pc |-> "sent", pair |-> api] ELSE refreshing
          /\ UNCHANGED <<store, api, history>>
      BY <1>2, <2>2 DEF RefreshAccessToken
    <3> QED BY <1>1, <2>2, <3>1 DEF Waits, Setup
  <2> QED BY <2>1, <2>2
<1>3. CASE /\ Failed(c) \/ LoginDone(c) \/ ProfileDone(c) \/ LogoutDone(c) \/ DeleteDone(c)
           /\ End(c) /\ UNCHANGED refreshing
  BY <1>1, <1>3 DEF Ends, Setup
<1> QED BY <1>2, <1>3 DEF Answered

LEMMA RefreshIs ==
  ASSUME IInv, ServeRefresh \/ LoseRefresh
  PROVE  Setup /\ (Exchanged \/ Refused)
<1>0. StoreOK
  BY DEF IInv
<1>1. CASE ServeRefresh
  <2>1. refreshing.pc = "sent" /\ UNCHANGED <<setting, store, api, call, history, launches>>
    BY <1>1 DEF ServeRefresh
  <2>2. Unissued # {}
    BY <2>1, SomethingIsLeft
  <2>3. CASE refreshing.pair \in live \ ended
    BY <1>1, <2>1, <2>2, <2>3 DEF ServeRefresh, Exchanged, Setup
  <2>4. CASE refreshing.pair \notin live \ ended
    BY <1>1, <2>1, <2>4 DEF ServeRefresh, Refused, Setup, history
  <2> QED BY <2>3, <2>4
<1>2. CASE LoseRefresh
  <2>1. refreshing' = [pc |-> "refused", pair |-> refreshing.pair]
    BY <1>0, <1>2 DEF LoseRefresh, StoreOK
  <2> QED BY <1>2, <2>1 DEF LoseRefresh, Refused, Setup
<1> QED BY <1>1, <1>2

LEMMA Steps ==
  ASSUME IInv, [Next]_vars
  PROVE  \/ \E c \in Calls, kind \in Kinds, who \in Users : Start(c, kind, who)
         \/ \E c \in Active : Setup /\ (\/ SignInServed(c) \/ Told(c) \/ LogoutServedBy(c)
                                        \/ DeletionServed(c) \/ Waits(c) \/ Ends(c))
         \/ Setup /\ (Exchanged \/ Refused)
         \/ RefreshDone \/ Ages \/ Relaunch \/ UNCHANGED vars
<1>1. ASSUME NEW c \in Calls, LoseCall(c) PROVE c \in Active /\ Setup /\ Told(c)
  <2>1. /\ At(c, "sent") \/ At(c, "answered")
        /\ c \in Active
        /\ Reply(c, "error", NoPair) /\ UNCHANGED <<setting, store, api, refreshing, server, history, launches>>
    BY <1>1, AtActive DEF LoseCall
  <2> QED BY <1>1, <2>1, AtActive DEF Told, Setup
<1>2. Expire \/ EndElsewhere => Ages
  BY DEF Expire, EndElsewhere, Ages
<1> QED BY <1>1, <1>2, ServeIs, AnsweredIs, RefreshIs DEF Next, Kinds

-----------------------------------------------------------------------------
(* What the steps leave: pairs once issued, and the calls.                 *)

LEMMA IssuedIs ==
  ASSUME Lineage, NEW n \in IssuedPairs
  PROVE  /\ n \in Pairs /\ n # NoPair /\ Owner(n) = issued[n].user /\ Root(n) = issued[n].root
         /\ Owner(n) \in Users /\ Owner(n) # None /\ Root(n) # NoPair
<1>1. n \in Pairs /\ n # NoPair /\ issued[n].user # None
  BY DEF IssuedPairs, Unissued, Pairs, NoPair
<1>2. issued[n].user \in Users /\ Owner(n) = issued[n].user /\ Root(n) = issued[n].root
  BY <1>1 DEF Lineage, Owner, Root
<1>3. Root(n) \in IssuedPairs
  BY DEF Lineage
<1>4. Root(n) # NoPair
  BY <1>3 DEF IssuedPairs, Pairs, NoPair
<1> QED BY <1>1, <1>2, <1>4, TokensAssumption

\* What each step does to the pairs issued.
LEMMA PairsKept ==
  ASSUME IInv, [Next]_vars
  PROVE  /\ issued' \in [Pairs -> [user : Users \cup {None}, root : Pairs \cup {NoPair}]]
         /\ Numbered' /\ IssuedPairs \subseteq IssuedPairs' /\ Known \subseteq Known'
         /\ \A n \in IssuedPairs : issued'[n] = issued[n]
         /\ deleted \subseteq deleted' /\ ended \subseteq ended' /\ ended' \subseteq ended \cup live
<1>0. Numbered /\ Lineage /\ StoreOK /\ CallsOK /\ TypeOK
  BY DEF IInv
<1>1. ASSUME UNCHANGED issued
      PROVE  /\ issued' \in [Pairs -> [user : Users \cup {None}, root : Pairs \cup {NoPair}]]
             /\ Numbered' /\ IssuedPairs \subseteq IssuedPairs' /\ Known \subseteq Known'
             /\ \A n \in IssuedPairs : issued'[n] = issued[n]
  BY <1>0, <1>1 DEF Numbered, Lineage, IssuedPairs, Known, Unissued
<1>2. ASSUME NEW c \in Active, SignInServed(c)
      PROVE  /\ issued' \in [Pairs -> [user : Users \cup {None}, root : Pairs \cup {NoPair}]]
             /\ Numbered' /\ IssuedPairs \subseteq IssuedPairs' /\ Known \subseteq Known'
             /\ \A n \in IssuedPairs : issued'[n] = issued[n]
             /\ deleted \subseteq deleted'
  <2>1. call[c].who \in Users /\ NoPair \in Known
    BY <1>0, ActiveIs DEF Requests, Known
  <2> QED BY <1>0, <1>2, <2>1, Issues DEF SignInServed
<1>3. CASE Exchanged
  <2>1. refreshing.pair \in IssuedPairs
    BY <1>0, <1>3 DEF Exchanged, TypeOK, IssuedPairs
  <2>2. Owner(refreshing.pair) \in Users /\ Root(refreshing.pair) \in Known
    BY <1>0, <2>1, IssuedIs DEF Lineage, Known
  <2> QED BY <1>0, <1>3, <2>2, Issues DEF Exchanged
<1>4. ASSUME NEW c \in Active, Told(c) \/ LogoutServedBy(c) \/ Waits(c) \/ Ends(c)
      PROVE  UNCHANGED <<issued, deleted>>
  BY <1>4 DEF Told, LogoutServedBy, Waits, Ends, server
<1>5. ASSUME NEW c \in Active, DeletionServed(c)
      PROVE  UNCHANGED issued /\ deleted \subseteq deleted'
  BY <1>5 DEF DeletionServed
<1>6. ASSUME NEW c \in Calls, NEW kind \in Kinds, NEW who \in Users, Start(c, kind, who)
      PROVE  UNCHANGED <<issued, deleted>>
  BY <1>6 DEF Start, server
<1>7. CASE Refused \/ RefreshDone \/ Ages \/ Relaunch \/ UNCHANGED vars
  BY <1>1, <1>7 DEF Refused, RefreshDone, Ages, Relaunch, vars, server
<1>8. ended \subseteq ended' /\ ended' \subseteq ended \cup live
  <2>1. ASSUME NEW c \in Active, \/ SignInServed(c) \/ Told(c) \/ LogoutServedBy(c)
                                 \/ DeletionServed(c) \/ Waits(c) \/ Ends(c)
        PROVE  ended' = ended
    BY <2>1 DEF SignInServed, Told, LogoutServedBy, DeletionServed, Waits, Ends, server
  <2>2. ASSUME NEW c \in Calls, NEW kind \in Kinds, NEW who \in Users, Start(c, kind, who)
        PROVE  ended' = ended
    BY <2>2 DEF Start, server
  <2>3. CASE Exchanged \/ Refused \/ RefreshDone \/ Ages \/ Relaunch \/ UNCHANGED vars
    BY <2>3 DEF Exchanged, Refused, RefreshDone, Ages, Relaunch, vars, server
  <2> QED BY <2>1, <2>2, <2>3, Steps
<1> QED BY <1>1, <1>2, <1>3, <1>4, <1>5, <1>6, <1>7, <1>8, Steps

LEMMA Resent ==
  ASSUME CallsOK, Resend
  PROVE  /\ \A d \in Calls : ~At(d, "waiting") => call'[d] = call[d]
         /\ \A d \in Calls : At(d, "waiting") =>
              /\ call'[d] = [call[d] EXCEPT !.pc = "sent", !.sent = refreshing.pair,
                                            !.retry = FALSE, !.answer = "none"]
              /\ call'[d].pc = "sent" /\ call'[d].sent = refreshing.pair /\ ~call'[d].retry
              /\ call'[d].answer = "none" /\ call'[d].kind = call[d].kind
              /\ call'[d].who = call[d].who /\ call'[d].held = call[d].held
         /\ Active' = Active /\ \A d \in Calls : ~At(d, "waiting")'
<1>1. \A d \in Calls : call'[d] = IF At(d, "waiting")
                                  THEN [call[d] EXCEPT !.pc = "sent", !.sent = refreshing.pair,
                                                       !.retry = FALSE, !.answer = "none"]
                                  ELSE call[d]
  BY DEF Resend
<1>2. \A d \in Calls : At(d, "waiting") =>
              /\ call'[d].pc = "sent" /\ call'[d].sent = refreshing.pair /\ ~call'[d].retry
              /\ call'[d].answer = "none" /\ call'[d].kind = call[d].kind
              /\ call'[d].who = call[d].who /\ call'[d].held = call[d].held
  <2>1. ASSUME NEW d \in Calls, At(d, "waiting") PROVE call[d] \in Requests
    BY <2>1, AtActive, ActiveIs
  <2> QED BY <1>1, <2>1 DEF Requests
<1>3. \A d \in Calls : ~At(d, "waiting")'
  BY <1>1, <1>2 DEF At
<1>4. Active' = Active
  <2>1. ASSUME NEW d \in Calls, At(d, "waiting") PROVE call[d] # Idle /\ call'[d] # Idle
    <3>1. call[d].pc = "waiting" /\ call'[d].pc = "sent"
      BY <1>2, <2>1 DEF At
    <3> QED BY <3>1 DEF Idle
  <2>2. \A d \in Calls : call'[d] = Idle <=> call[d] = Idle
    BY <1>1, <2>1
  <2> QED BY <2>2 DEF Active
<1> QED BY <1>1, <1>2, <1>3, <1>4

LEMMA GivenUp ==
  ASSUME CallsOK, GiveUp
  PROVE  /\ \A d \in Calls : ~At(d, "waiting") => call'[d] = call[d]
         /\ \A d \in Calls : At(d, "waiting") => call'[d] = Idle
         /\ Active' = {d \in Active : ~At(d, "waiting")}
         /\ call' \in [Calls -> {Idle} \cup Requests] /\ \A d \in Calls : ~At(d, "waiting")'
<1>1. \A d \in Calls : call'[d] = IF At(d, "waiting") THEN Idle ELSE call[d]
  BY DEF GiveUp
<1>2. \A d \in Calls : ~At(d, "waiting")'
  BY <1>1 DEF At, Idle
<1>3. Active' = {d \in Active : ~At(d, "waiting")}
  BY <1>1 DEF Active, Idle, At
<1>4. call' \in [Calls -> {Idle} \cup Requests]
  BY <1>1 DEF GiveUp, CallsOK
<1> QED BY <1>1, <1>2, <1>3, <1>4

LEMMA Waited ==
  ASSUME CallsOK, NEW c \in Active, Waits(c)
  PROVE  /\ call' = [call EXCEPT ![c] = [call[c] EXCEPT !.pc = "waiting"]]
         /\ call'[c].pc = "waiting" /\ call'[c].answer = call[c].answer /\ call'[c].pair = call[c].pair
         /\ call'[c].kind = call[c].kind /\ call'[c].who = call[c].who /\ call'[c].held = call[c].held
         /\ call'[c].sent = call[c].sent /\ call'[c].retry = call[c].retry
         /\ \A d \in Calls : d # c => call'[d] = call[d]
         /\ Active' = Active
<1>1. c \in Calls /\ call[c] \in Requests
  BY ActiveIs
<1>2. call' = [call EXCEPT ![c] = [call[c] EXCEPT !.pc = "waiting"]]
  BY <1>1 DEF Waits, CallsOK
<1>3. /\ call'[c] = [call[c] EXCEPT !.pc = "waiting"]
      /\ \A d \in Calls : d # c => call'[d] = call[d]
  BY <1>1, <1>2 DEF CallsOK
<1>4. /\ call'[c].pc = "waiting" /\ call'[c].answer = call[c].answer /\ call'[c].pair = call[c].pair
      /\ call'[c].kind = call[c].kind /\ call'[c].who = call[c].who /\ call'[c].held = call[c].held
      /\ call'[c].sent = call[c].sent /\ call'[c].retry = call[c].retry
  BY <1>1, <1>3 DEF Requests
<1>5. Active' = Active
  BY <1>1, <1>3, <1>4 DEF Active, Idle
<1> QED BY <1>2, <1>3, <1>4, <1>5

LEMMA Started ==
  ASSUME CallsOK, NEW c \in Calls, NEW kind \in Kinds, NEW who \in Users, Start(c, kind, who)
  PROVE  /\ call[c] = Idle /\ c \notin Active /\ Active' = Active \cup {c}
         /\ call' = [call EXCEPT ![c] = Request(kind, who)]
         /\ call'[c].kind = kind /\ call'[c].pc = "sent" /\ call'[c].who = who
         /\ call'[c].held = tokens /\ call'[c].sent = api /\ call'[c].retry
         /\ call'[c].answer = "none" /\ call'[c].pair = NoPair
         /\ \A d \in Calls : d # c => call'[d] = call[d]
         /\ (kind \in {"profile", "logout"} \/ Under(kind) = {})
         /\ IF kind = "login" THEN user = None ELSE user # None /\ who = user
<1>1. call[c] = Idle /\ call' = [call EXCEPT ![c] = Request(kind, who)]
      /\ (kind \in {"profile", "logout"} \/ Under(kind) = {})
      /\ IF kind = "login" THEN user = None ELSE user # None /\ who = user
  BY DEF Start
<1>2. call'[c] = Request(kind, who) /\ \A d \in Calls : d # c => call'[d] = call[d]
  BY <1>1 DEF CallsOK
<1>3. /\ call'[c].kind = kind /\ call'[c].pc = "sent" /\ call'[c].who = who
      /\ call'[c].held = tokens /\ call'[c].sent = api /\ call'[c].retry
      /\ call'[c].answer = "none" /\ call'[c].pair = NoPair
  BY <1>2 DEF Request
<1>4. c \notin Active /\ Active' = Active \cup {c}
  BY <1>1, <1>2, <1>3 DEF Active, Idle
<1> QED BY <1>1, <1>2, <1>3, <1>4

-----------------------------------------------------------------------------
(* CallsOK and PairsRemain.                                                *)

\* A call that is as it was, or has the same button and a proper state.
LEMMA CallsStayOK ==
  ASSUME CallsOK, Known \subseteq Known', call' \in [Calls -> {Idle} \cup Requests'],
         Active' \subseteq Active,
         \A d \in Active' :
           \/ call'[d] = call[d]
           \/ /\ call'[d].kind = call[d].kind /\ call'[d].held = call[d].held
              /\ (call'[d].pc = "sent" => call'[d].answer = "none")
              /\ (call'[d].pc = "waiting" => call'[d].retry /\ call'[d].answer = "401")
  PROVE  CallsOK'
BY DEF CallsOK, At

LEMMA CallsOKNext == ASSUME IInv, [Next]_vars PROVE CallsOK'
<1>0. CallsOK /\ TypeOK /\ StoreOK /\ Numbered /\ Lineage
  BY DEF IInv
<1>1. Known \subseteq Known' /\ NoPair \in Known
  BY PairsKept DEF Known
<1>2. Requests \subseteq Requests'
  BY <1>1 DEF Requests
<1>3. call \in [Calls -> {Idle} \cup Requests'] /\ call \in [Calls -> {Idle} \cup Requests]
  BY <1>0, <1>2 DEF CallsOK
<1>4. ASSUME NEW c \in Active, NEW answer \in {"ok", "401", "error"}, NEW n \in Known',
             Reply(c, answer, n)
      PROVE  CallsOK'
  <2>1. c \in Calls /\ call[c] \in Requests'
    BY <1>0, <1>2, ActiveIs
  <2>2. call'[c] \in Requests'
    <3>1. call'[c] = [kind |-> call[c].kind, pc |-> "answered", who |-> call[c].who,
                      held |-> call[c].held, sent |-> call[c].sent, retry |-> call[c].retry,
                      answer |-> answer, pair |-> n]
      BY <1>0, <1>4, Replied
    <3> QED BY <2>1, <3>1 DEF Requests
  <2>3. call' \in [Calls -> {Idle} \cup Requests']
    <3>1. call' = [call EXCEPT ![c] = call'[c]]
      BY <1>0, <1>4, Replied
    <3> QED BY <1>3, <2>1, <2>2, <3>1
  <2>4. /\ Active' = Active /\ \A d \in Calls : d # c => call'[d] = call[d]
        /\ call'[c].kind = call[c].kind /\ call'[c].held = call[c].held /\ call'[c].pc = "answered"
    BY <1>0, <1>4, Replied
  <2> QED BY <1>0, <1>1, <2>3, <2>4, CallsStayOK DEF Active
<1>5. ASSUME NEW c \in Active, Told(c) \/ LogoutServedBy(c) \/ DeletionServed(c) PROVE CallsOK'
  BY <1>1, <1>4, <1>5 DEF Told, LogoutServedBy, DeletionServed
<1>6. ASSUME NEW c \in Active, SignInServed(c) PROVE CallsOK'
  <2>1. call[c].who \in Users
    BY <1>0, ActiveIs DEF Requests
  <2>2. Newest \in Known'
    BY <1>0, <1>1, <1>6, <2>1, Issues DEF SignInServed
  <2> QED BY <1>4, <1>6, <2>2 DEF SignInServed
<1>7. ASSUME NEW c \in Active, Waits(c) PROVE CallsOK'
  <2>1. c \in Calls /\ call[c] \in Requests'
    BY <1>0, <1>2, ActiveIs
  <2>2. [call[c] EXCEPT !.pc = "waiting"] \in Requests'
    BY <2>1 DEF Requests
  <2>3. call' \in [Calls -> {Idle} \cup Requests']
    BY <1>0, <1>3, <1>7, <2>1, <2>2, Waited
  <2>4. /\ Active' = Active /\ \A d \in Calls : d # c => call'[d] = call[d]
        /\ call'[c].kind = call[c].kind /\ call'[c].held = call[c].held /\ call'[c].pc = "waiting"
        /\ call'[c].retry /\ call'[c].answer = "401"
    BY <1>0, <1>7, Waited DEF Waits
  <2> QED BY <1>0, <1>1, <2>3, <2>4, CallsStayOK DEF Active
<1>8. ASSUME NEW c \in Active, Ends(c) PROVE CallsOK'
  <2>1. /\ call' \in [Calls -> {Idle} \cup Requests] /\ Active' = Active \ {c}
        /\ \A d \in Calls : d # c => call'[d] = call[d]
    BY <1>0, <1>8, Ended DEF Ends
  <2>2. call' \in [Calls -> {Idle} \cup Requests']
    BY <1>2, <2>1
  <2> QED BY <1>0, <1>1, <2>1, <2>2, CallsStayOK DEF Active
<1>9. ASSUME NEW c \in Calls, NEW kind \in Kinds, NEW who \in Users, Start(c, kind, who) PROVE CallsOK'
  <2>1. /\ Active' = Active \cup {c} /\ \A d \in Calls : d # c => call'[d] = call[d]
        /\ call'[c].kind = kind /\ call'[c].pc = "sent" /\ call'[c].held = tokens
        /\ call'[c].answer = "none" /\ (kind \in {"profile", "logout"} \/ Under(kind) = {})
        /\ call' = [call EXCEPT ![c] = Request(kind, who)] /\ c \notin Active
        /\ IF kind = "login" THEN user = None ELSE user # None /\ who = user
    BY <1>0, <1>9, Started
  <2>2. Request(kind, who) \in Requests'
    <3>1. tokens \in Known' /\ api \in Known' /\ NoPair \in Known'
      BY <1>0, <1>1 DEF StoreOK, TypeOK
    <3> QED BY <3>1 DEF Requests, Request
  <2>3. call' \in [Calls -> {Idle} \cup Requests']
    BY <1>3, <2>1, <2>2
  <2>4. kind = "login" \/ tokens # NoPair
    BY <1>0, <2>1 DEF StoreOK
  <2>5. \A d \in Active : kind \notin {"profile", "logout"} => call[d].kind # kind
    BY <2>1 DEF Under
  <2> QED BY <1>0, <2>1, <2>3, <2>4, <2>5 DEF CallsOK, At
<1>10. CASE RefreshDone
  <2>1. CASE Resend
    <3>1. refreshing.pair \in Known'
      BY <1>0, <1>1 DEF StoreOK
    <3>2. ASSUME NEW d \in Calls PROVE call'[d] \in {Idle} \cup Requests'
      <4>1. CASE At(d, "waiting")
        <5>1. call[d] \in Requests'
          BY <1>0, <1>2, <4>1, AtActive, ActiveIs
        <5>2. [call[d] EXCEPT !.pc = "sent", !.sent = refreshing.pair,
                              !.retry = FALSE, !.answer = "none"] \in Requests'
          BY <3>1, <5>1 DEF Requests
        <5> QED BY <1>0, <2>1, <4>1, <5>2, Resent
      <4>2. CASE ~At(d, "waiting")
        BY <1>0, <1>3, <2>1, <4>2, Resent
      <4> QED BY <4>1, <4>2
    <3>3. call' \in [Calls -> {Idle} \cup Requests']
      BY <2>1, <3>2 DEF Resend
    <3>4. /\ Active' = Active
          /\ \A d \in Active : \/ call'[d] = call[d]
                               \/ /\ call'[d].kind = call[d].kind /\ call'[d].held = call[d].held
                                  /\ call'[d].pc = "sent" /\ call'[d].answer = "none"
      BY <1>0, <2>1, Resent DEF Active
    <3> QED BY <1>0, <1>1, <3>3, <3>4, CallsStayOK
  <2>2. CASE GiveUp
    <3>1. /\ call' \in [Calls -> {Idle} \cup Requests] /\ Active' \subseteq Active
          /\ \A d \in Active' : call'[d] = call[d]
      BY <1>0, <2>2, GivenUp DEF Active
    <3>2. call' \in [Calls -> {Idle} \cup Requests']
      BY <1>2, <3>1
    <3> QED BY <1>0, <1>1, <3>1, <3>2, CallsStayOK
  <2> QED BY <1>10, <2>1, <2>2 DEF RefreshDone
<1>11. CASE Relaunch
  <2>1. call' = [c \in Calls |-> Idle] /\ Active' = {}
    BY <1>11 DEF Relaunch, Active
  <2> QED BY <2>1 DEF CallsOK
<1>12. CASE Exchanged \/ Refused \/ Ages \/ UNCHANGED vars
  <2>1. call' = call /\ Active' = Active
    BY <1>12 DEF Exchanged, Refused, Ages, vars, Active
  <2> QED BY <1>0, <1>1, <1>3, <2>1, CallsStayOK
<1> QED BY <1>5, <1>6, <1>7, <1>8, <1>9, <1>10, <1>11, <1>12, Steps

LEMMA FewerNeeds ==
  ASSUME PairsRemain, Hungry' \subseteq Hungry, Logging' \subseteq Logging, Unissued' = Unissued
  PROVE  PairsRemain'
<1>1. IsFiniteSet(Hungry) /\ IsFiniteSet(Logging) /\ IsFiniteSet(Unissued)
  <2>1. Hungry \subseteq Calls /\ Logging \subseteq Calls
    BY DEF Hungry, Logging, Open, Active
  <2> QED BY <2>1, UnissuedFinite, FS_Subset
<1>2. /\ Cardinality(Hungry') <= Cardinality(Hungry) /\ Cardinality(Logging') <= Cardinality(Logging)
      /\ IsFiniteSet(Hungry') /\ IsFiniteSet(Logging')
  BY <1>1, FS_Subset
<1>3. /\ Cardinality(Hungry) \in Nat /\ Cardinality(Logging) \in Nat /\ Cardinality(Unissued) \in Nat
      /\ Cardinality(Hungry') \in Nat /\ Cardinality(Logging') \in Nat
  BY <1>1, <1>2, FS_CardinalityType
<1> QED BY <1>2, <1>3 DEF PairsRemain

\* A need that is served.
LEMMA OneServed ==
  ASSUME PairsRemain, Hungry' \subseteq Hungry, Logging' \subseteq Logging,
         NEW c, \/ c \in Hungry \ Hungry'
                \/ c \in Logging \ Logging',
         NEW n \in Unissued, Unissued' = Unissued \ {n}
  PROVE  PairsRemain'
<1>1. IsFiniteSet(Hungry) /\ IsFiniteSet(Logging) /\ IsFiniteSet(Unissued)
  <2>1. Hungry \subseteq Calls /\ Logging \subseteq Calls
    BY DEF Hungry, Logging, Open, Active
  <2> QED BY <2>1, UnissuedFinite, FS_Subset
<1>2. Cardinality(Unissued') = Cardinality(Unissued) - 1 /\ Cardinality(Unissued) \in Nat
  BY <1>1, FS_RemoveElement, FS_CardinalityType
<1>3. /\ Cardinality(Hungry') <= Cardinality(Hungry) /\ Cardinality(Logging') <= Cardinality(Logging)
      /\ IsFiniteSet(Hungry') /\ IsFiniteSet(Logging')
  BY <1>1, FS_Subset
<1>4. /\ Cardinality(Hungry) \in Nat /\ Cardinality(Logging) \in Nat
      /\ Cardinality(Hungry') \in Nat /\ Cardinality(Logging') \in Nat
  BY <1>1, <1>3, FS_CardinalityType
<1>5. CASE c \in Hungry \ Hungry'
  <2>1. Cardinality(Hungry') < Cardinality(Hungry)
    <3>1. Hungry' # Hungry
      BY <1>5
    <3>2. Hungry' = Hungry \/ Cardinality(Hungry') < Cardinality(Hungry)
      BY <1>1, <1>3, <1>4, FS_Subset
    <3> QED BY <3>1, <3>2
  <2> QED BY <1>2, <1>3, <1>4, <2>1 DEF PairsRemain
<1>6. CASE c \in Logging \ Logging'
  <2>1. Cardinality(Logging') < Cardinality(Logging)
    <3>1. Logging' # Logging
      BY <1>6
    <3>2. Logging' = Logging \/ Cardinality(Logging') < Cardinality(Logging)
      BY <1>1, <1>3, <1>4, FS_Subset
    <3> QED BY <3>1, <3>2
  <2> QED BY <1>2, <1>3, <1>4, <2>1 DEF PairsRemain
<1> QED BY <1>5, <1>6

LEMMA PairsRemainNext == ASSUME IInv, [Next]_vars PROVE PairsRemain'
<1>0. CallsOK /\ TypeOK /\ StoreOK /\ Numbered /\ Lineage /\ PairsRemain
  BY DEF IInv
<1>1. ASSUME NEW c \in Active, NEW answer \in {"ok", "401", "error"}, NEW n, Reply(c, answer, n),
             At(c, "sent") \/ answer = "error", UNCHANGED refreshing
      PROVE  Hungry' \subseteq Hungry /\ Logging' \subseteq Logging /\ (answer = "ok" => c \notin Logging')
  <2>1. /\ Active' = Active /\ \A d \in Calls : d # c => call'[d] = call[d]
        /\ call'[c].kind = call[c].kind /\ call'[c].retry = call[c].retry
        /\ call'[c].pc = "answered" /\ call'[c].answer = answer
    BY <1>0, <1>1, Replied
  <2>2. answer # "error" => call[c].answer = "none" /\ call[c].pc = "sent"
    BY <1>0, <1>1 DEF CallsOK, At
  <2> QED BY <1>1, <2>1, <2>2 DEF Hungry, Logging, Open, At, Active
<1>2. ASSUME NEW c \in Active, Told(c) \/ LogoutServedBy(c) \/ DeletionServed(c) PROVE PairsRemain'
  <2>1. UNCHANGED <<refreshing, issued>>
    BY <1>2 DEF Told, LogoutServedBy, DeletionServed, server
  <2>2. Hungry' \subseteq Hungry /\ Logging' \subseteq Logging
    BY <1>1, <1>2, <2>1 DEF Told, LogoutServedBy, DeletionServed
  <2>3. Unissued' = Unissued
    BY <2>1 DEF Unissued
  <2> QED BY <1>0, <2>2, <2>3, FewerNeeds
<1>3. ASSUME NEW c \in Active, SignInServed(c) PROVE PairsRemain'
  <2>1. Hungry' \subseteq Hungry /\ Logging' \subseteq Logging /\ c \notin Logging'
    BY <1>1, <1>3 DEF SignInServed
  <2>2. c \in Logging
    BY <1>0, <1>3 DEF Logging, Open, SignInServed, CallsOK
  <2>3. Newest \in Unissued /\ Unissued' = Unissued \ {Newest}
    <3>1. call[c].who \in Users /\ NoPair \in Known
      BY <1>0, ActiveIs DEF Requests, Known
    <3> QED BY <1>0, <1>3, <3>1, Issues DEF SignInServed
  <2> QED BY <1>0, <2>1, <2>2, <2>3, OneServed
<1>4. CASE Exchanged
  <2>1. PICK w \in Hungry : At(w, "waiting")
    BY <1>4, SomethingIsLeft DEF Exchanged
  <2>2. call' = call /\ Active' = Active /\ refreshing'.pc = "ok"
    BY <1>4 DEF Exchanged, Active
  <2>3. Hungry' \subseteq Hungry /\ Logging' \subseteq Logging /\ w \notin Hungry'
    BY <1>4, <2>1, <2>2 DEF Exchanged, Hungry, Logging, Open, At
  <2>4. Newest \in Unissued /\ Unissued' = Unissued \ {Newest}
    <3>1. refreshing.pair \in IssuedPairs
      BY <1>0, <1>4 DEF Exchanged, TypeOK, IssuedPairs
    <3>2. Owner(refreshing.pair) \in Users /\ Root(refreshing.pair) \in Known
      BY <1>0, <3>1, IssuedIs DEF Lineage, Known
    <3> QED BY <1>0, <1>4, <3>2, Issues DEF Exchanged
  <2> QED BY <1>0, <2>1, <2>3, <2>4, OneServed
<1>5. CASE Refused
  <2>1. call' = call /\ Active' = Active /\ refreshing'.pc = "refused" /\ Unissued' = Unissued
    BY <1>5 DEF Refused, Active, Unissued, server
  <2>2. Hungry' \subseteq Hungry /\ Logging' \subseteq Logging
    BY <2>1 DEF Hungry, Logging, Open, At
  <2> QED BY <1>0, <2>1, <2>2, FewerNeeds
<1>6. ASSUME NEW c \in Active, Waits(c) PROVE PairsRemain'
  <2>1. /\ Active' = Active /\ \A d \in Calls : d # c => call'[d] = call[d]
        /\ call'[c].kind = call[c].kind /\ call'[c].retry = call[c].retry
        /\ call'[c].pc = "waiting" /\ call'[c].answer = call[c].answer /\ call[c].pc = "answered"
    BY <1>0, <1>6, Waited DEF Waits, At
  <2>2. \A d \in Active : At(d, "waiting") => refreshing # NoRefresh
    BY <1>0 DEF TypeOK, Active
  <2>3. \A d \in Active : At(d, "waiting") => refreshing' = refreshing
    BY <1>6, <2>2 DEF Waits
  <2>4. Hungry' \subseteq Hungry /\ Logging' \subseteq Logging
    BY <2>1, <2>3 DEF Hungry, Logging, Open, At, Active
  <2>5. Unissued' = Unissued
    BY <1>6 DEF Waits, Unissued, server
  <2> QED BY <1>0, <2>4, <2>5, FewerNeeds
<1>7. ASSUME NEW c \in Active, Ends(c) PROVE PairsRemain'
  <2>1. Active' = Active \ {c} /\ \A d \in Calls : d # c => call'[d] = call[d]
    BY <1>0, <1>7, Ended DEF Ends
  <2>2. UNCHANGED <<refreshing, Unissued>>
    BY <1>7 DEF Ends, server, Unissued
  <2>3. \A d \in Open' : d \in Open /\ call'[d] = call[d]
    BY <2>1 DEF Open, At, Active
  <2>4. Hungry' \subseteq Hungry
    BY <2>2, <2>3 DEF Hungry, At
  <2>5. Logging' \subseteq Logging
    BY <2>3 DEF Logging
  <2> QED BY <1>0, <2>2, <2>4, <2>5, FewerNeeds
<1>8. ASSUME NEW c \in Calls, NEW kind \in Kinds, NEW who \in Users, Start(c, kind, who) PROVE PairsRemain'
  <2>1. /\ Active' = Active \cup {c} /\ \A d \in Calls : d # c => call'[d] = call[d]
        /\ call'[c].kind = kind /\ UNCHANGED <<refreshing, Unissued>>
    <3>1. /\ Active' = Active \cup {c} /\ \A d \in Calls : d # c => call'[d] = call[d]
          /\ call'[c].kind = kind
      BY <1>0, <1>8, Started
    <3>2. UNCHANGED <<refreshing, Unissued>>
      BY <1>8 DEF Start, server, Unissued
    <3> QED BY <3>1, <3>2
  <2>2. /\ Hungry' \subseteq Active \cup {c}
        /\ Logging' \subseteq Under("login") \cup (IF kind = "login" THEN {c} ELSE {})
    BY <2>1 DEF Hungry, Logging, Open, Under, Active
  <2>3. Cardinality(Active) + Cardinality(Under("login")) + (IF kind = "login" THEN 2 ELSE 1)
          <= Cardinality(Unissued)
    <3>1. setting.spare \in Nat
      BY <1>0, SettingsAssumption DEF TypeOK
    <3>2. Cardinality(Active) + Cardinality(Under("login")) + (IF kind = "login" THEN 2 ELSE 1)
            + setting.spare <= Cardinality(Unissued)
      BY <1>8 DEF Start
    <3>3. Cardinality(Active) \in Nat /\ Cardinality(Under("login")) \in Nat /\ Cardinality(Unissued) \in Nat
      <4>1. Active \subseteq Calls /\ Under("login") \subseteq Calls
        BY DEF Active, Under
      <4> QED BY <4>1, UnissuedFinite, FS_Subset, FS_CardinalityType
    <3> QED BY <3>1, <3>2, <3>3
  <2>4. IsFiniteSet(Active) /\ IsFiniteSet(Under("login")) /\ IsFiniteSet(Unissued)
    <3>1. Active \subseteq Calls /\ Under("login") \subseteq Calls
      BY DEF Active, Under
    <3> QED BY <3>1, UnissuedFinite, FS_Subset
  <2>5. /\ IsFiniteSet(Active \cup {c}) /\ Cardinality(Active \cup {c}) <= Cardinality(Active) + 1
        /\ IsFiniteSet(Under("login") \cup {c})
        /\ Cardinality(Under("login") \cup {c}) <= Cardinality(Under("login")) + 1
    <3>1. Cardinality(Active) \in Nat /\ Cardinality(Under("login")) \in Nat
      BY <2>4, FS_CardinalityType
    <3>2. /\ IsFiniteSet(Active \cup {c})
          /\ Cardinality(Active \cup {c}) = IF c \in Active THEN Cardinality(Active)
                                             ELSE Cardinality(Active) + 1
      BY <2>4, FS_AddElement
    <3>3. /\ IsFiniteSet(Under("login") \cup {c})
          /\ Cardinality(Under("login") \cup {c}) =
               IF c \in Under("login") THEN Cardinality(Under("login"))
               ELSE Cardinality(Under("login")) + 1
      BY <2>4, FS_AddElement
    <3> QED BY <3>1, <3>2, <3>3
  <2>6. Cardinality(Hungry') <= Cardinality(Active \cup {c}) /\ IsFiniteSet(Hungry')
    BY <2>2, <2>5, FS_Subset
  <2>7. /\ IsFiniteSet(Logging')
        /\ Cardinality(Logging') <= Cardinality(Under("login")) + (IF kind = "login" THEN 1 ELSE 0)
    <3>1. CASE kind = "login"
      <4>1. Cardinality(Logging') <= Cardinality(Under("login") \cup {c}) /\ IsFiniteSet(Logging')
        BY <2>2, <2>5, <3>1, FS_Subset
      <4> QED BY <2>4, <2>5, <3>1, <4>1, FS_CardinalityType
    <3>2. CASE kind # "login"
      <4>1. Cardinality(Logging') <= Cardinality(Under("login")) /\ IsFiniteSet(Logging')
        BY <2>2, <2>4, <3>2, FS_Subset
      <4> QED BY <2>4, <3>2, <4>1, FS_CardinalityType
    <3> QED BY <3>1, <3>2
  <2>8. /\ Cardinality(Active) \in Nat /\ Cardinality(Under("login")) \in Nat
        /\ Cardinality(Unissued) \in Nat /\ Cardinality(Hungry') \in Nat /\ Cardinality(Logging') \in Nat
        /\ Cardinality(Active \cup {c}) \in Nat
    BY <2>4, <2>5, <2>6, <2>7, FS_CardinalityType
  <2>9. Cardinality(Hungry') + Cardinality(Logging') <= Cardinality(Unissued)
    <3>1. CASE kind = "login"
      BY <2>3, <2>5, <2>6, <2>7, <2>8, <3>1
    <3>2. CASE kind # "login"
      BY <2>3, <2>5, <2>6, <2>7, <2>8, <3>2
    <3> QED BY <3>1, <3>2
  <2> QED BY <2>1, <2>9 DEF PairsRemain
<1>9. CASE RefreshDone
  <2>1. Unissued' = Unissued /\ (Resend \/ GiveUp)
    BY <1>9 DEF RefreshDone, server, Unissued
  <2>2. CASE Resend
    <3>1. /\ Active' = Active /\ \A d \in Calls : ~At(d, "waiting") => call'[d] = call[d]
          /\ \A d \in Calls : At(d, "waiting") => ~call'[d].retry /\ call'[d].kind = call[d].kind
          /\ \A d \in Calls : ~At(d, "waiting")'
      BY <1>0, <2>2, Resent
    <3>2. \A d \in Active : At(d, "waiting") => call[d].answer = "401"
      BY <1>0 DEF CallsOK
    <3>3. Hungry' \subseteq Hungry /\ Logging' \subseteq Logging
      BY <3>1, <3>2 DEF Hungry, Logging, Open, Active
    <3> QED BY <1>0, <2>1, <3>3, FewerNeeds
  <2>3. CASE GiveUp
    <3>1. Active' \subseteq Active /\ \A d \in Active' : call'[d] = call[d] /\ ~At(d, "waiting")
      BY <1>0, <2>3, GivenUp DEF Active
    <3>2. Hungry' \subseteq Hungry /\ Logging' \subseteq Logging
      BY <3>1 DEF Hungry, Logging, Open
    <3> QED BY <1>0, <2>1, <3>2, FewerNeeds
  <2> QED BY <2>1, <2>2, <2>3
<1>10. CASE Relaunch
  <2>1. Active' = {} /\ Unissued' = Unissued
    BY <1>10 DEF Relaunch, Active, server, Unissued
  <2>2. Hungry' \subseteq Hungry /\ Logging' \subseteq Logging
    BY <2>1 DEF Hungry, Logging, Open
  <2> QED BY <1>0, <2>1, <2>2, FewerNeeds
<1>11. CASE Ages \/ UNCHANGED vars
  <2>1. Active' = Active /\ Unissued' = Unissued /\ UNCHANGED <<call, refreshing>>
    BY <1>11 DEF Ages, vars, Active, Unissued, server
  <2>2. Hungry' \subseteq Hungry /\ Logging' \subseteq Logging
    BY <2>1 DEF Hungry, Logging, Open, At
  <2> QED BY <1>0, <2>1, <2>2, FewerNeeds
<1> QED BY <1>2, <1>3, <1>4, <1>5, <1>6, <1>7, <1>8, <1>9, <1>10, <1>11, Steps

-----------------------------------------------------------------------------
(* The server's side.                                                      *)

\* The sign-in of a logout that ends in force.
LEMMA LeftIs ==
  ASSUME IInv, NEW c \in Active, Ends(c)
  PROVE  /\ left' = left \/ /\ LogoutDone(c) /\ call[c].kind = "logout" /\ call[c].answer = "ok"
                            /\ call[c].held = tokens /\ refreshing = NoRefresh
                            /\ left' = left \cup {Root(tokens)} /\ tokens \in IssuedPairs
<1>0. CallsOK /\ StoreOK
  BY DEF IInv
<1>1. CASE LogoutDone(c)
  <2>1. /\ call[c].kind = "logout"
        /\ left' = IF call[c].answer = "ok" /\ call[c].held = tokens /\ refreshing = NoRefresh
                   THEN left \cup {Root(tokens)} ELSE left
    BY <1>1 DEF LogoutDone
  <2>2. call[c].held # NoPair
    BY <1>0, <2>1 DEF CallsOK
  <2> QED BY <1>0, <1>1, <2>1, <2>2 DEF StoreOK, Known
<1>2. CASE ~LogoutDone(c)
  BY <1>2 DEF Ends, Failed, LoginDone, ProfileDone, DeleteDone, history
<1> QED BY <1>1, <1>2

LEMMA LineageNext == ASSUME IInv, [Next]_vars PROVE Lineage' /\ live' \subseteq IssuedPairs'
<1>0. CallsOK /\ TypeOK /\ StoreOK /\ Numbered /\ Lineage /\ live \subseteq IssuedPairs
  BY DEF IInv, TypeOK, IssuedPairs
<1>1. issued' \in [Pairs -> [user : Users \cup {None}, root : Pairs \cup {NoPair}]]
  BY PairsKept
<1>2. ASSUME UNCHANGED issued, live' \subseteq live,
             \A n \in live' : Owner(n) \notin deleted', left' \subseteq IssuedPairs
      PROVE  Lineage' /\ live' \subseteq IssuedPairs'
  <2>1. IssuedPairs' = IssuedPairs
    BY <1>2 DEF IssuedPairs, Unissued
  <2>2. \A n : Owner(n)' = Owner(n) /\ Root(n)' = Root(n)
    BY <1>2 DEF Owner, Root
  <2>3. \A n \in IssuedPairs' : Root(n)' \in IssuedPairs' /\ Owner(Root(n))' = Owner(n)'
    <3>1. \A n \in IssuedPairs : issued[n].root \in IssuedPairs /\ n # NoPair /\
                                 issued[issued[n].root].user = issued[n].user
      BY <1>0, IssuedIs DEF Lineage
    <3>2. \A n \in IssuedPairs : n # NoPair
      BY <1>0, IssuedIs
    <3> QED BY <1>2, <2>1, <3>1, <3>2 DEF Root, Owner
  <2>4. /\ \A n \in live' : Owner(n)' \notin deleted'
        /\ \A n, m \in live' : Root(n)' = Root(m)' => n = m
    BY <1>0, <1>2, <2>2 DEF Lineage
  <2> QED BY <1>0, <1>1, <1>2, <2>1, <2>3, <2>4 DEF Lineage
<1>3. ASSUME NEW u \in Users, NEW root \in Known, u \notin deleted, Unissued # {}, Issue(u, root),
             UNCHANGED <<deleted, left>>,
             root # NoPair => root \in IssuedPairs /\ Owner(root) = u,
             NEW old \in SUBSET live, live' = old \cup {Newest}, \A n \in old : Root(n) # root
      PROVE  Lineage' /\ live' \subseteq IssuedPairs'
  <2>1. /\ Newest \in Pairs /\ Newest # NoPair /\ Newest \notin Known
        /\ IssuedPairs' = IssuedPairs \cup {Newest}
        /\ issued'[Newest] = [user |-> u, root |-> IF root = NoPair THEN Newest ELSE root]
        /\ \A n \in IssuedPairs : issued'[n] = issued[n]
    BY <1>0, <1>3, Issues
  <2>2. \A n \in IssuedPairs : /\ n # NoPair /\ Owner(n)' = Owner(n) /\ Root(n)' = Root(n)
                               /\ Root(n) \in IssuedPairs
    BY <1>0, <2>1, IssuedIs DEF Owner, Root, Lineage
  <2>3. Owner(Newest) \in {None} \cup Users
    BY <1>0, <2>1 DEF Lineage, Owner
  <2> DEFINE r == IF root = NoPair THEN Newest ELSE root
  <2>4. \A n : n = Newest => Owner(n)' = u /\ Root(n)' = r
    BY <2>1 DEF Owner, Root
  <2>5. r \in IssuedPairs' /\ issued'[r].user = u
    BY <1>0, <1>3, <2>1, IssuedIs
  <2>6. \A n \in IssuedPairs' : Root(n)' \in IssuedPairs' /\ Owner(Root(n))' = Owner(n)'
    <3>1. ASSUME NEW n \in IssuedPairs'
          PROVE  Root(n)' \in IssuedPairs' /\ Owner(Root(n))' = Owner(n)'
      <4>1. CASE n = Newest
        <5>1. issued'[n].root = r /\ issued'[n].user = u /\ n # NoPair /\ r # NoPair
          BY <1>3, <2>1, <4>1
        <5> QED BY <2>5, <5>1 DEF Root, Owner
      <4>2. CASE n \in IssuedPairs
        <5>1. issued[n].root \in IssuedPairs /\ issued[n].root # NoPair /\ n # NoPair
              /\ issued[issued[n].root].user = issued[n].user
          <6>1. /\ Root(n) = issued[n].root /\ Root(n) \in IssuedPairs /\ Owner(Root(n)) = Owner(n)
                /\ Owner(n) = issued[n].user
            BY <1>0, <4>2, IssuedIs DEF Lineage
          <6>2. Root(n) # NoPair /\ Owner(Root(n)) = issued[Root(n)].user /\ n # NoPair
            BY <1>0, <4>2, <6>1, IssuedIs
          <6> QED BY <6>1, <6>2
        <5>2. issued'[n] = issued[n] /\ issued'[issued[n].root] = issued[issued[n].root]
          BY <2>1, <4>2, <5>1
        <5> QED BY <2>1, <5>1, <5>2 DEF Root, Owner
      <4> QED BY <2>1, <4>1, <4>2
    <3> QED BY <3>1
  <2>7. \A n \in live' : Owner(n)' \notin deleted'
    BY <1>0, <1>3, <2>2, <2>4 DEF Lineage
  <2>8. \A n, m \in live' : Root(n)' = Root(m)' => n = m
    <3>1. \A n \in old : Root(n)' = Root(n) /\ Root(n) \in IssuedPairs /\ Root(n) # r
      BY <1>0, <1>3, <2>1, <2>2 DEF Known
    <3>2. \A n, m \in old : Root(n) = Root(m) => n = m
      BY <1>0 DEF Lineage
    <3> QED BY <1>3, <2>4, <3>1, <3>2
  <2>9. live' \subseteq IssuedPairs' /\ left' \subseteq IssuedPairs'
    BY <1>0, <1>3, <2>1 DEF Lineage
  <2> QED BY <1>1, <2>6, <2>7, <2>8, <2>9 DEF Lineage
<1>4. ASSUME NEW c \in Active, SignInServed(c) PROVE Lineage' /\ live' \subseteq IssuedPairs'
  <2>1. call[c].who \in Users /\ NoPair \in Known
    BY <1>0, ActiveIs DEF Requests, Known
  <2>2. \A n \in live : Root(n) # NoPair
    BY <1>0, IssuedIs
  <2> QED BY <1>3, <1>4, <2>1, <2>2 DEF SignInServed, history
<1>5. CASE Exchanged
  <2>1. refreshing.pair \in live /\ refreshing.pair \in IssuedPairs
    BY <1>0, <1>5 DEF Exchanged
  <2>2. PICK u, root : u = Owner(refreshing.pair) /\ root = Root(refreshing.pair)
    OBVIOUS
  <2>3. /\ u \in Users /\ root \in IssuedPairs /\ root \in Known /\ u \notin deleted
        /\ Owner(root) = u
    BY <1>0, <2>1, <2>2, IssuedIs DEF Lineage, Known
  <2>4. \A n \in live \ {refreshing.pair} : Root(n) # root
    BY <1>0, <2>1, <2>2 DEF Lineage
  <2> QED BY <1>3, <1>5, <2>2, <2>3, <2>4 DEF Exchanged, history
<1>6. ASSUME NEW c \in Active, Told(c) \/ LogoutServedBy(c) \/ Waits(c)
      PROVE  Lineage' /\ live' \subseteq IssuedPairs'
  <2>1. UNCHANGED <<issued, deleted, left>> /\ live' \subseteq live
    BY <1>6 DEF Told, LogoutServedBy, Waits, server, history
  <2> QED BY <1>0, <1>2, <2>1 DEF Lineage
<1>7. ASSUME NEW c \in Active, DeletionServed(c) PROVE Lineage' /\ live' \subseteq IssuedPairs'
  <2>1. /\ UNCHANGED <<issued, left>> /\ live' = {n \in live : Owner(n) # Owner(call[c].sent)}
        /\ deleted' = deleted \cup {Owner(call[c].sent)}
    BY <1>7 DEF DeletionServed, history
  <2>2. live' \subseteq live /\ \A n \in live' : Owner(n) \notin deleted'
    BY <1>0, <2>1 DEF Lineage
  <2> QED BY <1>0, <1>2, <2>1, <2>2 DEF Lineage
<1>8. ASSUME NEW c \in Active, Ends(c) PROVE Lineage' /\ live' \subseteq IssuedPairs'
  <2>1. UNCHANGED <<issued, live, deleted>>
    BY <1>8 DEF Ends, server
  <2>2. left' \subseteq IssuedPairs
    BY <1>0, <1>8, LeftIs DEF Lineage
  <2> QED BY <1>0, <1>2, <2>1, <2>2 DEF Lineage
<1>9. ASSUME NEW c \in Calls, NEW kind \in Kinds, NEW who \in Users, Start(c, kind, who)
      PROVE  Lineage' /\ live' \subseteq IssuedPairs'
  BY <1>0, <1>2, <1>9 DEF Start, server, history, Lineage
<1>10. CASE Refused \/ RefreshDone \/ Ages \/ Relaunch \/ UNCHANGED vars
  <2>1. UNCHANGED <<issued, live, deleted, left>>
    BY <1>10 DEF Refused, RefreshDone, Ages, Relaunch, vars, server, history
  <2> QED BY <1>0, <1>2, <2>1 DEF Lineage
<1> QED BY <1>4, <1>5, <1>6, <1>7, <1>8, <1>9, <1>10, Steps

-----------------------------------------------------------------------------
(* The store.                                                              *)

LEMMA MishapKept == ASSUME [Next]_vars, IInv PROVE mishap \subseteq mishap' /\ (Crossed => Crossed')
<1>1. ASSUME NEW c \in Active, \/ SignInServed(c) \/ Told(c) \/ LogoutServedBy(c)
                               \/ DeletionServed(c) \/ Waits(c)
      PROVE  mishap' = mishap
  BY <1>1 DEF SignInServed, Told, LogoutServedBy, DeletionServed, Waits, history
<1>2. ASSUME NEW c \in Active, Ends(c) PROVE mishap \subseteq mishap'
  BY <1>2 DEF Ends, Failed, LoginDone, ProfileDone, LogoutDone, DeleteDone, SignOut, history
<1>3. ASSUME NEW c \in Calls, NEW kind \in Kinds, NEW who \in Users, Start(c, kind, who)
      PROVE  mishap' = mishap
  BY <1>3 DEF Start, history
<1>4. ASSUME Exchanged \/ Refused \/ RefreshDone \/ Ages \/ Relaunch \/ UNCHANGED vars
      PROVE  mishap \subseteq mishap'
  BY <1>4 DEF Exchanged, Refused, RefreshDone, SignOut, Ages, Relaunch, vars, history
<1>5. mishap \subseteq mishap'
  BY <1>1, <1>2, <1>3, <1>4, Steps
<1> QED BY <1>5 DEF Crossed

\* Pairs of the same sign-in are the same user's.
LEMMA SameRoot ==
  ASSUME Lineage, NEW n \in Known, NEW m \in Known, Root(n) = Root(m)
  PROVE  Owner(n) = Owner(m) /\ (n = NoPair <=> m = NoPair)
<1>1. Root(NoPair) = NoPair /\ Owner(NoPair) = None
  BY DEF Root, Owner
<1>2. \A x \in Known : x # NoPair => x \in IssuedPairs
  BY DEF Known
<1>3. \A x \in IssuedPairs : Root(x) # NoPair /\ Owner(Root(x)) = Owner(x)
  BY IssuedIs DEF Lineage
<1> QED BY <1>1, <1>2, <1>3

\* The owner and the sign-in of a pair, seen from the next state.
LEMMA PairThen ==
  ASSUME IInv, [Next]_vars, NEW n \in Known
  PROVE  /\ tokens' = n => Owner(tokens)' = Owner(n) /\ Root(tokens)' = Root(n)
         /\ refreshing'.pair = n => Owner(refreshing.pair)' = Owner(n) /\ Root(refreshing.pair)' = Root(n)
         /\ \A c : call'[c].held = n => Owner(call[c].held)' = Owner(n) /\ Root(call[c].held)' = Root(n)
         /\ \A c : call'[c].sent = n => Owner(call[c].sent)' = Owner(n) /\ Root(call[c].sent)' = Root(n)
         /\ \A c : call'[c].pair = n => Owner(call[c].pair)' = Owner(n) /\ Root(call[c].pair)' = Root(n)
         /\ Owner(n)' = Owner(n) /\ Root(n)' = Root(n)
<1>1. n # NoPair => issued'[n] = issued[n]
  BY PairsKept DEF Known
<1> QED BY <1>1 DEF Owner, Root

\* The store follows three kinds of steps.
StoreKept == UNCHANGED <<user, tokens, api>>
SignedOut == user' = None /\ tokens' = NoPair /\ api' = NoPair

LEMMA LoginDoneIs ==
  ASSUME IInv, NEW c \in Active, Ends(c), LoginDone(c)
  PROVE  /\ user' = call[c].who /\ tokens' = call[c].pair /\ api' = call[c].pair /\ UNCHANGED history
         /\ call[c].kind = "login" /\ c \in Under("login") /\ call[c].answer = "ok"
         /\ call[c].who \in Users /\ call[c].pair \in IssuedPairs /\ Owner(call[c].pair) = call[c].who
         /\ Root(call[c].pair) = call[c].pair /\ NobodyHas(call[c].pair) /\ (~Crossed => user = None)
         /\ (call[c].pair \in live \/ call[c].who \in deleted)
<1>0. CallsOK /\ SignInPending
  BY DEF IInv
<1>1. /\ user' = call[c].who /\ tokens' = call[c].pair /\ api' = call[c].pair /\ UNCHANGED history
      /\ call[c].kind = "login" /\ call[c].answer = "ok"
  BY DEF LoginDone, setAuth
<1>2. c \in Under("login") /\ call[c].who \in Users
  BY <1>0, <1>1, ActiveIs DEF Under, Requests
<1> QED BY <1>0, <1>1, <1>2 DEF SignInPending

\* A profile that is saved leaves the tokens to the same sign-in, or crosses.
LEMMA ProfileDoneIs ==
  ASSUME IInv, NEW c \in Active, Ends(c), ProfileDone(c)
  PROVE  /\ call[c].held \in IssuedPairs /\ tokens' = call[c].held /\ api' = call[c].held
         /\ user' = Owner(call[c].sent) /\ left' = left
         /\ ~Crossed' => /\ Root(call[c].held) = Root(tokens) /\ Owner(call[c].held) = Owner(tokens)
                         /\ Owner(call[c].sent) = Owner(tokens) /\ tokens # NoPair
         /\ mishap' = {} => call[c].held = tokens
<1>0. CallsOK /\ SentOwn /\ StoreOK /\ Lineage
  BY DEF IInv
<1>1. call[c].held \in IssuedPairs /\ call[c].held # NoPair /\ call[c].sent \in Known
  BY <1>0, ActiveIs DEF ProfileDone, CallsOK, Requests, Known
<1>2. /\ tokens' = call[c].held /\ api' = call[c].held /\ user' = Owner(call[c].sent) /\ left' = left
  BY <1>1 DEF ProfileDone, setAuth
<1>3. mishap' = mishap \cup (IF Root(call[c].held) # Root(tokens) THEN {"crossed"}
                             ELSE IF call[c].held # tokens THEN {"undone"} ELSE {})
  BY DEF ProfileDone
<1>4. mishap' = {} => call[c].held = tokens
  BY <1>3
<1>5. ASSUME ~Crossed'
      PROVE  /\ Root(call[c].held) = Root(tokens) /\ Owner(call[c].held) = Owner(tokens)
             /\ Owner(call[c].sent) = Owner(tokens) /\ tokens # NoPair
  <2>1. Root(call[c].held) = Root(tokens) /\ ~Crossed
    BY <1>3, <1>5 DEF Crossed
  <2>2. Owner(call[c].held) = Owner(tokens) /\ tokens # NoPair
    BY <1>0, <1>1, <2>1, SameRoot DEF Known, StoreOK
  <2>3. Root(call[c].sent) = Root(tokens)
    BY <1>0, <2>1 DEF SentOwn, ProfileDone
  <2> QED BY <1>0, <1>1, <2>1, <2>2, <2>3, SameRoot DEF StoreOK
<1> QED BY <1>1, <1>2, <1>4, <1>5

LEMMA SignOutIs ==
  ASSUME NEW n, NEW r, SignOut(n, r)
  PROVE  /\ SignedOut
         /\ ~Crossed' => /\ ~Crossed /\ r.pc \notin {"sent", "ok"}
                         /\ (user = None \/ Root(n) = Root(tokens))
         /\ ~Crossed' => mishap' = mishap
BY DEF SignOut, clearAuth, SignedOut, Crossed

\* What an ended call leaves in the store.
LEMMA EndsStore ==
  ASSUME NEW c \in Active, Ends(c)
  PROVE  \/ StoreKept /\ mishap' = mishap
         \/ api = NoPair /\ SignedOut /\ UNCHANGED history
         \/ LoginDone(c) \/ ProfileDone(c)
         \/ LogoutDone(c) /\ SignOut(call[c].held, refreshing)
         \/ DeleteDone(c) /\ SignOut(call[c].held, refreshing) /\ left' = left
<1>1. CASE Failed(c)
  BY <1>1 DEF Failed, StoreKept, store, history
<1>2. CASE LogoutDone(c) \/ DeleteDone(c)
  BY <1>2 DEF LogoutDone, DeleteDone
<1> QED BY <1>1, <1>2 DEF Ends, clearAuth, SignedOut

\* What the other steps do to it.
LEMMA OthersStore ==
  ASSUME IInv, [Next]_vars
  PROVE  \/ StoreKept /\ api' = tokens'
         \/ \E c \in Active : Setup /\ Ends(c)
         \/ RefreshDone
<1>0. api = tokens
  BY DEF IInv, TypeOK
<1>1. ASSUME NEW c \in Active, \/ SignInServed(c) \/ Told(c) \/ LogoutServedBy(c)
                               \/ DeletionServed(c) \/ Waits(c)
      PROVE  StoreKept
  BY <1>1 DEF SignInServed, Told, LogoutServedBy, DeletionServed, Waits, store, StoreKept
<1>2. ASSUME Exchanged \/ Refused \/ Ages \/ UNCHANGED vars PROVE StoreKept
  BY <1>2 DEF Exchanged, Refused, Ages, vars, store, StoreKept
<1>3. ASSUME Relaunch PROVE StoreKept
  BY <1>0, <1>3 DEF Relaunch, StoreKept, store
<1>4. ASSUME NEW c \in Calls, NEW kind \in Kinds, NEW who \in Users, Start(c, kind, who)
      PROVE  StoreKept
  BY <1>4 DEF Start, StoreKept, store
<1>5. StoreKept => api' = tokens'
  BY <1>0 DEF StoreKept
<1> QED BY <1>1, <1>2, <1>3, <1>4, <1>5, Steps

\* And to the refresh.
RefreshKept == UNCHANGED refreshing
RefreshOver == refreshing' = NoRefresh
LEMMA RefreshSteps ==
  ASSUME IInv, [Next]_vars
  PROVE  \/ RefreshKept
         \/ \E c \in Active : Setup /\ Waits(c) /\ refreshing' = [pc |-> "sent", pair |-> api]
                              /\ refreshing = NoRefresh
         \/ Exchanged \/ Refused \/ RefreshDone \/ Relaunch
<1>1. ASSUME NEW c \in Active, \/ SignInServed(c) \/ Told(c) \/ LogoutServedBy(c)
                               \/ DeletionServed(c) \/ Ends(c)
      PROVE  RefreshKept
  BY <1>1 DEF SignInServed, Told, LogoutServedBy, DeletionServed, Ends, RefreshKept
<1>2. ASSUME NEW c \in Active, Setup /\ Waits(c)
      PROVE  \/ RefreshKept
             \/ Setup /\ Waits(c) /\ refreshing' = [pc |-> "sent", pair |-> api] /\ refreshing = NoRefresh
  BY <1>2 DEF Waits, RefreshKept
<1>3. CASE Ages \/ UNCHANGED vars
  BY <1>3 DEF Ages, vars, RefreshKept
<1>4. CASE \E c \in Calls, kind \in Kinds, who \in Users : Start(c, kind, who)
  BY <1>4 DEF Start, RefreshKept
<1> QED BY <1>1, <1>2, <1>3, <1>4, Steps

\* The end of a refresh.
LEMMA RefreshDoneIs ==
  ASSUME RefreshDone
  PROVE  /\ refreshing' = NoRefresh /\ UNCHANGED <<setting, server, left, launches>>
         /\ \/ /\ refreshing.pc = "ok" /\ user' = user /\ tokens' = refreshing.pair
               /\ api' = refreshing.pair /\ Resend /\ mishap' = mishap
            \/ /\ refreshing.pc = "refused" /\ GiveUp /\ SignOut(refreshing.pair, NoRefresh)
               /\ SignedOut
BY SignOutIs DEF RefreshDone, updateTokens

LEMMA RefreshTyped ==
  ASSUME IInv, [Next]_vars
  PROVE  /\ refreshing' \in [pc : {"none", "sent", "ok", "refused"}, pair : Known']
         /\ refreshing'.pc # "none" => refreshing'.pair # NoPair
         /\ refreshing'.pc = "none" => refreshing' = NoRefresh
<1>0. StoreOK /\ TypeOK /\ Numbered /\ Lineage
  BY DEF IInv
<1>1. Known \subseteq Known' /\ NoPair \in Known'
  BY PairsKept DEF Known
<1>2. CASE RefreshKept
  BY <1>0, <1>1, <1>2 DEF RefreshKept, StoreOK
<1>3. ASSUME NEW c \in Active, Waits(c), refreshing' = [pc |-> "sent", pair |-> api]
      PROVE  /\ refreshing' \in [pc : {"none", "sent", "ok", "refused"}, pair : Known']
             /\ refreshing'.pc # "none" /\ refreshing'.pair # NoPair
  <2>1. api \in Known /\ api # NoPair
    BY <1>0, <1>3 DEF Waits, TypeOK, StoreOK
  <2> QED BY <1>1, <1>3, <2>1
<1>4. CASE Exchanged
  <2>1. refreshing.pair \in IssuedPairs
    BY <1>0, <1>4 DEF Exchanged, TypeOK, IssuedPairs
  <2>2. Owner(refreshing.pair) \in Users /\ Root(refreshing.pair) \in Known
    BY <1>0, <2>1, IssuedIs DEF Lineage, Known
  <2>3. Newest \in Known' /\ Newest # NoPair
    BY <1>0, <1>4, <2>2, Issues DEF Exchanged
  <2> QED BY <1>4, <2>3 DEF Exchanged
<1>5. CASE Refused
  <2>1. refreshing' = [pc |-> "refused", pair |-> refreshing.pair] /\ refreshing.pc # "none"
    BY <1>5 DEF Refused
  <2> QED BY <1>0, <1>1, <2>1 DEF StoreOK
<1>6. CASE refreshing' = NoRefresh
  BY <1>1, <1>6 DEF NoRefresh
<1> QED BY <1>2, <1>3, <1>4, <1>5, <1>6, RefreshSteps, RefreshDoneIs DEF Relaunch

LEMMA StoreOKNext == ASSUME IInv, [Next]_vars PROVE StoreOK' /\ api' = tokens' /\ user' \in Users \cup {None}
<1>0. StoreOK /\ TypeOK /\ CallsOK /\ Lineage /\ RefreshOwn
  BY DEF IInv
<1>1. Known \subseteq Known' /\ NoPair \in Known' /\ (Crossed => Crossed')
  BY PairsKept, MishapKept DEF Known
<1> DEFINE Good ==
      /\ tokens' \in Known' /\ api' = tokens' /\ user' \in Users \cup {None}
      /\ (user' # None => tokens' # NoPair)
      /\ ~Crossed' => /\ (user' = None => tokens' = NoPair)
                      /\ (user' # None => Owner(tokens)' = user')
<1>2. CASE StoreKept /\ api' = tokens'
  <2>1. Owner(tokens)' = Owner(tokens)
    BY <1>0, <1>2, PairThen DEF StoreKept, StoreOK
  <2>2. Good
    BY <1>0, <1>1, <1>2, <2>1 DEF StoreKept, StoreOK, TypeOK
  <2> QED BY <2>2, RefreshTyped DEF StoreOK
<1>3. CASE SignedOut
  <2>1. Good
    BY <1>1, <1>3 DEF SignedOut
  <2> QED BY <2>1, RefreshTyped DEF StoreOK
<1>4. ASSUME NEW c \in Active, Ends(c), LoginDone(c) PROVE Good
  <2>1. /\ user' = call[c].who /\ tokens' = call[c].pair /\ api' = call[c].pair
        /\ call[c].who \in Users /\ call[c].pair \in IssuedPairs /\ Owner(call[c].pair) = call[c].who
    BY <1>4, LoginDoneIs
  <2>2. call[c].pair \in Known /\ call[c].pair # NoPair
    BY <1>0, <2>1, IssuedIs DEF Known
  <2>3. Owner(tokens)' = call[c].who
    BY <2>1, <2>2, PairThen
  <2> QED BY <1>1, <2>1, <2>2, <2>3, TokensAssumption
<1>5. ASSUME NEW c \in Active, Ends(c), ProfileDone(c) PROVE Good
  <2>1. /\ call[c].held \in IssuedPairs /\ tokens' = call[c].held /\ api' = call[c].held
        /\ user' = Owner(call[c].sent)
        /\ ~Crossed' => /\ Owner(call[c].held) = Owner(tokens) /\ Owner(call[c].sent) = Owner(tokens)
    BY <1>5, ProfileDoneIs
  <2>2. call[c].held \in Known /\ call[c].held # NoPair /\ Owner(call[c].held) # None
    BY <1>0, <2>1, IssuedIs DEF Known
  <2>3. Owner(tokens)' = Owner(call[c].held)
    BY <2>1, <2>2, PairThen
  <2>4. Owner(call[c].sent) \in Users \cup {None}
    <3>1. call[c].sent \in Known
      BY <1>0, ActiveIs DEF Requests
    <3>2. Owner(NoPair) = None
      BY DEF Owner
    <3> QED BY <1>0, <3>1, <3>2, IssuedIs DEF Known
  <2> QED BY <1>1, <2>1, <2>2, <2>3, <2>4
<1>6. ASSUME NEW c \in Active, Ends(c), \/ StoreKept /\ mishap' = mishap
                                        \/ LoginDone(c) \/ ProfileDone(c)
      PROVE  StoreOK' /\ api' = tokens' /\ user' \in Users \cup {None}
  <2>1. CASE StoreKept
    <3>1. api' = tokens'
      BY <1>0, <2>1 DEF StoreKept, TypeOK
    <3> QED BY <1>2, <2>1, <3>1
  <2>2. CASE LoginDone(c) \/ ProfileDone(c)
    <3>1. Good
      BY <1>4, <1>5, <1>6, <2>2
    <3> QED BY <3>1, RefreshTyped DEF StoreOK
  <2> QED BY <1>6, <2>1, <2>2
<1>7. CASE RefreshDone
  <2>1. CASE refreshing.pc = "ok"
    <3>1. user' = user /\ tokens' = refreshing.pair /\ api' = refreshing.pair
      BY <1>7, <2>1, RefreshDoneIs
    <3>2. refreshing.pair \in Known /\ refreshing.pair # NoPair
      BY <1>0, <2>1 DEF StoreOK
    <3>3. Owner(tokens)' = Owner(refreshing.pair)
      BY <3>1, <3>2, PairThen
    <3>4. ~Crossed => user # None /\ Owner(refreshing.pair) = Owner(tokens)
      BY <1>0, <2>1, <3>2, SameRoot DEF RefreshOwn, StoreOK
    <3>5. Good
      BY <1>0, <1>1, <3>1, <3>2, <3>3, <3>4 DEF StoreOK, TypeOK
    <3> QED BY <3>5, RefreshTyped DEF StoreOK
  <2>2. CASE refreshing.pc = "refused"
    BY <1>3, <1>7, <2>2, RefreshDoneIs
  <2> QED BY <1>7, <2>1, <2>2, RefreshDoneIs
<1>8. ASSUME NEW c \in Active, Ends(c)
      PROVE  StoreOK' /\ api' = tokens' /\ user' \in Users \cup {None}
  <2>1. \A n, r : SignOut(n, r) => SignedOut
    BY SignOutIs
  <2> QED BY <1>3, <1>6, <1>8, <2>1, EndsStore
<1> QED BY <1>2, <1>7, <1>8, OthersStore

LEMMA WaitingNext ==
  ASSUME IInv, [Next]_vars
  PROVE  (refreshing' # NoRefresh) <=> \E c \in Calls : At(c, "waiting")'
<1>0. TypeOK /\ CallsOK /\ StoreOK
  BY DEF IInv
<1>1. ASSUME UNCHANGED refreshing, \A d \in Calls : At(d, "waiting")' <=> At(d, "waiting")
      PROVE  (refreshing' # NoRefresh) <=> \E c \in Calls : At(c, "waiting")'
  BY <1>0, <1>1 DEF TypeOK
<1>2. ASSUME NEW c \in Active, NEW answer, NEW n, Reply(c, answer, n), UNCHANGED refreshing,
             At(c, "sent") \/ At(c, "answered")
      PROVE  (refreshing' # NoRefresh) <=> \E d \in Calls : At(d, "waiting")'
  <2>1. call'[c].pc = "answered" /\ (\A d \in Calls : d # c => call'[d] = call[d])
    BY <1>0, <1>2, Replied
  <2> QED BY <1>1, <1>2, <2>1 DEF At
<1>3. ASSUME NEW c \in Active, SignInServed(c) \/ Told(c) \/ LogoutServedBy(c) \/ DeletionServed(c)
      PROVE  (refreshing' # NoRefresh) <=> \E d \in Calls : At(d, "waiting")'
  BY <1>2, <1>3 DEF SignInServed, Told, LogoutServedBy, DeletionServed
<1>4. ASSUME NEW c \in Active, Ends(c)
      PROVE  (refreshing' # NoRefresh) <=> \E d \in Calls : At(d, "waiting")'
  <2>1. call'[c] = Idle /\ (\A d \in Calls : d # c => call'[d] = call[d])
    BY <1>0, <1>4, Ended DEF Ends
  <2> QED BY <1>1, <1>4, <2>1 DEF At, Ends, Idle
<1>5. ASSUME NEW c \in Active, Waits(c)
      PROVE  (refreshing' # NoRefresh) <=> \E d \in Calls : At(d, "waiting")'
  <2>1. c \in Calls /\ At(c, "waiting")'
    BY <1>0, <1>5, Waited, ActiveIs DEF At
  <2>2. refreshing' # NoRefresh
    BY <1>5 DEF Waits, NoRefresh
  <2> QED BY <2>1, <2>2
<1>6. ASSUME NEW c \in Calls, NEW kind \in Kinds, NEW who \in Users, Start(c, kind, who)
      PROVE  (refreshing' # NoRefresh) <=> \E d \in Calls : At(d, "waiting")'
  <2>1. call[c] = Idle /\ call'[c].pc = "sent" /\ (\A d \in Calls : d # c => call'[d] = call[d])
    BY <1>0, <1>6, Started
  <2> QED BY <1>1, <1>6, <2>1 DEF At, Start, Idle
<1>7. CASE Exchanged \/ Refused
  <2>1. call' = call /\ refreshing'.pc \in {"ok", "refused"} /\ refreshing.pc # "none"
    BY <1>7 DEF Exchanged, Refused
  <2>2. \E d \in Calls : At(d, "waiting")
    BY <1>0, <2>1 DEF TypeOK, NoRefresh
  <2> QED BY <2>1, <2>2 DEF At, NoRefresh
<1>8. CASE RefreshDone
  <2>1. refreshing' = NoRefresh /\ (Resend \/ GiveUp)
    BY <1>8, RefreshDoneIs
  <2>2. \A d \in Calls : ~At(d, "waiting")'
    BY <1>0, <2>1, Resent, GivenUp
  <2> QED BY <2>1, <2>2
<1>9. CASE Relaunch
  BY <1>9 DEF Relaunch, At, Idle
<1>10. CASE Ages \/ UNCHANGED vars
  BY <1>1, <1>10 DEF Ages, vars, At
<1> QED BY <1>3, <1>4, <1>5, <1>6, <1>7, <1>8, <1>9, <1>10, Steps

LEMMA TypeOKNext == ASSUME IInv, [Next]_vars PROVE TypeOK'
<1>0. TypeOK /\ CallsOK /\ StoreOK /\ Numbered /\ Lineage
  BY DEF IInv
<1>1. CallsOK' /\ StoreOK' /\ Lineage' /\ api' = tokens' /\ user' \in Users \cup {None} /\ live' \subseteq IssuedPairs'
  BY CallsOKNext, StoreOKNext, LineageNext
<1>2. fresh' \subseteq IssuedPairs'
  <2>1. IssuedPairs \subseteq IssuedPairs' /\ fresh \subseteq IssuedPairs
    BY <1>0, PairsKept DEF TypeOK, IssuedPairs
  <2>2. ASSUME NEW c \in Active, SignInServed(c) PROVE fresh' \subseteq IssuedPairs'
    <3>1. call[c].who \in Users /\ NoPair \in Known
      BY <1>0, ActiveIs DEF Requests, Known
    <3> QED BY <1>0, <2>1, <2>2, <3>1, Issues DEF SignInServed
  <2>3. CASE Exchanged
    <3>1. refreshing.pair \in IssuedPairs
      BY <1>0, <2>3 DEF Exchanged, TypeOK, IssuedPairs
    <3>2. Owner(refreshing.pair) \in Users /\ Root(refreshing.pair) \in Known
      BY <1>0, <3>1, IssuedIs DEF Lineage, Known
    <3> QED BY <1>0, <2>1, <2>3, <3>2, Issues DEF Exchanged
  <2>4. ASSUME NEW c \in Active, \/ Told(c) \/ LogoutServedBy(c) \/ DeletionServed(c) \/ Waits(c) \/ Ends(c)
        PROVE  fresh' = fresh
    BY <2>4 DEF Told, LogoutServedBy, DeletionServed, Waits, Ends, server
  <2>5. ASSUME NEW c \in Calls, NEW kind \in Kinds, NEW who \in Users, Start(c, kind, who)
        PROVE  fresh' = fresh
    BY <2>5 DEF Start, server
  <2>6. CASE Refused \/ RefreshDone \/ Ages \/ Relaunch \/ UNCHANGED vars
    BY <2>1, <2>6 DEF Refused, RefreshDone, Ages, Relaunch, vars, server
  <2> QED BY <2>1, <2>2, <2>3, <2>4, <2>5, <2>6, Steps
<1>3. deleted' \subseteq Users
  <2>1. ASSUME NEW c \in Active, DeletionServed(c) PROVE deleted' \subseteq Users
    BY <1>0, <2>1, IssuedIs DEF DeletionServed, TypeOK
  <2>2. ASSUME NEW c \in Active, \/ SignInServed(c) \/ Told(c) \/ LogoutServedBy(c) \/ Waits(c) \/ Ends(c)
        PROVE  deleted' = deleted
    BY <2>2 DEF SignInServed, Told, LogoutServedBy, Waits, Ends, server
  <2>3. ASSUME NEW c \in Calls, NEW kind \in Kinds, NEW who \in Users, Start(c, kind, who)
        PROVE  deleted' = deleted
    BY <2>3 DEF Start, server
  <2>4. CASE Exchanged \/ Refused \/ RefreshDone \/ Ages \/ Relaunch \/ UNCHANGED vars
    BY <1>0, <2>4 DEF Exchanged, Refused, RefreshDone, Ages, Relaunch, vars, server, TypeOK
  <2> QED BY <1>0, <2>1, <2>2, <2>3, <2>4, Steps DEF TypeOK
<1>4. mishap' \subseteq {"undone", "crossed", "lost"}
  <2>0. mishap \subseteq {"undone", "crossed", "lost"}
    BY <1>0 DEF TypeOK
  <2>1. ASSUME NEW c \in Active, \/ SignInServed(c) \/ Told(c) \/ LogoutServedBy(c)
                                 \/ DeletionServed(c) \/ Waits(c)
        PROVE  mishap' = mishap
    BY <2>1 DEF SignInServed, Told, LogoutServedBy, DeletionServed, Waits, history
  <2>2. ASSUME NEW c \in Active, Ends(c) PROVE mishap' \subseteq {"undone", "crossed", "lost"}
    BY <2>0, <2>2 DEF Ends, Failed, LoginDone, ProfileDone, LogoutDone, DeleteDone, SignOut, history
  <2>3. ASSUME NEW c \in Calls, NEW kind \in Kinds, NEW who \in Users, Start(c, kind, who)
        PROVE  mishap' = mishap
    BY <2>3 DEF Start, history
  <2>4. CASE Exchanged \/ Refused \/ RefreshDone \/ Ages \/ Relaunch \/ UNCHANGED vars
    BY <2>0, <2>4 DEF Exchanged, Refused, RefreshDone, SignOut, Ages, Relaunch, vars, history
  <2> QED BY <2>0, <2>1, <2>2, <2>3, <2>4, Steps
<1>5. setting' = setting /\ launches' \in 0 .. setting.launches
  <2>1. setting.launches \in Nat /\ launches \in 0 .. setting.launches
    BY <1>0, SettingsAssumption DEF TypeOK
  <2>2. CASE Setup
    BY <2>1, <2>2 DEF Setup
  <2>3. ASSUME NEW c \in Calls, NEW kind \in Kinds, NEW who \in Users, Start(c, kind, who)
        PROVE  Setup
    BY <2>3 DEF Start, Setup
  <2>4. CASE RefreshDone \/ Ages \/ UNCHANGED vars
    BY <2>1, <2>4 DEF RefreshDone, Ages, vars
  <2>5. CASE Relaunch
    BY <2>1, <2>5 DEF Relaunch
  <2> QED BY <2>2, <2>3, <2>4, <2>5, Steps
<1>6. \A c \in Active' : /\ call'[c].pc \in {"sent", "answered", "waiting"}
                         /\ call'[c].sent \in Pairs \cup {NoPair}
  <2>1. ASSUME NEW c \in Active' PROVE call'[c] \in Requests'
    BY <1>1, <2>1 DEF CallsOK, Active
  <2> QED BY <2>1 DEF Requests, Known, IssuedPairs
<1>7. \A n \in Pairs : Owner(n)' \in Users \cup {None} /\ Root(n)' \in Pairs \cup {NoPair}
  BY <1>1 DEF Lineage, Owner, Root
<1>8. refreshing'.pc \in {"none", "sent", "ok", "refused"} /\ tokens' \in Pairs \cup {NoPair}
      /\ left' \subseteq Pairs
  BY <1>1 DEF StoreOK, Lineage, Known, IssuedPairs
<1>9. ended' \subseteq IssuedPairs'
  BY <1>0, PairsKept DEF TypeOK, IssuedPairs
<1> QED BY <1>0, <1>1, <1>2, <1>3, <1>4, <1>5, <1>6, <1>7, <1>8, <1>9, WaitingNext DEF TypeOK, IssuedPairs

-----------------------------------------------------------------------------
(* What a step does to one call, to the sign-in in force and to the live   *)
(* tokens: the parts of the invariant that relate them follow from these.  *)

\* Another button, and the answer of its own request.
AsBefore(d) == /\ d \in Active /\ call'[d].kind = call[d].kind /\ call'[d].who = call[d].who
               /\ call'[d].held = call[d].held
JustAnswered(d) ==
  \/ SignInServed(d) /\ call'[d].pc = "answered" /\ call'[d].answer = "ok" /\ call'[d].pair = Newest
  \/ Told(d) /\ call'[d].pc = "answered" /\ (call'[d].answer = "ok" => call[d].kind = "profile")
  \/ LogoutServedBy(d) /\ call'[d].answer = "ok"
  \/ DeletionServed(d) /\ call'[d].answer = "ok"
  \/ Waits(d) /\ call'[d].answer = "401"
JustResent(d) ==
  /\ RefreshDone /\ refreshing.pc = "ok" /\ At(d, "waiting")
  /\ call'[d].answer = "none" /\ call'[d].sent = refreshing.pair
JustStarted(d) ==
  /\ d \in Calls \ Active /\ call'[d].held = tokens /\ call'[d].sent = tokens /\ call'[d].answer = "none"
  /\ (call'[d].kind = "login" <=> user = None)
  /\ StoreKept /\ RefreshKept /\ UNCHANGED <<server, history>>

LEMMA CallFrom ==
  ASSUME IInv, [Next]_vars, NEW d \in Active'
  PROVE  \/ d \in Active /\ call'[d] = call[d]
         \/ AsBefore(d) /\ call'[d].sent = call[d].sent /\ JustAnswered(d)
         \/ AsBefore(d) /\ JustResent(d)
         \/ JustStarted(d)
<1>0. CallsOK /\ TypeOK
  BY DEF IInv
<1> DEFINE Same == d \in Active /\ call'[d] = call[d]
           Goal == \/ Same \/ (AsBefore(d) /\ call'[d].sent = call[d].sent /\ JustAnswered(d))
                   \/ (AsBefore(d) /\ JustResent(d)) \/ JustStarted(d)
<1>1. d \in Calls /\ call'[d] # Idle
  BY DEF Active
<1>2. ASSUME NEW c \in Active, NEW answer, NEW n, Reply(c, answer, n)
      PROVE  Same \/ (d = c /\ AsBefore(d) /\ call'[d].sent = call[d].sent /\ call'[d].pc = "answered"
                      /\ call'[d].answer = answer /\ call'[d].pair = n)
  <2>1. /\ call'[c].pc = "answered" /\ call'[c].answer = answer /\ call'[c].pair = n
        /\ call'[c].kind = call[c].kind /\ call'[c].who = call[c].who /\ call'[c].held = call[c].held
        /\ call'[c].sent = call[c].sent /\ call'[c].retry = call[c].retry
        /\ \A e \in Calls : e # c => call'[e] = call[e]
    <3> HIDE DEF Same, Goal
    <3>1. /\ call' = [call EXCEPT ![c] = call'[c]]
          /\ call'[c] = [kind |-> call[c].kind, pc |-> "answered", who |-> call[c].who,
                         held |-> call[c].held, sent |-> call[c].sent, retry |-> call[c].retry,
                         answer |-> answer, pair |-> n]
          /\ call'[c].pc = "answered" /\ call'[c].answer = answer /\ call'[c].pair = n
          /\ call'[c].kind = call[c].kind /\ call'[c].who = call[c].who /\ call'[c].held = call[c].held
          /\ call'[c].sent = call[c].sent /\ call'[c].retry = call[c].retry
          /\ \A e \in Calls : e # c => call'[e] = call[e]
          /\ Active' = Active
      BY <1>0, <1>2, Replied
    <3> QED BY <3>1
  <2>2. CASE d = c
    BY <2>1, <2>2 DEF AsBefore
  <2>3. CASE d # c
    <3>1. call'[d] = call[d] /\ call[d] # Idle
      BY <1>1, <2>1, <2>3
    <3> QED BY <1>1, <3>1 DEF Active
  <2> QED BY <2>2, <2>3
<1>3. ASSUME NEW c \in Active, SignInServed(c) PROVE Goal
  <2>1. PICK n : n = Newest
    OBVIOUS
  <2>2. Reply(c, "ok", n)
    BY <1>3, <2>1 DEF SignInServed
  <2>3. Same \/ (d = c /\ AsBefore(d) /\ call'[d].sent = call[d].sent /\ call'[d].pc = "answered"
                 /\ call'[d].answer = "ok" /\ call'[d].pair = n)
    BY <1>2, <2>2
  <2> HIDE DEF Same
  <2> QED BY <1>3, <2>1, <2>3 DEF JustAnswered
<1>4. ASSUME NEW c \in Active, Told(c) PROVE Goal
  <2>1. PICK answer \in {"ok", "401", "error"} : /\ Reply(c, answer, NoPair)
                                                 /\ answer = "ok" => call[c].kind = "profile"
    BY <1>4 DEF Told
  <2>2. CASE d = c
    <3>1. Same \/ (AsBefore(d) /\ call'[d].sent = call[d].sent /\ call'[d].pc = "answered"
                   /\ call'[d].answer = answer)
      BY <1>2, <2>1
    <3>2. Same \/ JustAnswered(d)
      BY <1>4, <2>1, <2>2, <3>1 DEF JustAnswered
    <3> QED BY <3>1, <3>2
  <2>3. CASE d # c
    BY <1>2, <2>1, <2>3
  <2> QED BY <2>2, <2>3
<1>5. ASSUME NEW c \in Active, LogoutServedBy(c) \/ DeletionServed(c) PROVE Goal
  BY <1>2, <1>5 DEF LogoutServedBy, DeletionServed, JustAnswered
<1>6. ASSUME NEW c \in Active, Waits(c) PROVE Goal
  BY <1>0, <1>1, <1>6, Waited DEF Waits, JustAnswered, AsBefore
<1>7. ASSUME NEW c \in Active, Ends(c) PROVE Goal
  <2>1. Active' = Active \ {c} /\ \A x \in Calls : x # c => call'[x] = call[x]
    BY <1>0, <1>7, Ended DEF Ends
  <2> QED BY <1>1, <2>1
<1>8. ASSUME NEW c \in Calls, NEW kind \in Kinds, NEW who \in Users, Start(c, kind, who) PROVE Goal
  <2>1. /\ c \notin Active /\ Active' = Active \cup {c} /\ \A x \in Calls : x # c => call'[x] = call[x]
        /\ call'[c].held = tokens /\ call'[c].sent = api /\ call'[c].answer = "none" /\ call'[c].kind = kind
        /\ IF kind = "login" THEN user = None ELSE user # None /\ who = user
    BY <1>0, <1>8, Started
  <2>2. StoreKept /\ RefreshKept /\ UNCHANGED <<server, history>> /\ api = tokens
    BY <1>0, <1>8 DEF Start, StoreKept, RefreshKept, store, TypeOK
  <2> QED BY <1>1, <2>1, <2>2 DEF JustStarted
<1>9. CASE RefreshDone
  <2>1. CASE refreshing.pc = "ok"
    <3>1. Resend
      BY <1>9, <2>1, RefreshDoneIs
    <3>2. Active' = Active
      BY <1>0, <3>1, Resent
    <3> QED BY <1>0, <1>1, <1>9, <2>1, <3>1, <3>2, Resent DEF AsBefore, JustResent
  <2>2. CASE refreshing.pc = "refused"
    <3>1. GiveUp
      BY <1>9, <2>2, RefreshDoneIs
    <3> QED BY <1>0, <1>1, <3>1, GivenUp
  <2> QED BY <1>9, <2>1, <2>2, RefreshDoneIs
<1>10. CASE Relaunch
  BY <1>1, <1>10 DEF Relaunch
<1>11. CASE Exchanged \/ Refused \/ Ages \/ UNCHANGED vars
  <2>1. call' = call
    BY <1>11 DEF Exchanged, Refused, Ages, vars
  <2> QED BY <1>1, <2>1 DEF Active
<1> QED BY <1>3, <1>4, <1>5, <1>6, <1>7, <1>8, <1>9, <1>10, <1>11, Steps

\* The pair that an exchange gives is nobody's yet, and of the same sign-in.
LEMMA ExchangedIs ==
  ASSUME IInv, [Next]_vars, Exchanged
  PROVE  /\ refreshing'.pair = Newest /\ Newest \notin Known /\ Newest \in live' /\ refreshing'.pc = "ok"
         /\ Root(refreshing.pair)' = Root(refreshing.pair)
<1>0. TypeOK /\ Numbered /\ Lineage
  BY DEF IInv
<1>1. refreshing.pair \in IssuedPairs
  BY <1>0 DEF Exchanged, TypeOK, IssuedPairs
<1>2. PICK u, root : u = Owner(refreshing.pair) /\ root = Root(refreshing.pair)
  OBVIOUS
<1>3. u \in Users /\ root \in Known /\ root # NoPair
  BY <1>0, <1>1, <1>2, IssuedIs DEF Lineage, Known
<1>4. /\ issued'[Newest] = [user |-> u, root |-> IF root = NoPair THEN Newest ELSE root]
      /\ Newest # NoPair /\ Newest \notin Known
  BY <1>0, <1>2, <1>3, Issues DEF Exchanged
<1>5. refreshing'.pair = Newest /\ refreshing'.pc = "ok" /\ Newest \in live'
  BY DEF Exchanged
<1> QED BY <1>2, <1>3, <1>4, <1>5 DEF Root

\* The tokens that may come to be live.
LEMMA LiveFrom ==
  ASSUME IInv, [Next]_vars, NEW n \in live'
  PROVE  \/ n \in live /\ n \in IssuedPairs /\ Root(n)' = Root(n) /\ Owner(n)' = Owner(n)
         \/ /\ n = Newest /\ n \notin Known /\ Root(n)' = n /\ StoreKept /\ RefreshKept
            /\ UNCHANGED history
         \/ /\ Exchanged /\ n = Newest /\ n \notin Known /\ Root(n)' = Root(refreshing.pair)
            /\ refreshing.pair \in live
<1>0. CallsOK /\ TypeOK /\ Numbered /\ Lineage /\ live \subseteq IssuedPairs
  BY DEF IInv, TypeOK, IssuedPairs
<1>1. n \in live => n \in IssuedPairs /\ Root(n)' = Root(n) /\ Owner(n)' = Owner(n)
  BY <1>0, PairThen DEF Known
<1>2. ASSUME NEW c \in Active, SignInServed(c)
      PROVE  \/ n \in live
             \/ n = Newest /\ n \notin Known /\ Root(n)' = n /\ StoreKept /\ RefreshKept /\ UNCHANGED history
  <2>1. call[c].who \in Users /\ NoPair \in Known
    BY <1>0, ActiveIs DEF Requests, Known
  <2>2. PICK who : who = call[c].who /\ Issue(who, NoPair) /\ Unissued # {}
    BY <1>2 DEF SignInServed
  <2>5. /\ Newest \notin Known /\ Newest # NoPair
        /\ issued'[Newest] = [user |-> who, root |-> IF NoPair = NoPair THEN Newest ELSE NoPair]
    BY <1>0, <2>1, <2>2, Issues
  <2>3. n \in live \/ n = Newest
    BY <1>2 DEF SignInServed
  <2>4. StoreKept /\ RefreshKept /\ UNCHANGED history
    BY <1>2 DEF SignInServed, StoreKept, RefreshKept, store
  <2> QED BY <2>3, <2>4, <2>5 DEF Root
<1>3. ASSUME Exchanged
      PROVE  \/ n \in live
             \/ n = Newest /\ n \notin Known /\ Root(n)' = Root(refreshing.pair) /\ refreshing.pair \in live
  <2>1. n \in live \/ n = refreshing'.pair
    BY <1>3 DEF Exchanged
  <2>2. n = refreshing'.pair => Root(n)' = Root(refreshing.pair)'
    BY DEF Root
  <2> QED BY <1>3, <2>1, <2>2, ExchangedIs DEF Exchanged
<1>4. ASSUME NEW c \in Active, \/ Told(c) \/ LogoutServedBy(c) \/ DeletionServed(c) \/ Waits(c) \/ Ends(c)
      PROVE  n \in live
  BY <1>4 DEF Told, LogoutServedBy, DeletionServed, Waits, Ends, server
<1>5. ASSUME NEW c \in Calls, NEW kind \in Kinds, NEW who \in Users, Start(c, kind, who) PROVE n \in live
  BY <1>5 DEF Start, server
<1>6. ASSUME Refused \/ RefreshDone \/ Ages \/ Relaunch \/ UNCHANGED vars PROVE n \in live
  BY <1>6 DEF Refused, RefreshDone, Ages, Relaunch, vars, server
<1> QED BY <1>1, <1>2, <1>3, <1>4, <1>5, <1>6, Steps

\* Unless sign-outs cross, the sign-in in force stays, or it was ended and no
\* refresh of it is under way, or it is a new one.
LEMMA StoreThen ==
  ASSUME IInv, [Next]_vars, ~Crossed'
  PROVE  \/ /\ user' = user /\ Root(tokens)' = Root(tokens)
            /\ mishap' = {} => tokens' = tokens \/ (RefreshDone /\ refreshing.pc = "ok" /\ tokens' = refreshing.pair)
         \/ user' = None /\ tokens' = NoPair /\ refreshing'.pc \notin {"sent", "ok"}
         \/ /\ refreshing'.pc \notin {"sent", "ok"}
            /\ \E c \in Active : /\ Ends(c) /\ LoginDone(c)
                                 /\ tokens' = call[c].pair /\ Root(tokens)' = call[c].pair
<1>0. StoreOK /\ TypeOK /\ CallsOK /\ Lineage /\ RefreshOwn /\ ~Crossed
  BY MishapKept DEF IInv
<1>1. tokens' = tokens => Root(tokens)' = Root(tokens)
  BY <1>0, PairThen DEF StoreOK
<1>2. ASSUME NEW c \in Active, Ends(c), LoginDone(c)
      PROVE  /\ refreshing'.pc \notin {"sent", "ok"}
             /\ tokens' = call[c].pair /\ Root(tokens)' = call[c].pair
  <2>1. /\ user = None /\ tokens' = call[c].pair /\ call[c].pair \in IssuedPairs
        /\ Root(call[c].pair) = call[c].pair
    BY <1>0, <1>2, LoginDoneIs
  <2>2. refreshing.pc \notin {"sent", "ok"} /\ refreshing' = refreshing
    BY <1>0, <1>2, <2>1 DEF RefreshOwn, Ends
  <2> QED BY <2>1, <2>2, PairThen DEF Known
<1>3. ASSUME NEW c \in Active, Ends(c), ProfileDone(c)
      PROVE  user' = user /\ Root(tokens)' = Root(tokens) /\ (mishap' = {} => tokens' = tokens)
  <2>1. /\ call[c].held \in IssuedPairs /\ tokens' = call[c].held /\ user' = Owner(call[c].sent)
        /\ Root(call[c].held) = Root(tokens) /\ Owner(call[c].sent) = Owner(tokens) /\ tokens # NoPair
        /\ (mishap' = {} => call[c].held = tokens)
    BY <1>3, ProfileDoneIs
  <2>2. Root(tokens)' = Root(tokens)
    BY <2>1, PairThen DEF Known
  <2> QED BY <1>0, <2>1, <2>2 DEF StoreOK
<1>4. ASSUME NEW c \in Active, Ends(c), SignOut(call[c].held, refreshing)
      PROVE  user' = None /\ tokens' = NoPair /\ refreshing'.pc \notin {"sent", "ok"}
  BY <1>4, SignOutIs DEF Ends, SignedOut
<1>5. ASSUME NEW c \in Active, Ends(c), api = NoPair, SignedOut
      PROVE  user' = user /\ Root(tokens)' = Root(tokens) /\ tokens' = tokens
  BY <1>0, <1>1, <1>5 DEF StoreOK, TypeOK, SignedOut
<1>6. CASE RefreshDone
  <2>1. CASE refreshing.pc = "ok"
    <3>1. user' = user /\ tokens' = refreshing.pair
      BY <1>6, <2>1, RefreshDoneIs
    <3>2. Root(tokens)' = Root(refreshing.pair)
      BY <1>0, <3>1, PairThen DEF StoreOK
    <3> QED BY <1>0, <1>6, <2>1, <3>1, <3>2 DEF RefreshOwn
  <2>2. CASE refreshing.pc = "refused"
    BY <1>6, <2>2, RefreshDoneIs DEF SignedOut, NoRefresh
  <2> QED BY <1>6, <2>1, <2>2, RefreshDoneIs
<1>7. CASE StoreKept
  BY <1>1, <1>7 DEF StoreKept
<1> QED BY <1>2, <1>3, <1>4, <1>5, <1>6, <1>7, EndsStore, OthersStore

\* A logout that was answered stays so until it has signed out.
LEMMA LeavingKept ==
  ASSUME IInv, [Next]_vars, Leaving, mishap' = {}, user' # None
  PROVE  Leaving'
<1>0. CallsOK
  BY DEF IInv
<1>1. PICK c \in Active : call[c].kind = "logout" /\ call[c].answer \in {"ok", "error"}
  BY DEF Leaving, Under
<1>2. c \in Calls /\ ~At(c, "sent") /\ ~At(c, "waiting")
  BY <1>0, <1>1 DEF CallsOK, Active
<1>3. ASSUME c \in Active', call'[c].kind = "logout", call'[c].answer \in {"ok", "error"}
      PROVE  Leaving'
  BY <1>3 DEF Leaving, Under
<1>4. ASSUME call'[c] = call[c] PROVE Leaving'
  BY <1>1, <1>2, <1>3, <1>4 DEF Active
<1>5. ASSUME NEW d \in Active, \/ SignInServed(d) \/ Told(d) \/ LogoutServedBy(d) \/ DeletionServed(d)
                               \/ Waits(d)
      PROVE  Leaving'
  <2>1. CASE d # c
    <3>1. \A answer, n : Reply(d, answer, n) => call'[c] = call[c]
      BY <1>0, <1>2, <2>1, Replied
    <3>2. Waits(d) => call'[c] = call[c]
      BY <1>0, <1>2, <2>1, Waited
    <3> QED BY <1>4, <1>5, <3>1, <3>2 DEF SignInServed, Told, LogoutServedBy, DeletionServed
  <2>2. CASE d = c
    <3>1. Told(c)
      BY <1>1, <1>2, <1>5, <2>2 DEF SignInServed, LogoutServedBy, DeletionServed, Waits
    <3>2. Reply(c, "error", NoPair)
      BY <1>2, <3>1 DEF Told
    <3>3. c \in Active' /\ call'[c].kind = "logout" /\ call'[c].answer = "error"
      BY <1>0, <1>1, <3>2, Replied
    <3> QED BY <1>3, <3>3
  <2> QED BY <2>1, <2>2
<1>6. ASSUME NEW d \in Active, Ends(d) PROVE Leaving'
  <2>1. CASE d # c
    BY <1>0, <1>2, <1>4, <1>6, <2>1, Ended DEF Ends
  <2>2. CASE d = c
    <3>1. user' = None
      BY <1>1, <1>6, <2>2 DEF Ends, Failed, LoginDone, ProfileDone, LogoutDone, DeleteDone, SignOut, clearAuth
    <3> QED BY <3>1
  <2> QED BY <2>1, <2>2
<1>7. ASSUME NEW d \in Calls, NEW kind \in Kinds, NEW who \in Users, Start(d, kind, who) PROVE Leaving'
  <2>1. call'[c] = call[c]
    BY <1>0, <1>1, <1>2, <1>7, Started
  <2> QED BY <1>4, <2>1
<1>8. CASE RefreshDone
  BY <1>0, <1>2, <1>4, <1>8, RefreshDoneIs, Resent, GivenUp
<1>9. CASE Relaunch
  <2>1. c \in Under("logout")
    BY <1>1 DEF Under
  <2>2. mishap' # {}
    BY <1>9, <2>1 DEF Relaunch
  <2> QED BY <2>2
<1>10. CASE Exchanged \/ Refused \/ Ages \/ UNCHANGED vars
  BY <1>4, <1>10 DEF Exchanged, Refused, Ages, vars
<1> QED BY <1>5, <1>6, <1>7, <1>8, <1>9, <1>10, Steps

-----------------------------------------------------------------------------
(* The sign-ins, the refresh and what is sent.                             *)

LEMMA SignInPendingNext == ASSUME IInv, [Next]_vars PROVE SignInPending'
<1>0. StoreOK /\ TypeOK /\ CallsOK /\ Numbered /\ Lineage /\ SignInPending
  BY DEF IInv
<1>1. CallsOK' /\ (Crossed => Crossed') /\ deleted \subseteq deleted' /\ IssuedPairs \subseteq IssuedPairs'
  BY CallsOKNext, MishapKept, PairsKept
<1>2. \A n \in Known : Root(n) \in Known /\ (n # NoPair => n \in IssuedPairs)
  <2>1. Root(NoPair) = NoPair
    BY DEF Root
  <2> QED BY <1>0, <2>1 DEF Lineage, Known
<1> SUFFICES ASSUME NEW c \in Under("login")'
             PROVE  /\ ~Crossed' => user' = None
                    /\ call'[c].answer = "ok" =>
                         /\ At(c, "answered")' /\ call'[c].pair \in IssuedPairs'
                         /\ Owner(call[c].pair)' = call'[c].who /\ Root(call[c].pair)' = call'[c].pair
                         /\ NobodyHas(call[c].pair)'
                         /\ call'[c].pair \in live' \/ call'[c].who \in deleted'
  BY DEF SignInPending
<1>3. c \in Active' /\ call'[c].kind = "login"
  BY DEF Under
<1>4. c \in Active => /\ \A d \in Active : call[d].kind = "login" => d = c
                      /\ call[c].kind = "login" => c \in Under("login")
  <2>1. ASSUME c \in Active PROVE call[c].kind = "login" \/ call[c].kind # "login"
    OBVIOUS
  <2>2. ASSUME c \in Active PROVE call[c].kind = "login"
    BY <1>3, <2>2, CallFrom DEF AsBefore, JustStarted
  <2> QED BY <1>0, <2>2 DEF CallsOK, Under
<1>5. c \in Active => call[c].kind = "login"
  BY <1>3, CallFrom DEF AsBefore, JustStarted
<1>6. ASSUME NEW d \in Active, Ends(d), LoginDone(d) PROVE FALSE
  <2>1. call[d].kind = "login" /\ Active' = Active \ {d}
    BY <1>0, <1>6, LoginDoneIs, Ended DEF Ends
  <2> QED BY <1>3, <1>4, <2>1
<1>7. ~Crossed' => user' = None
  <2>1. c \in Active => (~Crossed => user = None)
    BY <1>0, <1>4, <1>5 DEF SignInPending
  <2>2. c \notin Active => user' = None
    BY <1>3, CallFrom DEF JustStarted, StoreKept, AsBefore
  <2> QED BY <1>1, <1>6, <2>1, <2>2, StoreThen
<1>8. ASSUME c \in Active, call'[c] = call[c], call[c].answer = "ok"
      PROVE  /\ At(c, "answered")' /\ call'[c].pair \in IssuedPairs'
             /\ Owner(call[c].pair)' = call'[c].who /\ Root(call[c].pair)' = call'[c].pair
             /\ NobodyHas(call[c].pair)'
             /\ call'[c].pair \in live' \/ call'[c].who \in deleted'
  <2> DEFINE n == call[c].pair
  <2>1. /\ At(c, "answered") /\ n \in IssuedPairs /\ Owner(n) = call[c].who /\ Root(n) = n
        /\ NobodyHas(n) /\ (n \in live \/ call[c].who \in deleted)
    BY <1>0, <1>4, <1>5, <1>8 DEF SignInPending
  <2>2. n \in Known /\ n # NoPair
    BY <1>0, <2>1, IssuedIs DEF Known
  <2>3. Owner(call[c].pair)' = call[c].who /\ Root(call[c].pair)' = n
    BY <1>8, <2>1, <2>2, PairThen
  <2>4. ASSUME NEW m \in Known, Root(m) # n
        PROVE  /\ tokens' = m => Root(tokens)' # n
               /\ refreshing'.pair = m => Root(refreshing.pair)' # n
               /\ \A d : call'[d].held = m => Root(call[d].held)' # n
    BY <2>4, PairThen
  <2>5. Root(NoPair) # n /\ NoPair \in Known /\ Root(tokens) # n /\ tokens \in Known
    BY <1>0, <2>1, <2>2 DEF Root, Known, NobodyHas, StoreOK
  <2>6. \A d \in Active : call[d].held \in Known /\ Root(call[d].held) # n
    BY <1>0, <2>1, ActiveIs DEF NobodyHas, Requests
  <2>7. Root(refreshing.pair) # n /\ refreshing.pair \in Known
    BY <1>0, <2>1 DEF NobodyHas, StoreOK
  <2>8. Root(tokens)' # n
    <3>1. CASE StoreKept
      BY <2>4, <2>5, <3>1 DEF StoreKept
    <3>2. ASSUME NEW d \in Active, Ends(d) PROVE tokens' \in {tokens, NoPair, call[d].held}
      <4>1. ~LoginDone(d)
        BY <1>6, <3>2
      <4>2. \A k, r : SignOut(k, r) => tokens' = NoPair
        BY DEF SignOut, clearAuth
      <4>3. ProfileDone(d) => tokens' = call[d].held
        BY <3>2, ProfileDoneIs
      <4> QED BY <3>2, <4>1, <4>2, <4>3, EndsStore DEF StoreKept, SignedOut
    <3>3. ASSUME RefreshDone PROVE tokens' \in {NoPair, refreshing.pair}
      BY <3>3, RefreshDoneIs DEF SignedOut
    <3>4. \/ tokens' \in {tokens, NoPair, refreshing.pair}
          \/ \E d \in Active : tokens' = call[d].held
      BY <3>2, <3>3, OthersStore DEF StoreKept
    <3> QED BY <2>4, <2>5, <2>6, <2>7, <3>4
  <2>9. Root(refreshing.pair)' # n
    <3>1. Exchanged => Root(refreshing.pair)' = Root(refreshing.pair)
      BY ExchangedIs
    <3>2. ASSUME Refused PROVE refreshing'.pair = refreshing.pair
      BY <3>2 DEF Refused
    <3>3. ASSUME refreshing' = NoRefresh PROVE refreshing'.pair = NoPair
      BY <3>3 DEF NoRefresh
    <3>4. ASSUME refreshing' = [pc |-> "sent", pair |-> api] PROVE refreshing'.pair = tokens
      BY <1>0, <3>4 DEF TypeOK
    <3>5. Exchanged \/ refreshing'.pair \in {refreshing.pair, NoPair, tokens}
      BY <3>2, <3>3, <3>4, RefreshSteps, RefreshDoneIs DEF RefreshKept, Relaunch
    <3> QED BY <2>4, <2>5, <2>7, <3>1, <3>5
  <2>10. ASSUME NEW d \in Active' PROVE Root(call[d].held)' # n
    <3>1. call'[d].held = tokens \/ (d \in Active /\ call'[d].held = call[d].held)
      BY CallFrom DEF AsBefore, JustStarted
    <3> QED BY <2>4, <2>5, <2>6, <3>1
  <2>11. NobodyHas(call[c].pair)'
    BY <1>8, <2>8, <2>9, <2>10 DEF NobodyHas
  <2>12. n \in live' \/ call[c].who \in deleted'
    <3>1. ASSUME n \in live, n \notin live' PROVE call[c].who \in deleted'
      <4>1. ASSUME NEW d \in Active, LogoutServedBy(d) PROVE FALSE
        <5>1. n = call[d].held
          BY <3>1, <4>1 DEF LogoutServedBy
        <5> QED BY <2>1, <2>6, <5>1
      <4>2. ASSUME NEW d \in Active, DeletionServed(d) PROVE Owner(n) \in deleted'
        BY <3>1, <4>2 DEF DeletionServed
      <4>3. CASE Exchanged
        <5>1. n = refreshing.pair
          BY <3>1, <4>3 DEF Exchanged
        <5> QED BY <2>1, <2>7, <5>1
      <4>4. ASSUME NEW d \in Active, SignInServed(d) \/ Told(d) \/ Waits(d) \/ Ends(d) PROVE FALSE
        BY <3>1, <4>4 DEF SignInServed, Told, Waits, Ends, server
      <4>5. ASSUME NEW d \in Calls, NEW kind \in Kinds, NEW who \in Users, Start(d, kind, who) PROVE FALSE
        BY <3>1, <4>5 DEF Start, server
      <4>6. ASSUME Refused \/ RefreshDone \/ Ages \/ Relaunch \/ UNCHANGED vars PROVE FALSE
        BY <3>1, <4>6 DEF Refused, RefreshDone, Ages, Relaunch, vars, server
      <4> QED BY <2>1, <4>1, <4>2, <4>3, <4>4, <4>5, <4>6, Steps
    <3> QED BY <1>1, <2>1, <3>1
  <2> QED BY <1>1, <1>8, <2>1, <2>3, <2>11, <2>12 DEF At
<1>9. ASSUME c \in Active, SignInServed(c), call'[c].pc = "answered", call'[c].pair = Newest,
             call'[c].who = call[c].who
      PROVE  /\ At(c, "answered")' /\ call'[c].pair \in IssuedPairs'
             /\ Owner(call[c].pair)' = call'[c].who /\ Root(call[c].pair)' = call'[c].pair
             /\ NobodyHas(call[c].pair)'
             /\ call'[c].pair \in live' \/ call'[c].who \in deleted'
  <2>1. PICK who \in Users : who = call[c].who /\ Issue(who, NoPair) /\ Unissued # {} /\ Newest \in live'
                             /\ UNCHANGED <<tokens, refreshing>>
    BY <1>0, <1>9, ActiveIs DEF SignInServed, Requests, store
  <2>2. /\ Newest \notin Known /\ Newest # NoPair /\ IssuedPairs' = IssuedPairs \cup {Newest}
        /\ issued'[Newest] = [user |-> who, root |-> IF NoPair = NoPair THEN Newest ELSE NoPair]
    <3>1. NoPair \in Known
      BY DEF Known
    <3> QED BY <1>0, <2>1, <3>1, Issues
  <2>3. Owner(call[c].pair)' = who /\ Root(call[c].pair)' = Newest
    BY <1>9, <2>2 DEF Owner, Root
  <2>4. \A m \in Known : Root(m)' = Root(m) /\ Root(m) # Newest
    BY <1>2, <2>2, PairThen
  <2>5. Root(tokens)' # Newest /\ Root(refreshing.pair)' # Newest
    <3>1. tokens \in Known /\ refreshing.pair \in Known
      BY <1>0 DEF StoreOK
    <3>2. Root(tokens)' = Root(tokens) /\ Root(refreshing.pair)' = Root(refreshing.pair)
      BY <2>1, <3>1, PairThen
    <3> QED BY <2>4, <3>1, <3>2
  <2>6. ASSUME NEW d \in Active' PROVE Root(call[d].held)' # Newest
    <3>1. call'[d].held = tokens \/ (d \in Active /\ call'[d].held = call[d].held)
      BY CallFrom DEF AsBefore, JustStarted
    <3>2. PICK m \in Known : call'[d].held = m
      BY <1>0, <3>1, ActiveIs DEF StoreOK, Requests
    <3>3. Root(call[d].held)' = Root(m)
      BY <3>2, PairThen
    <3> QED BY <2>4, <3>3
  <2>7. NobodyHas(call[c].pair)'
    BY <1>9, <2>5, <2>6 DEF NobodyHas
  <2> QED BY <1>9, <2>1, <2>2, <2>3, <2>7 DEF At
<1>10. ASSUME call'[c].answer = "ok"
       PROVE  \/ c \in Active /\ call'[c] = call[c] /\ call[c].answer = "ok"
              \/ /\ c \in Active /\ SignInServed(c) /\ call'[c].pc = "answered" /\ call'[c].pair = Newest
                 /\ call'[c].who = call[c].who
  BY <1>3, <1>5, <1>10, CallFrom
     DEF AsBefore, JustAnswered, JustResent, JustStarted, LogoutServedBy, DeletionServed
<1> QED BY <1>7, <1>8, <1>9, <1>10

LEMMA RefreshOwnNext == ASSUME IInv, [Next]_vars PROVE RefreshOwn'
<1>0. StoreOK /\ TypeOK /\ CallsOK /\ RefreshOwn
  BY DEF IInv
<1>1. (~Crossed' => ~Crossed) /\ (mishap' = {} => mishap = {} /\ ~Crossed /\ ~Crossed')
  BY MishapKept DEF Crossed
<1>2. tokens \in Known /\ refreshing.pair \in Known /\ api = tokens
  BY <1>0 DEF StoreOK, TypeOK
\* The refresh under way is the earlier one, a new one of the store's pair, or its exchange.
<1>3. ASSUME refreshing'.pc \in {"sent", "ok"}
      PROVE  \/ RefreshKept /\ Root(refreshing.pair)' = Root(refreshing.pair)
             \/ /\ refreshing'.pc = "sent" /\ refreshing'.pair = tokens /\ tokens # NoPair
                /\ Root(refreshing.pair)' = Root(tokens)
             \/ Exchanged
  <2>1. CASE RefreshKept
    BY <1>2, <2>1, PairThen DEF RefreshKept
  <2>2. ASSUME NEW c \in Active, Waits(c), refreshing' = [pc |-> "sent", pair |-> api]
        PROVE  /\ refreshing'.pc = "sent" /\ refreshing'.pair = tokens /\ tokens # NoPair
               /\ Root(refreshing.pair)' = Root(tokens)
    <3>1. refreshing'.pc = "sent" /\ refreshing'.pair = tokens /\ tokens # NoPair
      BY <1>2, <2>2 DEF Waits
    <3> QED BY <1>2, <3>1, PairThen
  <2>3. ~Refused /\ refreshing' # NoRefresh
    BY <1>3 DEF Refused, NoRefresh
  <2> QED BY <2>1, <2>2, <2>3, RefreshSteps, RefreshDoneIs DEF Relaunch
\* The sign-in in force is the same.
<1>4. ASSUME ~Crossed', refreshing'.pc \in {"sent", "ok"}
      PROVE  /\ user' = user /\ Root(tokens)' = Root(tokens)
             /\ mishap' = {} => tokens' = tokens
  <2>1. ~RefreshDone
    BY <1>4, RefreshDoneIs DEF NoRefresh
  <2> QED BY <1>4, <2>1, StoreThen
<1>5. ~Crossed' /\ refreshing'.pc \in {"sent", "ok"} =>
        user' # None /\ Root(refreshing.pair)' = Root(tokens)'
  <2> SUFFICES ASSUME ~Crossed', refreshing'.pc \in {"sent", "ok"}
               PROVE  user # None /\ Root(refreshing.pair)' = Root(tokens)
    BY <1>4
  <2>1. CASE RefreshKept /\ Root(refreshing.pair)' = Root(refreshing.pair)
    BY <1>0, <1>1, <2>1 DEF RefreshOwn, RefreshKept
  <2>2. CASE tokens # NoPair /\ Root(refreshing.pair)' = Root(tokens)
    BY <1>0, <1>1, <2>2 DEF StoreOK
  <2>3. CASE Exchanged
    <3>1. refreshing.pc = "sent" /\ Root(refreshing.pair)' = Root(refreshing.pair)
      BY <2>3, ExchangedIs DEF Exchanged
    <3> QED BY <1>0, <1>1, <3>1 DEF RefreshOwn
  <2> QED BY <1>3, <2>1, <2>2, <2>3
<1>6. mishap' = {} /\ refreshing'.pc = "sent" => refreshing'.pair = tokens'
  BY <1>0, <1>1, <1>3, <1>4, ExchangedIs DEF RefreshOwn, RefreshKept
<1>7. ASSUME mishap' = {}, refreshing'.pc = "ok"
      PROVE  refreshing'.pair # tokens' /\ \A c \in Active' : call'[c].held # refreshing'.pair
  <2>1. \A c \in Active' : call'[c].held = tokens \/ (c \in Active /\ call'[c].held = call[c].held)
    BY CallFrom DEF AsBefore, JustStarted
  <2>2. \A c \in Active : call[c].held \in Known
    BY <1>0, ActiveIs DEF Requests
  <2>3. tokens' = tokens
    BY <1>1, <1>4, <1>7
  <2>4. CASE RefreshKept
    <3>1. refreshing.pc = "ok" /\ refreshing'.pair = refreshing.pair
      BY <1>7, <2>4 DEF RefreshKept
    <3>2. refreshing.pair # tokens /\ \A c \in Active : call[c].held # refreshing.pair
      BY <1>0, <1>1, <1>7, <3>1 DEF RefreshOwn
    <3> QED BY <2>1, <2>3, <3>1, <3>2
  <2>5. CASE Exchanged
    <3>1. refreshing'.pair = Newest /\ Newest \notin Known
      BY <2>5, ExchangedIs
    <3> QED BY <1>2, <2>1, <2>2, <2>3, <3>1
  <2> QED BY <1>3, <1>7, <2>4, <2>5
<1> QED BY <1>5, <1>6, <1>7 DEF RefreshOwn

LEMMA SentOwnNext == ASSUME IInv, [Next]_vars PROVE SentOwn'
<1>0. StoreOK /\ TypeOK /\ CallsOK /\ Lineage /\ SentOwn
  BY DEF IInv
<1> SUFFICES ASSUME ~Crossed', NEW c \in Active', call'[c].kind # "login",
                    Root(call[c].held)' = Root(tokens)'
             PROVE  Root(call[c].sent)' = Root(tokens)'
  BY DEF SentOwn
<1>1. ~Crossed
  BY MishapKept
<1>2. ASSUME c \in Active, call'[c].kind = call[c].kind, call'[c].held = call[c].held,
             call'[c].sent = call[c].sent
      PROVE  Root(call[c].sent)' = Root(tokens)'
  <2>1. call[c].held \in Known /\ call[c].sent \in Known /\ call[c].held # NoPair
    BY <1>0, <1>2, ActiveIs DEF Requests, CallsOK
  <2>2. Root(call[c].held)' = Root(call[c].held) /\ Root(call[c].sent)' = Root(call[c].sent)
    BY <1>2, <2>1, PairThen
  <2>3. CASE Root(tokens)' = Root(tokens)
    BY <1>0, <1>1, <1>2, <2>2, <2>3 DEF SentOwn
  <2>4. CASE tokens' = NoPair
    <3>1. Root(tokens)' = NoPair
      BY <2>4 DEF Root
    <3>2. Root(call[c].held) # NoPair
      BY <1>0, <2>1, IssuedIs DEF Known
    <3> QED BY <2>2, <3>1, <3>2
  <2>5. ASSUME NEW d \in Active, Ends(d), LoginDone(d), Root(tokens)' = call[d].pair PROVE FALSE
    <3>1. NobodyHas(call[d].pair)
      BY <2>5, LoginDoneIs
    <3> QED BY <1>2, <2>2, <2>5, <3>1 DEF NobodyHas
  <2> QED BY <2>3, <2>4, <2>5, StoreThen
<1>3. ASSUME JustResent(c) PROVE Root(call[c].sent)' = Root(tokens)'
  <2>1. call'[c].sent = refreshing.pair /\ tokens' = refreshing.pair /\ refreshing.pair \in Known
    BY <1>0, <1>3, RefreshDoneIs DEF JustResent, StoreOK
  <2> QED BY <2>1, PairThen
<1>4. ASSUME JustStarted(c) PROVE Root(call[c].sent)' = Root(tokens)'
  <2>1. call'[c].sent = tokens /\ tokens' = tokens /\ tokens \in Known
    BY <1>0, <1>4 DEF JustStarted, StoreKept, StoreOK
  <2> QED BY <2>1, PairThen
<1> QED BY <1>2, <1>3, <1>4, CallFrom DEF AsBefore

LEMMA DeletedIsNext == ASSUME IInv, [Next]_vars PROVE DeletedIs'
<1>0. CallsOK /\ DeletedIs
  BY DEF IInv
<1>1. deleted \subseteq deleted'
  BY PairsKept
<1> SUFFICES ASSUME NEW c \in Active', call'[c].kind = "delete", call'[c].answer = "ok"
             PROVE  Owner(call[c].sent)' \in deleted'
  BY DEF DeletedIs, Under
<1>2. ASSUME c \in Active, call'[c].sent = call[c].sent
      PROVE  Owner(call[c].sent)' = Owner(call[c].sent)
  <2>1. call[c].sent \in Known
    BY <1>0, <1>2, ActiveIs DEF Requests
  <2> QED BY <1>2, <2>1, PairThen
<1>3. CASE c \in Active /\ call'[c] = call[c]
  <2>1. Owner(call[c].sent) \in deleted
    BY <1>0, <1>3 DEF DeletedIs, Under
  <2> QED BY <1>1, <1>2, <1>3, <2>1
<1>4. CASE AsBefore(c) /\ call'[c].sent = call[c].sent /\ JustAnswered(c)
  <2>1. DeletionServed(c)
    BY <1>4 DEF AsBefore, JustAnswered, SignInServed, LogoutServedBy
  <2>2. Owner(call[c].sent) \in deleted'
    BY <2>1 DEF DeletionServed
  <2> QED BY <1>2, <1>4, <2>2 DEF AsBefore
<1> QED BY <1>3, <1>4, CallFrom DEF JustResent, JustStarted

-----------------------------------------------------------------------------
(* The token in force, and what a logout leaves.                           *)

\* A sign-in that has no live token gets none while it is in force.
LEMMA SpentKept ==
  ASSUME IInv, [Next]_vars, mishap = {}, user # None, Root(tokens)' = Root(tokens), Spent
  PROVE  Spent'
<1>0. StoreOK /\ Lineage /\ RefreshOwn /\ ~Crossed
  BY DEF IInv, Crossed
<1> SUFFICES ASSUME NEW n \in live', Root(n)' = Root(tokens) PROVE FALSE
  BY DEF Spent
<1>1. CASE n \in live /\ Root(n)' = Root(n)
  BY <1>1 DEF Spent
<1>2. CASE n \notin Known /\ Root(n)' = n
  <2>1. Root(NoPair) = NoPair
    BY DEF Root
  <2>2. Root(tokens) \in Known
    BY <1>0, <2>1 DEF StoreOK, Lineage, Known
  <2> QED BY <1>2, <2>2
<1>3. CASE Exchanged /\ refreshing.pair \in live
  <2>1. Root(refreshing.pair) = Root(tokens)
    BY <1>0, <1>3 DEF Exchanged, RefreshOwn
  <2> QED BY <1>3, <2>1 DEF Spent
<1> QED BY <1>1, <1>2, <1>3, LiveFrom

LEMMA CurrentIsLiveNext == ASSUME IInv, [Next]_vars PROVE CurrentIsLive'
<1>0. StoreOK /\ TypeOK /\ CallsOK /\ Lineage /\ RefreshOwn /\ SignInPending /\ CurrentIsLive
  BY DEF IInv
<1> DEFINE Gone == Leaving /\ Spent
<1> SUFFICES ASSUME mishap' = {}, user' # None
             PROVE  Current' \in live' \/ user' \in deleted' \/ Gone'
  BY DEF CurrentIsLive
<1>1. mishap = {} /\ ~Crossed /\ ~Crossed' /\ deleted \subseteq deleted'
  BY MishapKept, PairsKept DEF Crossed
<1>2. Gone /\ user' = user => Gone'
  <2>1. user' = user => Root(tokens)' = Root(tokens)
    <3>1. ASSUME NEW c \in Active, Ends(c), LoginDone(c) PROVE user = None
      BY <1>1, <3>1, LoginDoneIs
    <3> QED BY <1>1, <3>1, StoreThen
  <2> QED BY <1>1, <2>1, LeavingKept, SpentKept
\* A step that keeps the user and the token in force, live or not.
<1>3. ASSUME user' = user, Current' = Current, Current \in live => Current \in live'
      PROVE  Current' \in live' \/ user' \in deleted' \/ Gone'
  BY <1>0, <1>1, <1>2, <1>3 DEF CurrentIsLive
<1>4. ASSUME NEW c \in Active, SignInServed(c) \/ Told(c) \/ Waits(c)
      PROVE  Current' \in live' \/ user' \in deleted' \/ Gone'
  <2>1. UNCHANGED <<user, tokens>> /\ live \subseteq live'
    BY <1>4 DEF SignInServed, Told, Waits, store, server
  <2>2. UNCHANGED refreshing \/ (refreshing.pc # "ok" /\ refreshing'.pc # "ok")
    BY <1>4 DEF SignInServed, Told, Waits, NoRefresh
  <2>3. Current' = Current
    BY <2>1, <2>2 DEF Current
  <2> QED BY <1>3, <2>1, <2>3
<1>5. ASSUME NEW c \in Active, LogoutServedBy(c)
      PROVE  Current' \in live' \/ user' \in deleted' \/ Gone'
  <2>1. Active' = Active /\ call'[c].kind = "logout" /\ call'[c].answer = "ok"
    BY <1>0, <1>5, Replied DEF LogoutServedBy
  <2>2. Leaving'
    BY <2>1 DEF Leaving, Under
  <2>3. UNCHANGED <<user, tokens, refreshing, issued>> /\ live' \in {live, live \ {call[c].held}}
    BY <1>5 DEF LogoutServedBy, store
  <2>4. Current' = Current /\ Root(Current) = Root(tokens)
    BY <1>0, <1>1, <2>3 DEF Current, RefreshOwn
  <2>5. CASE Current \in live => Current \in live'
    BY <1>3, <2>3, <2>4, <2>5
  <2>6. CASE Current \in live /\ Current \notin live'
    <3>1. live' = live \ {Current}
      BY <2>3, <2>6
    <3>2. \A n \in live' : Root(n) # Root(tokens)
      BY <1>0, <2>4, <2>6, <3>1 DEF Lineage
    <3>3. \A n : Root(n)' = Root(n)
      BY <2>3 DEF Root
    <3>4. Root(tokens)' = Root(tokens)
      BY <2>3 DEF Root
    <3>5. Spent'
      BY <3>2, <3>3, <3>4 DEF Spent
    <3> QED BY <2>2, <3>5
  <2> QED BY <2>5, <2>6
<1>6. ASSUME NEW c \in Active, DeletionServed(c)
      PROVE  Current' \in live' \/ user' \in deleted' \/ Gone'
  <2>1. UNCHANGED <<user, tokens, refreshing>>
        /\ live' = {n \in live : Owner(n) # Owner(call[c].sent)}
        /\ deleted' = deleted \cup {Owner(call[c].sent)}
    BY <1>6 DEF DeletionServed, store
  <2>2. Current' = Current /\ Owner(Current) = user
    <3>1. tokens \in Known /\ refreshing.pair \in Known /\ Owner(tokens) = user
      BY <1>0, <1>1, <2>1 DEF StoreOK
    <3>2. refreshing.pc = "ok" => Owner(refreshing.pair) = user
      BY <1>0, <1>1, <3>1, SameRoot DEF RefreshOwn
    <3> QED BY <2>1, <3>1, <3>2 DEF Current
  <2>3. CASE Owner(Current) = Owner(call[c].sent)
    BY <2>1, <2>2, <2>3
  <2>4. CASE Owner(Current) # Owner(call[c].sent)
    BY <1>3, <2>1, <2>2, <2>4
  <2> QED BY <2>3, <2>4
<1>7. ASSUME NEW c \in Active, Ends(c)
      PROVE  Current' \in live' \/ user' \in deleted' \/ Gone'
  <2>1. UNCHANGED <<refreshing, live, deleted>>
    BY <1>7 DEF Ends, server
  <2>2. CASE user' = user /\ tokens' = tokens
    BY <1>3, <2>1, <2>2 DEF Current
  <2>3. ASSUME NEW d \in Active, Ends(d), LoginDone(d), refreshing'.pc \notin {"sent", "ok"},
               tokens' = call[d].pair
        PROVE  Current' \in live' \/ user' \in deleted'
    <3>1. user' = call[d].who /\ (call[d].pair \in live \/ call[d].who \in deleted)
      BY <2>3, LoginDoneIs
    <3> QED BY <2>1, <2>3, <3>1 DEF Current
  <2>4. ~(RefreshDone /\ refreshing.pc = "ok")
    BY <2>1, RefreshDoneIs DEF NoRefresh
  <2> QED BY <1>1, <2>2, <2>3, <2>4, StoreThen
<1>8. CASE Exchanged
  <2>1. refreshing'.pc = "ok" /\ refreshing'.pair \in live'
    BY <1>8, ExchangedIs
  <2> QED BY <2>1 DEF Current
<1>9. CASE Refused
  <2>1. /\ refreshing.pc = "sent" /\ refreshing'.pc = "refused" /\ UNCHANGED <<user, tokens, live>>
    BY <1>1, <1>9 DEF Refused, store, server
  <2>2. Current' = Current
    BY <2>1 DEF Current
  <2> QED BY <1>3, <2>1, <2>2
<1>10. CASE RefreshDone
  <2>1. refreshing.pc = "ok" /\ user' = user /\ tokens' = refreshing.pair /\ refreshing' = NoRefresh
        /\ live' = live
    BY <1>10, RefreshDoneIs DEF SignedOut, server
  <2>2. Current' = Current
    BY <2>1 DEF Current, NoRefresh
  <2> QED BY <1>3, <2>1, <2>2
<1>11. ASSUME NEW c \in Calls, NEW kind \in Kinds, NEW who \in Users, Start(c, kind, who)
       PROVE  Current' \in live' \/ user' \in deleted' \/ Gone'
  BY <1>3, <1>11 DEF Start, store, server, Current
<1>12. CASE Relaunch
  <2>1. refreshing.pc # "ok" /\ refreshing' = NoRefresh /\ UNCHANGED <<user, tokens, live>>
    BY <1>1, <1>12 DEF Relaunch, store, server
  <2>2. Current' = Current
    BY <2>1 DEF Current, NoRefresh
  <2> QED BY <1>3, <2>1, <2>2
<1>13. CASE Ages \/ UNCHANGED vars
  BY <1>3, <1>13 DEF Ages, vars, store, server, Current
<1> QED BY <1>4, <1>5, <1>6, <1>7, <1>8, <1>9, <1>10, <1>11, <1>12, <1>13, Steps

LEMMA RefusalIsDueNext == ASSUME IInv, [Next]_vars PROVE RefusalIsDue'
<1>0. StoreOK /\ TypeOK /\ CallsOK /\ Lineage /\ RefreshOwn /\ CurrentIsLive /\ RefusalIsDue
  BY DEF IInv
<1> SUFFICES ASSUME mishap' = {}, refreshing'.pc = "refused", user' # None,
                    Root(refreshing.pair)' = Root(tokens)'
             PROVE  user' \in deleted' \/ Leaving' \/ (refreshing'.pair = tokens' /\ tokens' \in ended')
  BY DEF RefusalIsDue
<1>1. mishap = {} /\ ~Crossed /\ ~Crossed' /\ deleted \subseteq deleted'
      /\ ended \subseteq ended'
  BY MishapKept, PairsKept DEF Crossed
<1>2. Leaving => Leaving'
  BY LeavingKept
<1>3. tokens \in Known /\ refreshing.pair \in Known
  BY <1>0 DEF StoreOK
<1>4. CASE RefreshKept
  <2>1. refreshing.pc = "refused" /\ Root(refreshing.pair)' = Root(refreshing.pair)
    BY <1>3, <1>4, PairThen DEF RefreshKept
  <2>2. CASE user' = user /\ Root(tokens)' = Root(tokens)
    <3>1. tokens' = tokens
      <4>1. ~(RefreshDone /\ refreshing.pc = "ok")
        BY <2>1
      <4>2. ASSUME NEW d \in Active, Ends(d), LoginDone(d) PROVE user = None
        BY <1>1, <4>2, LoginDoneIs
      <4> QED BY <1>1, <2>2, <4>1, <4>2, StoreThen
    <3> QED BY <1>0, <1>1, <1>2, <1>4, <2>1, <2>2, <3>1 DEF RefusalIsDue, RefreshKept
  <2>3. ASSUME NEW d \in Active, Ends(d), LoginDone(d), Root(tokens)' = call[d].pair PROVE FALSE
    <3>1. NobodyHas(call[d].pair)
      BY <2>3, LoginDoneIs
    <3> QED BY <2>1, <2>3, <3>1 DEF NobodyHas
  <2> QED BY <1>1, <2>2, <2>3, StoreThen
<1>5. CASE Refused
  <2>1. /\ refreshing.pc = "sent" /\ refreshing.pair \notin live \ ended
        /\ UNCHANGED <<user, tokens>> /\ refreshing'.pair = refreshing.pair
    BY <1>1, <1>5 DEF Refused, store
  <2>2. Current = tokens /\ refreshing.pair = tokens
    BY <1>0, <1>1, <2>1 DEF RefreshOwn, Current
  <2> QED BY <1>0, <1>1, <1>2, <2>1, <2>2 DEF CurrentIsLive
<1>6. ~Exchanged /\ refreshing' # NoRefresh /\ refreshing' # [pc |-> "sent", pair |-> api]
  BY ExchangedIs DEF NoRefresh
<1> QED BY <1>4, <1>5, <1>6, RefreshSteps, RefreshDoneIs DEF Relaunch

LEMMA LogoutServedNext == ASSUME IInv, [Next]_vars PROVE LogoutServed'
<1>0. StoreOK /\ TypeOK /\ CallsOK /\ Lineage /\ RefreshOwn /\ SentOwn /\ CurrentIsLive /\ LogoutServed
  BY DEF IInv
<1> SUFFICES ASSUME mishap' = {}, NEW c \in Active', call'[c].kind = "logout", call'[c].answer = "ok",
                    call'[c].held = tokens', refreshing'.pc # "ok",
                    NEW n \in live', Root(n)' = Root(tokens)'
             PROVE  FALSE
  BY DEF LogoutServed, Under
<1>1. mishap = {} /\ ~Crossed /\ ~Crossed'
  BY MishapKept DEF Crossed
<1>2. \/ c \in Active /\ call'[c] = call[c]
      \/ AsBefore(c) /\ call'[c].sent = call[c].sent /\ LogoutServedBy(c)
  BY CallFrom DEF AsBefore, JustAnswered, JustResent, JustStarted, SignInServed, DeletionServed
<1>3. /\ c \in Active /\ call[c].kind = "logout" /\ call[c].held = tokens'
      /\ call[c].held \in Known /\ call[c].held # NoPair /\ call[c].sent \in Known
  BY <1>0, <1>2, ActiveIs DEF AsBefore, CallsOK, Requests
\* The token it held is still the one in force, and is not being exchanged.
<1>4. tokens' = tokens /\ Root(tokens)' = Root(tokens)
  <2>1. ASSUME NEW d \in Active, Ends(d), LoginDone(d), Root(tokens)' = call[d].pair PROVE FALSE
    <3>1. NobodyHas(call[d].pair)
      BY <2>1, LoginDoneIs
    <3>2. Root(tokens)' = Root(call[c].held)
      BY <1>3, PairThen
    <3> QED BY <1>3, <2>1, <3>1, <3>2 DEF NobodyHas
  <2>2. ~(refreshing.pc = "ok" /\ tokens' = refreshing.pair)
    BY <1>0, <1>1, <1>3 DEF RefreshOwn
  <2> QED BY <1>1, <1>3, <2>1, <2>2, StoreThen
<1>5. refreshing.pc # "ok"
  <2> SUFFICES ASSUME refreshing.pc = "ok" PROVE FALSE
    OBVIOUS
  <2>1. ~RefreshKept /\ ~Exchanged /\ ~Refused /\ refreshing # NoRefresh
    BY <1>1 DEF RefreshKept, Exchanged, Refused, NoRefresh
  <2>2. ~RefreshDone
    <3>1. RefreshDone => tokens' = refreshing.pair
      BY RefreshDoneIs
    <3> QED BY <1>0, <1>1, <1>3, <3>1 DEF RefreshOwn
  <2>3. ~Relaunch
    BY DEF Relaunch, Active
  <2> QED BY <2>1, <2>2, <2>3, RefreshSteps
<1>6. n \in live /\ n \in IssuedPairs /\ Root(n) = Root(tokens)
  <2>1. ~Exchanged
    BY ExchangedIs
  <2>2. Root(tokens) # n \/ n \in Known
    <3>1. Root(tokens) \in Known
      <4>1. Root(NoPair) = NoPair
        BY DEF Root
      <4> QED BY <1>0, <4>1 DEF StoreOK, Lineage, Known
    <3> QED BY <3>1
  <2> QED BY <1>4, <2>1, <2>2, LiveFrom
<1>7. CASE call'[c] = call[c]
  <2>1. c \in Under("logout") /\ call[c].answer = "ok" /\ call[c].held = tokens
    BY <1>3, <1>4, <1>7 DEF Under
  <2> QED BY <1>0, <1>1, <1>5, <1>6, <2>1 DEF LogoutServed
<1>8. CASE LogoutServedBy(c)
  <2>1. /\ live' = IF Owner(call[c].held) = Owner(call[c].sent) THEN live \ {call[c].held} ELSE live
        /\ call[c].answer = "none"
    BY <1>0, <1>3, <1>8 DEF LogoutServedBy, CallsOK
  <2>2. Owner(call[c].held) = Owner(call[c].sent)
    <3>1. Root(call[c].sent) = Root(call[c].held)
      BY <1>0, <1>1, <1>3, <1>4 DEF SentOwn
    <3> QED BY <1>0, <1>3, <3>1, SameRoot
  <2>3. n # tokens
    BY <1>3, <1>4, <2>1, <2>2
  <2>4. tokens \notin live
    BY <1>0, <1>6, <2>3 DEF Lineage
  <2>5. user # None /\ Owner(tokens) = user
    BY <1>0, <1>1, <1>3, <1>4 DEF StoreOK
  <2>6. ~Spent
    BY <1>6 DEF Spent
  <2>7. user \in deleted
    BY <1>0, <1>1, <1>5, <2>4, <2>5, <2>6 DEF CurrentIsLive, Current
  <2>8. Owner(n) = user
    BY <1>0, <1>6, <2>5, SameRoot DEF StoreOK, Known
  <2> QED BY <1>0, <1>6, <2>7, <2>8 DEF Lineage
<1> QED BY <1>2, <1>7, <1>8

LEMMA LogoutEndsSessionNext == ASSUME IInv, [Next]_vars PROVE LogoutEndsSession'
<1>0. StoreOK /\ Lineage /\ LogoutServed /\ LogoutEndsSession
  BY DEF IInv
<1> SUFFICES ASSUME NEW n \in live', Root(n)' \in left', mishap' = {} PROVE FALSE
  BY DEF LogoutEndsSession
<1>1. mishap = {}
  BY MishapKept
<1>2. left' = left \/ \E c \in Active : Ends(c) /\ left' # left
  <2>1. ASSUME NEW c \in Active, \/ SignInServed(c) \/ Told(c) \/ LogoutServedBy(c)
                                 \/ DeletionServed(c) \/ Waits(c)
        PROVE  left' = left
    BY <2>1 DEF SignInServed, Told, LogoutServedBy, DeletionServed, Waits, history
  <2>2. ASSUME NEW c \in Calls, NEW kind \in Kinds, NEW who \in Users, Start(c, kind, who)
        PROVE  left' = left
    BY <2>2 DEF Start, history
  <2>3. CASE Exchanged \/ Refused \/ RefreshDone \/ Ages \/ Relaunch \/ UNCHANGED vars
    BY <2>3 DEF Exchanged, Refused, RefreshDone, Ages, Relaunch, vars, history
  <2> QED BY <2>1, <2>2, <2>3, Steps
<1>3. CASE n \in live /\ Root(n)' = Root(n)
  <2>1. CASE left' = left
    BY <1>0, <1>1, <1>3, <2>1 DEF LogoutEndsSession
  <2>2. ASSUME NEW c \in Active, Ends(c), left' # left PROVE FALSE
    <3>1. /\ c \in Under("logout") /\ call[c].answer = "ok" /\ call[c].held = tokens
          /\ refreshing = NoRefresh /\ left' = left \cup {Root(tokens)}
      BY <2>2, LeftIs DEF Under
    <3>2. Root(n) # Root(tokens)
      BY <1>0, <1>1, <1>3, <3>1 DEF LogoutServed, NoRefresh
    <3> QED BY <1>0, <1>1, <1>3, <3>1, <3>2 DEF LogoutEndsSession
  <2> QED BY <1>2, <2>1, <2>2
<1>4. CASE n \notin Known /\ Root(n)' = n /\ UNCHANGED history
  BY <1>0, <1>4 DEF Lineage, Known, history
<1>5. CASE Exchanged /\ Root(n)' = Root(refreshing.pair) /\ refreshing.pair \in live
  BY <1>0, <1>1, <1>5 DEF Exchanged, history, LogoutEndsSession
<1> QED BY <1>3, <1>4, <1>5, LiveFrom

-----------------------------------------------------------------------------
(* The theorems.                                                           *)

LEMMA InitIInv == Init => IInv
<1> SUFFICES ASSUME Init PROVE IInv
  OBVIOUS
<1>1. Active = {} /\ live = {} /\ ended = {} /\ fresh = {} /\ mishap = {} /\ left = {} /\ deleted = {}
      /\ user = None /\ tokens = NoPair /\ api = NoPair /\ refreshing = NoRefresh /\ launches = 0
      /\ setting \in Settings /\ call = [c \in Calls |-> Idle]
  BY DEF Init, Active
<1>2. issued = [n \in Pairs |-> [user |-> None, root |-> NoPair]]
  BY DEF Init
<1>3. Unissued = Pairs /\ IssuedPairs = {} /\ Known = {NoPair}
  BY <1>2 DEF Unissued, IssuedPairs, Known
<1>4. TypeOK
  <2>1. \A c \in Calls : ~At(c, "waiting")
    BY <1>1 DEF At, Idle
  <2>2. \A n \in Pairs : Owner(n) \in Users \cup {None} /\ Root(n) \in Pairs \cup {NoPair}
    BY <1>2 DEF Owner, Root
  <2>3. 0 \in 0 .. setting.launches
    BY <1>1, SettingsAssumption
  <2> QED BY <1>1, <1>3, <2>1, <2>2, <2>3 DEF TypeOK, NoRefresh
<1>5. CallsOK
  BY <1>1 DEF CallsOK
<1>6. PairsRemain
  <2>1. Hungry = {} /\ Logging = {}
    BY <1>1 DEF Hungry, Logging, Open
  <2>2. Cardinality(Unissued) \in Nat /\ Cardinality({}) = 0
    BY UnissuedFinite, FS_CardinalityType, FS_EmptySet
  <2> QED BY <2>1, <2>2 DEF PairsRemain
<1>7. Numbered
  <2>1. Unissued = (0 + 1) .. MaxTokens /\ 0 \in 0 .. MaxTokens
    BY <1>3, TokensAssumption DEF Pairs
  <2> QED BY <2>1 DEF Numbered
<1>8. Lineage
  BY <1>1, <1>2, <1>3 DEF Lineage
<1>9. StoreOK
  BY <1>1, <1>3 DEF StoreOK, NoRefresh
<1>10. SignInPending /\ DeletedIs /\ LogoutServed /\ SentOwn
  BY <1>1 DEF SignInPending, DeletedIs, LogoutServed, SentOwn, Under
<1>11. RefreshOwn /\ CurrentIsLive /\ RefusalIsDue /\ LogoutEndsSession
  BY <1>1 DEF RefreshOwn, CurrentIsLive, RefusalIsDue, LogoutEndsSession, NoRefresh
<1> QED BY <1>4, <1>5, <1>6, <1>7, <1>8, <1>9, <1>10, <1>11 DEF IInv

LEMMA NextIInv == IInv /\ [Next]_vars => IInv'
BY TypeOKNext, CallsOKNext, PairsRemainNext, PairsKept, LineageNext, StoreOKNext, SignInPendingNext,
   RefreshOwnNext, SentOwnNext, DeletedIsNext, CurrentIsLiveNext, RefusalIsDueNext, LogoutServedNext,
   LogoutEndsSessionNext
   DEF IInv

\* The inductive invariant: what the store, the calls, the refresh and the
\* server's tables have to do with one another.
THEOREM Invariant == Spec => []IInv
BY InitIInv, NextIInv, PTL DEF Spec

\* The variables have their types, and calls wait exactly while a refresh is
\* under way (setAuth, updateTokens, clearAuth, refreshAccessToken).
THEOREM TypeCorrect == Spec => []TypeOK
<1>1. IInv => TypeOK
  BY DEF IInv
<1> QED BY <1>1, Invariant, PTL

\* Whoever is shown as signed in holds a pair of their own that cloud-api still
\* exchanges, or one whose time is over or which was revoked elsewhere, save for
\* the deletions, logouts and mishaps that SessionUsable names: the client never
\* spends the pair it keeps, however the calls of any number of pages interleave.
THEOREM SessionAlwaysUsable == Spec => []SessionUsable
<1>1. IInv => SessionUsable
  <2> SUFFICES ASSUME IInv, user # None PROVE SessionUsable
    BY DEF SessionUsable
  <2>1. StoreOK /\ CurrentIsLive
    BY DEF IInv
  <2>2. Owner(tokens) = user \/ "crossed" \in mishap
    BY <2>1 DEF StoreOK, Crossed
  <2>3. Leaving => Under("logout") # {}
    BY DEF Leaving
  <2> QED BY <2>1, <2>2, <2>3 DEF SessionUsable, CurrentIsLive, Current
<1> QED BY <1>1, Invariant, PTL

\* A sign-in that a logout ended has no refresh token left at cloud-api, unless
\* one was exchanged without the store keeping it.
THEOREM LogoutAlwaysEndsSession == Spec => []LogoutEndsSession
<1>1. IInv => LogoutEndsSession
  BY DEF IInv
<1> QED BY <1>1, Invariant, PTL

\* Nothing but a logout, a deletion, a mishap, or the end of the store's own
\* refresh token (thirty days, or a password changed elsewhere) signs a user out:
\* no wrong password, no expired access token, no failing call, and no token that
\* the client itself has spent (request, onAuthError).
THEOREM SignedInUntilLogout == Spec => StaysSignedIn
<1> DEFINE Excused == tokens \in ended \/ user \in deleted \/ Under("logout") # {} \/ mishap' # {}
           Stays == user # None /\ user' = None => Excused
<1>1. ASSUME IInv, [Next]_vars PROVE Stays
  <2> SUFFICES ASSUME user # None, user' = None, mishap' = {}
               PROVE  tokens \in ended \/ user \in deleted \/ Under("logout") # {}
    OBVIOUS
  <2>0. StoreOK /\ TypeOK /\ CallsOK /\ Lineage /\ SentOwn /\ DeletedIs /\ RefusalIsDue
    BY <1>1 DEF IInv
  <2>1. mishap = {} /\ ~Crossed /\ ~Crossed'
    BY <1>1, MishapKept DEF Crossed
  <2>2. tokens \in Known /\ tokens # NoPair /\ api = tokens /\ Owner(tokens) = user
    BY <2>0, <2>1 DEF StoreOK, TypeOK
  <2>3. ~StoreKept
    BY DEF StoreKept
  <2>4. ASSUME NEW c \in Active, Ends(c) PROVE user \in deleted \/ Under("logout") # {}
    <3>1. CASE LoginDone(c)
      <4>1. user' \in Users
        BY <1>1, <2>4, <3>1, LoginDoneIs
      <4> QED BY <4>1, TokensAssumption
    <3>2. CASE ProfileDone(c)
      <4>1. user' = Owner(tokens)
        BY <1>1, <2>1, <2>4, <3>2, ProfileDoneIs
      <4> QED BY <2>2, <4>1
    <3>3. CASE LogoutDone(c)
      <4>1. c \in Under("logout")
        BY <3>3 DEF LogoutDone, Under
      <4> QED BY <4>1
    <3>4. CASE DeleteDone(c) /\ SignOut(call[c].held, refreshing)
      <4>1. Root(call[c].held) = Root(tokens)
        BY <2>1, <3>4, SignOutIs
      <4>2. c \in Under("delete") /\ call[c].kind # "login" /\ call[c].answer = "ok"
        BY <3>4 DEF DeleteDone, Under
      <4>3. Root(call[c].sent) = Root(tokens) /\ call[c].sent \in Known
        BY <2>0, <2>1, <4>1, <4>2, ActiveIs DEF SentOwn, Requests
      <4>4. Owner(call[c].sent) = user
        BY <2>0, <2>2, <4>3, SameRoot
      <4> QED BY <2>0, <4>2, <4>4 DEF DeletedIs
    <3> QED BY <2>2, <2>3, <2>4, <3>1, <3>2, <3>3, <3>4, EndsStore
  <2>5. CASE RefreshDone
    <3>1. refreshing.pc = "refused" /\ SignOut(refreshing.pair, NoRefresh)
      BY <2>5, RefreshDoneIs
    <3>2. Root(refreshing.pair) = Root(tokens)
      BY <2>1, <3>1, SignOutIs
    <3>3. user \in deleted \/ Leaving \/ tokens \in ended
      BY <2>0, <2>1, <3>1, <3>2 DEF RefusalIsDue
    <3> QED BY <3>3 DEF Leaving
  <2> QED BY <1>1, <2>3, <2>4, <2>5, OthersStore
<1>2. IInv /\ [Next]_vars => [Stays]_vars
  BY <1>1
<1>3. StaysSignedIn <=> [][Stays]_vars
  BY DEF StaysSignedIn
<1> HIDE DEF Stays
<1> QED BY <1>2, <1>3, Invariant, PTL DEF Spec
===============================================================================

----------------------------- MODULE AuthClient -----------------------------
(***************************************************************************)
(* The signed-in user of tuning-desktop's pages: the API client            *)
(* (renderer/lib/cloud-api.ts), the persisted auth store                   *)
(* (stores/auth-store.ts) and the pages that use them (LoginPage,          *)
(* ProfilePage, Sidebar), against cloud-api, whose refresh tokens are      *)
(* exchanged once (OneSuccessor of Accounts).                              *)
(*                                                                         *)
(* Tokens come in pairs, numbered in the order in which they were issued:  *)
(* an access token, which expires, and the refresh token it came with.  A  *)
(* call of a page and the refresh that calls share interleave at every     *)
(* await; the code between two awaits is one step, and so is the server's  *)
(* handling of a request (Accounts has its statements).                    *)
(***************************************************************************)
EXTENDS Naturals, FiniteSets

CONSTANTS
  Users,     \* accounts
  Calls,     \* calls of pages under way at the same time
  MaxTokens, \* bound: pairs of tokens
  None,
  Settings   \* the instances explored: how many calls run at the same time
             \* (together), whether requests and answers may get lost (faults),
             \* whether sign-ins are ended from elsewhere (elsewhere), how often
             \* the application may be closed (launches), and how many of the
             \* pairs stay unused (spare)

ASSUME TokensAssumption == MaxTokens \in Nat /\ None \notin Users
ASSUME CallsAssumption == IsFiniteSet(Calls)
ASSUME SettingsAssumption == \A s \in Settings : s.launches \in Nat /\ s.spare \in Nat

Pairs == 1 .. MaxTokens
NoPair == 0

VARIABLES
  setting,
  user,       \* the store's user; None: isAuthenticated is false
  tokens,     \* the store's tokens, persisted
  api,        \* _accessToken and _refreshToken of the client
  refreshing, \* _refreshPromise: the pair it exchanges, and what came of it
  call,       \* the calls under way
  issued,     \* server: user of each pair, and the sign-in it descends from
  live,       \* server: refresh tokens that no request of this client has revoked
  ended,      \* server: those that have expired or were revoked from elsewhere
  fresh,      \* access tokens that have not expired
  deleted,    \* server: users.deletedAt
  left,       \* history: sign-ins that were ended by a logout
  mishap,     \* history: what the properties do not hold after: "undone",
              \* "crossed" and "lost", each set where it happens
  launches

store == <<user, tokens>>
server == <<issued, live, ended, fresh, deleted>>
history == <<left, mishap>>
vars == <<setting, store, api, refreshing, call, server, history, launches>>

Idle == [pc |-> "idle"]
Active == {c \in Calls : call[c] # Idle}
At(c, pc) == call[c].pc = pc
Under(kind) == {c \in Active : call[c].kind = kind}
NoRefresh == [pc |-> "none", pair |-> NoPair]

Unissued == {n \in Pairs : issued[n].user = None}
Newest == CHOOSE n \in Unissued : \A m \in Unissued : n <= m
Owner(n) == IF n = NoPair THEN None ELSE issued[n].user
Root(n) == IF n = NoPair THEN NoPair ELSE issued[n].root

-----------------------------------------------------------------------------
(* The server (external here: Accounts).                                   *)

\* A new pair; root is the pair of the sign-in it descends from, if any.
Issue(u, root) ==
  /\ issued' = [issued EXCEPT ![Newest] =
       [user |-> u, root |-> IF root = NoPair THEN Newest ELSE root]]
  /\ fresh' = fresh \cup {Newest}

\* requireAuth
Authorized(n) == n \in fresh /\ Owner(n) \notin deleted

Reply(c, answer, n) ==
  call' = [call EXCEPT ![c].pc = "answered", ![c].answer = answer, ![c].pair = n]

\* POST /login and /register, GET and PATCH /users/me, POST /logout,
\* DELETE /users/me.  A wrong password is answered with 401 as well.
ServeLogin(c) ==
  \/ /\ call[c].who \notin deleted
     /\ Issue(call[c].who, NoPair) /\ live' = live \cup {Newest}
     /\ Reply(c, "ok", Newest) /\ UNCHANGED <<ended, deleted>>
  \/ Reply(c, "401", NoPair) /\ UNCHANGED server

\* Mutant for LogoutEndsSession: called without the refresh token.
ServeBareLogout(c) == Reply(c, "ok", NoPair) /\ UNCHANGED server

ServeLogout(c) ==
  /\ live' = IF Owner(call[c].held) = Owner(call[c].sent) THEN live \ {call[c].held} ELSE live
  /\ Reply(c, "ok", NoPair) /\ UNCHANGED <<issued, ended, fresh, deleted>>

ServeDelete(c) ==
  \/ /\ deleted' = deleted \cup {Owner(call[c].sent)}
     /\ live' = {n \in live : Owner(n) # Owner(call[c].sent)}
     /\ Reply(c, "ok", NoPair) /\ UNCHANGED <<issued, ended, fresh>>
  \/ Reply(c, "401", NoPair) /\ UNCHANGED server

Serve(c) ==
  /\ At(c, "sent")
  /\ CASE call[c].kind = "login" -> ServeLogin(c)
       [] call[c].kind # "login" /\ ~Authorized(call[c].sent) -> Reply(c, "401", NoPair) /\ UNCHANGED server
       [] call[c].kind = "profile" /\ Authorized(call[c].sent) -> Reply(c, "ok", NoPair) /\ UNCHANGED server
       [] call[c].kind = "logout" /\ Authorized(call[c].sent) -> ServeLogout(c)
       [] call[c].kind = "delete" /\ Authorized(call[c].sent) -> ServeDelete(c)
  /\ UNCHANGED <<setting, store, api, refreshing, history, launches>>

\* POST /refresh: revoked and replaced, if it is neither revoked nor expired.
ServeRefresh ==
  LET n == refreshing.pair IN
  /\ refreshing.pc = "sent"
  /\ IF n \in live \ ended
     THEN /\ live' = (live \ {n}) \cup {Newest} /\ Issue(Owner(n), Root(n))
          /\ refreshing' = [pc |-> "ok", pair |-> Newest] /\ UNCHANGED <<ended, deleted>>
     ELSE refreshing' = [pc |-> "refused", pair |-> n] /\ UNCHANGED server
  /\ UNCHANGED <<setting, store, api, call, history, launches>>

\* The oldest access token expires.
Expire ==
  /\ \E n \in fresh : (\A m \in fresh : n <= m) /\ fresh' = fresh \ {n}
  /\ UNCHANGED <<setting, store, api, refreshing, call, issued, live, ended, deleted, history, launches>>

\* Thirty days are over for the oldest refresh token, after its access token's
\* minutes; or a password is reset or changed in a browser (POST /reset-password,
\* POST /me/password), which revokes every refresh token of the account.
EndElsewhere ==
  /\ setting.elsewhere
  /\ \/ \E n \in live \ (ended \cup fresh) : (\A m \in live \ ended : n <= m) /\ ended' = ended \cup {n}
     \/ \E u \in Users \ deleted : ended' = ended \cup {n \in live : Owner(n) = u}
  /\ UNCHANGED <<setting, store, api, refreshing, call, issued, live, fresh, deleted, history, launches>>

\* A request or its answer gets lost, or is answered with another error.
LoseCall(c) ==
  /\ setting.faults /\ (At(c, "sent") \/ At(c, "answered")) /\ call[c].answer # "error"
  /\ Reply(c, "error", NoPair)
  /\ UNCHANGED <<setting, store, api, refreshing, server, history, launches>>

LoseRefresh ==
  /\ setting.faults /\ refreshing.pc \in {"sent", "ok"}
  /\ refreshing' = [refreshing EXCEPT !.pc = "refused"]
  /\ mishap' = mishap \cup {"lost"}
  /\ UNCHANGED <<setting, store, api, call, server, left, launches>>

-----------------------------------------------------------------------------
(* auth-store.ts                                                           *)

\* Mutant for TypeOK: the client's own tokens are not set.
StoreOnly(u, n) == user' = u /\ tokens' = n /\ UNCHANGED api

setAuth(u, n) == user' = u /\ tokens' = n /\ api' = n

\* Mutant for SessionUsable: onTokenRefreshed is not wired to the store.
MemoryOnly(n) == api' = n /\ UNCHANGED store

updateTokens(n) == tokens' = n /\ api' = n /\ UNCHANGED user

\* It does not stop a refresh under way, whose answer will put tokens back.
clearAuth == user' = None /\ tokens' = NoPair /\ api' = NoPair

\* clearAuth at the end of a call or of a refresh that held the pair n: it
\* crosses a refresh under way, or a newer sign-in.
SignOut(n, r) ==
  /\ clearAuth
  /\ mishap' = IF r.pc \in {"sent", "ok"} \/ (user # None /\ Root(n) # Root(tokens))
               THEN mishap \cup {"crossed"} ELSE mishap

-----------------------------------------------------------------------------
(* cloud-api.ts and the pages: what follows each await.                    *)

Request(kind, who) ==
  [kind |-> kind, pc |-> "sent", who |-> who, held |-> tokens, sent |-> api,
   retry |-> TRUE, answer |-> "none", pair |-> NoPair]

End(c) == call' = [call EXCEPT ![c] = Idle]

\* request: a 401 is followed by a refresh, which concurrent calls share.
RefreshAccessToken(c) ==
  /\ call[c].answer = "401" /\ call[c].retry
  /\ IF api = NoPair
     THEN clearAuth /\ UNCHANGED mishap /\ End(c) /\ UNCHANGED <<refreshing, left>>
     ELSE /\ call' = [call EXCEPT ![c].pc = "waiting"]
          /\ refreshing' = IF refreshing = NoRefresh
                           THEN [pc |-> "sent", pair |-> api] ELSE refreshing
          /\ UNCHANGED <<store, api, history>>

\* Mutant for StaysSignedIn: any 401 signs the user out.
FailedSignsOut(c) ==
  /\ call[c].answer = "error" \/ (call[c].answer = "401" /\ ~call[c].retry)
  /\ call[c].kind # "logout"
  /\ IF call[c].answer = "401" THEN clearAuth ELSE UNCHANGED <<store, api>>
  /\ UNCHANGED history

Failed(c) ==
  /\ call[c].answer = "error" \/ (call[c].answer = "401" /\ ~call[c].retry)
  /\ call[c].kind # "logout"
  /\ UNCHANGED <<store, api, history>>

LoginDone(c) ==
  /\ call[c].kind = "login" /\ call[c].answer = "ok"
  /\ setAuth(call[c].who, call[c].pair) /\ UNCHANGED history

\* handleRefreshProfile and handleSaveName write back the pair they captured
\* before the call, whatever became of it in the meantime.
ProfileDone(c) ==
  /\ call[c].kind = "profile" /\ call[c].answer = "ok"
  /\ IF call[c].held # NoPair
     THEN setAuth(Owner(call[c].sent), call[c].held)
     ELSE UNCHANGED <<store, api>>
  /\ mishap' = mishap \cup
       IF Root(call[c].held) # Root(tokens) THEN {"crossed"}
       ELSE IF call[c].held # tokens THEN {"undone"} ELSE {}
  /\ UNCHANGED left

\* logout clears the store whatever the answer.  It ends the sign-in when the
\* token it sent was still the current one.
LogoutDone(c) ==
  /\ call[c].kind = "logout" /\ ~(call[c].answer = "401" /\ call[c].retry)
  /\ SignOut(call[c].held, refreshing)
  /\ left' = IF call[c].answer = "ok" /\ call[c].held = tokens /\ refreshing = NoRefresh
             THEN left \cup {Root(tokens)} ELSE left

DeleteDone(c) ==
  /\ call[c].kind = "delete" /\ call[c].answer = "ok"
  /\ SignOut(call[c].held, refreshing) /\ UNCHANGED left

Answered(c) ==
  /\ At(c, "answered")
  /\ \/ RefreshAccessToken(c)
     \/ /\ Failed(c) \/ LoginDone(c) \/ ProfileDone(c) \/ LogoutDone(c) \/ DeleteDone(c)
        /\ End(c) /\ UNCHANGED refreshing
  /\ UNCHANGED <<setting, server, launches>>

Resend ==
  call' = [c \in Calls |->
    IF At(c, "waiting")
    THEN [call[c] EXCEPT !.pc = "sent", !.sent = refreshing.pair,
                         !.retry = FALSE, !.answer = "none"]
    ELSE call[c]]

\* Mutant for CallsEnd: nobody tells those who wait.
NobodyTold == UNCHANGED call

GiveUp == call' = [c \in Calls |-> IF At(c, "waiting") THEN Idle ELSE call[c]]

\* The shared refresh is over: every call that waits for it is sent again,
\* once, or fails; and when it fails, the store is cleared (onAuthError), which
\* a network error does as well.
RefreshDone ==
  /\ refreshing.pc \in {"ok", "refused"}
  /\ refreshing' = NoRefresh
  /\ IF refreshing.pc = "ok"
     THEN updateTokens(refreshing.pair) /\ Resend /\ UNCHANGED mishap
     ELSE SignOut(refreshing.pair, NoRefresh) /\ GiveUp
  /\ UNCHANGED <<setting, server, left, launches>>

\* A page starts a call.  The login and the account page are shown by whether
\* a user is signed in; a button is disabled while its own call runs, save for
\* the sidebar's Sign out.  Two buttons of the account page write its profile.
Start(c, kind, who) ==
  /\ call[c] = Idle /\ Cardinality(Active) < setting.together
  /\ \/ kind = "logout" \/ Under(kind) = {}
     \/ kind = "profile" /\ Cardinality(Under(kind)) < 2
  /\ IF kind = "login" THEN user = None ELSE user # None /\ who = user
  /\ Cardinality(Active) + Cardinality(Under("login")) + (IF kind = "login" THEN 2 ELSE 1)
       + setting.spare <= Cardinality(Unissued)
  /\ call' = [call EXCEPT ![c] = Request(kind, who)]
  /\ UNCHANGED <<setting, store, api, refreshing, server, history, launches>>

\* The application is closed and opened: initialize and onRehydrateStorage.
\* An answer it no longer hears is lost; so is the end of a logout.
Relaunch ==
  /\ launches < setting.launches /\ launches' = launches + 1
  /\ call' = [c \in Calls |-> Idle] /\ refreshing' = NoRefresh
  /\ api' = tokens
  /\ mishap' = IF refreshing.pc = "ok" \/ Under("logout") # {}
               THEN mishap \cup {"lost"} ELSE mishap
  /\ UNCHANGED <<setting, store, server, left>>

-----------------------------------------------------------------------------
Init ==
  /\ setting \in Settings
  /\ user = None /\ tokens = NoPair /\ api = NoPair
  /\ refreshing = NoRefresh /\ call = [c \in Calls |-> Idle]
  /\ issued = [n \in Pairs |-> [user |-> None, root |-> NoPair]]
  /\ live = {} /\ ended = {} /\ fresh = {} /\ deleted = {}
  /\ left = {} /\ mishap = {} /\ launches = 0

Next ==
  \/ \E c \in Calls, kind \in {"login", "profile", "logout", "delete"}, who \in Users :
       Start(c, kind, who)
  \/ \E c \in Calls : Serve(c)
  \/ \E c \in Calls : Answered(c)
  \/ \E c \in Calls : LoseCall(c)
  \/ ServeRefresh \/ RefreshDone \/ LoseRefresh \/ Expire \/ EndElsewhere \/ Relaunch

Spec == Init /\ [][Next]_vars

\* Requests are answered or time out, and continuations run.
FairSpec ==
  /\ Spec
  /\ \A c \in Calls : WF_vars(Serve(c)) /\ WF_vars(Answered(c))
  /\ WF_vars(ServeRefresh) /\ WF_vars(RefreshDone)

-----------------------------------------------------------------------------
(* Properties                                                              *)

\* The variables have their types; the client's pair is the store's; calls
\* wait for a refresh exactly while there is one.
TypeOK ==
  /\ setting \in Settings /\ user \in Users \cup {None}
  /\ tokens \in Pairs \cup {NoPair} /\ api = tokens
  /\ refreshing.pc \in {"none", "sent", "ok", "refused"}
  /\ (refreshing # NoRefresh) <=> \E c \in Calls : At(c, "waiting")
  /\ \A c \in Active : /\ call[c].pc \in {"sent", "answered", "waiting"}
                       /\ call[c].sent \in Pairs \cup {NoPair}
  /\ \A n \in Pairs : Owner(n) \in Users \cup {None} /\ Root(n) \in Pairs \cup {NoPair}
  /\ live \subseteq Pairs \ Unissued /\ ended \subseteq Pairs \ Unissued /\ fresh \subseteq Pairs \ Unissued
  /\ deleted \subseteq Users /\ left \subseteq Pairs
  /\ mishap \subseteq {"undone", "crossed", "lost"} /\ launches \in 0 .. setting.launches

\* Whoever is shown as signed in holds tokens of their own and can go on: the
\* store's refresh token is one that cloud-api still exchanges, or its exchange
\* is about to be stored, or one that has expired or was revoked by a change of
\* the password elsewhere; save for an account that is deleted, a logout under
\* way, and the mishaps, of which only a crossed sign-out can store another
\* user's tokens.  It relates the persisted store to the refreshTokens table
\* across every interleaving of calls, expiries and refreshes: the client
\* itself never spends the token it keeps (refreshAccessToken, updateTokens,
\* setAuth, clearAuth).
SessionUsable ==
  user # None =>
    /\ Owner(tokens) = user \/ "crossed" \in mishap
    /\ \/ tokens \in live \ ended
       \/ refreshing.pc = "ok" /\ refreshing.pair \in live \ ended
       \/ tokens \in ended \/ (refreshing.pc = "ok" /\ refreshing.pair \in ended)
       \/ user \in deleted \/ Under("logout") # {} \/ mishap # {}

\* A user is signed out only by a logout, a deletion, after a mishap, or when
\* the very token of the store has expired or was revoked elsewhere: not by a
\* wrong password, an expired access token, two calls that find it expired, or
\* a call that fails (request, onAuthError).
StaysSignedIn ==
  [][user # None /\ user' = None =>
       tokens \in ended \/ user \in deleted \/ Under("logout") # {} \/ mishap' # {}]_vars

\* A sign-in that a logout ended has no refresh token left at the server,
\* unless one was exchanged without the store keeping it (a mishap).
LogoutEndsSession ==
  \A n \in live : Root(n) \in left => mishap # {}

\* Every call of a page ends: none waits for a refresh that is over, and none
\* is sent a third time (retry).
CallsEnd == \A c \in Calls : call[c] # Idle ~> call[c] = Idle
===============================================================================

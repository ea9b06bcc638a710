--------------------------- MODULE ClientSession ---------------------------
(***************************************************************************)
(* The session of one browser tab: the token store (lib/auth-store.ts), the *)
(* request wrapper with its shared token refresh (lib/api.ts), sign-in,     *)
(* registration, sign-out and the guard of the protected routes, against    *)
(* the server's rotation of refresh tokens.                                 *)
(*                                                                          *)
(* The server issues access and refresh tokens in pairs; a pair is named by *)
(* a number that no pair has had before and NoPair stands for no            *)
(* token.  A request runs in the steps between which other code can run:    *)
(* it is sent, the server decides, the answer reaches the tab.              *)
(***************************************************************************)
EXTENDS Naturals

CONSTANTS
  Accounts,    \* the accounts that sign in from this tab
  MfaUsers,    \* those that sign in with a second factor
  Nobody,      \* no account
  Calls,       \* requests that can be under way at once
  Landing,     \* the call in Calls by which the login page reads /auth/me
  MaxPairs     \* token pairs the server issues (bound)

ASSUME CallsAssumption == Landing \in Calls
ASSUME AccountsAssumption == Nobody \notin Accounts /\ MfaUsers \subseteq Accounts
ASSUME PairsAssumption == MaxPairs \in Nat

Pairs == 1..MaxPairs
NoPair == 0

VARIABLES
  owner,        \* server: the account each issued pair belongs to
  refreshState, \* server: what has become of each refresh token
  expired,      \* server: the pairs whose access token is too old
  registered,   \* server: the accounts that exist
  access, refresh, user,   \* the tab's store
  route,        \* the tab's page
  needMfa,      \* the login page asks for the second factor
  form,         \* the sign-in or registration under way
  refreshPromise, \* the refresh under way
  call,         \* the requests under way
  overtaken     \* history: a session began or ended while another was under way

serverVars == <<owner, refreshState, expired, registered>>
store == <<access, refresh, user>>
vars == <<serverVars, store, route, needMfa, form, refreshPromise, call, overtaken>>

NoForm == [kind |-> "none", at |-> "idle", acct |-> Nobody, pair |-> NoPair]
NoRefresh == [at |-> "idle", of |-> NoPair, got |-> NoPair]
NoCall == [at |-> "idle", tok |-> NoPair, again |-> FALSE]

Issued == {p \in Pairs : owner[p] # Nobody}
NextPair == CHOOSE p \in Pairs : owner[p] = Nobody
CanIssue == Issued # Pairs

Init ==
  /\ owner = [p \in Pairs |-> Nobody]
  /\ refreshState = [p \in Pairs |-> "unissued"]
  /\ expired = {}
  /\ registered = MfaUsers
  /\ access = NoPair /\ refresh = NoPair /\ user = Nobody
  /\ route = "/login"
  /\ needMfa = FALSE
  /\ form = NoForm
  /\ refreshPromise = NoRefresh
  /\ call = [c \in Calls |-> NoCall]
  /\ overtaken = FALSE

(***************************************************************************)
(* The store.                                                              *)
(***************************************************************************)
\* setTokens: both tokens of a pair, the user is left as it is.
SetTokens(p) == access' = p /\ refresh' = p /\ UNCHANGED user

\* Mutant of Clear: the user's name outlives the tokens.
ClearKeepsUser == access' = NoPair /\ refresh' = NoPair /\ UNCHANGED user

\* clear: sign-out and every failed refresh.
Clear == access' = NoPair /\ refresh' = NoPair /\ user' = Nobody

\* An answer to the session is still on its way.
Pending == refreshPromise # NoRefresh \/ \E c \in Calls : call[c] # NoCall

\* A new pair for an account, on the server.
Issue(a) ==
  /\ owner' = [owner EXCEPT ![NextPair] = a]
  /\ refreshState' = [refreshState EXCEPT ![NextPair] = "live"]

(***************************************************************************)
(* Registration and sign-in.                                               *)
(***************************************************************************)
\* The two forms are submitted while no earlier submission is pending.  (Bound: the
\* sign-in before it has also read its account.)
Submit(kind, a) ==
  /\ route = (IF kind = "login" THEN "/login" ELSE "/register")
  /\ form = NoForm /\ call[Landing] = NoCall
  /\ form' = [NoForm EXCEPT !.kind = kind, !.at = "sent", !.acct = a]
  /\ UNCHANGED <<serverVars, store, route, needMfa, refreshPromise, call, overtaken>>

\* A page left behind loses its state.  (Bound: its submission has been answered.)
Leave(to) ==
  /\ form = NoForm
  /\ route' = to
  /\ needMfa' = FALSE
  /\ UNCHANGED form

\* The link between the two forms.
SwitchForm ==
  /\ route \in {"/login", "/register"}
  /\ Leave(IF route = "/login" THEN "/register" ELSE "/login")
  /\ UNCHANGED <<serverVars, store, refreshPromise, call, overtaken>>

ServeRegister ==
  /\ form.kind = "register" /\ form.at = "sent"
  /\ registered' = registered \cup {form.acct}
  /\ form' = [form EXCEPT !.at = IF form.acct \in registered THEN "refused" ELSE "done"]
  /\ UNCHANGED <<owner, refreshState, expired, store, route, needMfa, refreshPromise, call,
                 overtaken>>

\* POST /auth/login/json: refused, or a second factor is asked for, or a pair.
ServeLogin ==
  /\ form.kind = "login" /\ form.at = "sent"
  /\ \/ /\ form' = [form EXCEPT !.at = "refused"]
        /\ UNCHANGED <<owner, refreshState>>
     \/ /\ form.acct \in registered \cap MfaUsers /\ ~needMfa
        /\ form' = [form EXCEPT !.at = "mfa"]
        /\ UNCHANGED <<owner, refreshState>>
     \/ /\ form.acct \in registered /\ (form.acct \in MfaUsers => needMfa)
        /\ CanIssue
        /\ Issue(form.acct)
        /\ form' = [form EXCEPT !.at = "done", !.pair = NextPair]
  /\ UNCHANGED <<expired, registered, store, route, needMfa, refreshPromise, call, overtaken>>

Registered ==
  /\ form.kind = "register" /\ form.at \in {"done", "refused"}
  /\ route' = (IF form.at = "done" THEN "/login" ELSE route)
  /\ form' = NoForm
  /\ UNCHANGED <<serverVars, store, needMfa, refreshPromise, call, overtaken>>

\* The login page's answer: an error message, the second step, or the tokens,
\* after which the page asks for the account before it enters the application.
LoggedIn ==
  /\ form.kind = "login" /\ form.at \in {"done", "refused", "mfa"}
  /\ needMfa' = (needMfa \/ form.at = "mfa")
  /\ IF form.at = "done"
       THEN /\ SetTokens(form.pair)
            /\ call' = [call EXCEPT ![Landing] =
                          [at |-> "sent", tok |-> form.pair, again |-> FALSE]]
            /\ overtaken' = (overtaken \/ Pending \/ access # NoPair)
       ELSE UNCHANGED <<store, call, overtaken>>
  /\ form' = NoForm
  /\ UNCHANGED <<serverVars, route, refreshPromise>>

(***************************************************************************)
(* Requests (apiFetch) and the refresh they share (refreshAccessToken).    *)
(***************************************************************************)
\* A page sends a request with the access token of the moment.  The store never
\* holds one token of a pair alone, so a request without an access token finds
\* no refresh token either and leaves unauthorized.
Send(c) ==
  /\ route = "/app" /\ c # Landing
  /\ call[c] = NoCall
  /\ call' = [call EXCEPT ![c] = [at |-> "sent", tok |-> access, again |-> FALSE]]
  /\ UNCHANGED <<serverVars, store, route, needMfa, form, refreshPromise, overtaken>>

\* The server answers a request, or the connection fails.
Serve(c) ==
  /\ call[c].at = "sent"
  /\ \/ call' = [call EXCEPT ![c].at =
                   IF call[c].tok \in expired \cup {NoPair} THEN "401" ELSE "ok"]
     \/ call' = [call EXCEPT ![c].at = "error"]
  /\ UNCHANGED <<serverVars, store, route, needMfa, form, refreshPromise, overtaken>>

\* Mutant of JoinedRefresh: every caller starts a refresh of its own.
RefreshAlone == [NoRefresh EXCEPT !.at = "sent", !.of = refresh]

\* The refresh a caller joins, or starts with the store's refresh token.
JoinedRefresh ==
  IF refreshPromise = NoRefresh
    THEN [NoRefresh EXCEPT !.at = "sent", !.of = refresh]
    ELSE refreshPromise

\* The first 401 of a request, with a refresh token to try.
Unauthorized(c) ==
  /\ call[c].at = "401" /\ ~call[c].again /\ refresh # NoPair
  /\ refreshPromise' = JoinedRefresh
  /\ call' = [call EXCEPT ![c].at = "waits"]
  /\ UNCHANGED <<serverVars, store, route, needMfa, form, overtaken>>

\* The request fails: a connection error, a 401 with no refresh token, or the
\* second 401 of a request that was sent again.
Fail(c) ==
  /\ \/ call[c].at = "error"
     \/ call[c].at = "401" /\ (call[c].again \/ refresh = NoPair)
  /\ call' = [call EXCEPT ![c] = NoCall]
  /\ UNCHANGED <<serverVars, store, route, needMfa, form, refreshPromise, overtaken>>

\* The request succeeds.  GET /auth/me names the user in the store (other requests
\* do not), and the login page then enters the application, also when its user
\* has moved on meanwhile.
Deliver(c) ==
  /\ call[c].at = "ok"
  /\ call' = [call EXCEPT ![c] = NoCall]
  /\ user' \in {owner[call[c].tok]} \cup (IF c = Landing THEN {} ELSE {user})
  /\ IF c = Landing THEN Leave("/app") ELSE UNCHANGED <<route, needMfa, form>>
  /\ UNCHANGED <<serverVars, access, refresh, refreshPromise, overtaken>>

\* POST /auth/refresh: the presented token is revoked and replaced by a new pair
\* of its family.
Rotate ==
  /\ refreshPromise.at = "sent"
  /\ refreshState[refreshPromise.of] = "live" /\ CanIssue
  /\ owner' = [owner EXCEPT ![NextPair] = owner[refreshPromise.of]]
  /\ refreshState' = [refreshState EXCEPT ![refreshPromise.of] = "revoked",
                                          ![NextPair] = "live"]
  /\ refreshPromise' = [refreshPromise EXCEPT !.at = "done", !.got = NextPair]
  /\ UNCHANGED <<expired, registered, store, route, needMfa, form, call, overtaken>>

\* A revoked or outdated refresh token, or a failing server.
RefuseRotation ==
  /\ refreshPromise.at = "sent"
  /\ refreshPromise' = [refreshPromise EXCEPT !.at = "refused"]
  /\ UNCHANGED <<serverVars, store, route, needMfa, form, call, overtaken>>

\* Mutant of Woken: only one of the waiting requests goes on.
WokenOne(p) ==
  LET w == CHOOSE c \in Calls : call[c].at = "waits"
  IN [call EXCEPT ![w] = IF p = NoPair THEN NoCall ELSE [at |-> "sent", tok |-> p, again |-> TRUE]]

\* Mutant of Woken: a request sent again does not know that it was.
WokenUnmarked(p) ==
  [c \in Calls |->
     IF call[c].at # "waits" THEN call[c]
     ELSE IF p = NoPair THEN NoCall
     ELSE [at |-> "sent", tok |-> p]]

\* Every request that waits for the refresh goes on when it settles: it is sent
\* again with the new token, or it fails when there is none.
Woken(p) ==
  [c \in Calls |->
     IF call[c].at # "waits" THEN call[c]
     ELSE IF p = NoPair THEN NoCall
     ELSE [at |-> "sent", tok |-> p, again |-> TRUE]]

\* Mutant of Refreshed: the rotated refresh token is not replaced.
RefreshedAccessOnly ==
  /\ refreshPromise.at = "done"
  /\ access' = refreshPromise.got /\ UNCHANGED <<refresh, user>>
  /\ call' = Woken(refreshPromise.got)
  /\ refreshPromise' = NoRefresh
  /\ UNCHANGED <<serverVars, route, needMfa, form, overtaken>>

\* The refresh succeeds: the new pair replaces whatever the store holds by now.
Refreshed ==
  /\ refreshPromise.at = "done"
  /\ SetTokens(refreshPromise.got)
  /\ call' = Woken(refreshPromise.got)
  /\ refreshPromise' = NoRefresh
  /\ UNCHANGED <<serverVars, route, needMfa, form, overtaken>>

\* The refresh is refused, or its answer is lost: the store is cleared.
RefreshFailed ==
  /\ refreshPromise.at \in {"refused", "done"}
  /\ Clear
  /\ call' = Woken(NoPair)
  /\ refreshPromise' = NoRefresh
  /\ overtaken' = (overtaken \/ \E c \in Calls : call'[c] # NoCall)
  /\ UNCHANGED <<serverVars, route, needMfa, form>>

(***************************************************************************)
(* Navigation, sign-out, reload and time.                                  *)
(***************************************************************************)
\* Sign out: the store is cleared; nothing is sent and nothing is aborted.
SignOut ==
  /\ route = "/app"
  /\ Clear
  /\ Leave("/login")
  /\ overtaken' = (overtaken \/ Pending)
  /\ UNCHANGED <<serverVars, refreshPromise, call>>

\* ProtectedRoute: without a token the login page replaces the application.
Redirect ==
  /\ route = "/app" /\ access = NoPair /\ refresh = NoPair
  /\ Leave("/login")
  /\ UNCHANGED <<serverVars, store, refreshPromise, call, overtaken>>

\* The browser's history leads back to the application while a token is held.
GoBack ==
  /\ route # "/app" /\ access # NoPair
  /\ Leave("/app")
  /\ UNCHANGED <<serverVars, store, refreshPromise, call, overtaken>>

\* Tokens live in memory only: a reload starts from an empty store, at "/", from
\* where the guard leads to the login page.
Reload ==
  /\ access' = NoPair /\ refresh' = NoPair /\ user' = Nobody
  /\ route' = "/login" /\ needMfa' = FALSE
  /\ form' = NoForm /\ refreshPromise' = NoRefresh
  /\ call' = [c \in Calls |-> NoCall]
  /\ overtaken' = FALSE
  /\ UNCHANGED serverVars

Expire(p) ==
  /\ p \in Issued
  /\ \/ /\ p \notin expired /\ expired' = expired \cup {p}
        /\ UNCHANGED refreshState
     \/ /\ refreshState[p] = "live"
        /\ refreshState' = [refreshState EXCEPT ![p] = "outdated"]
        /\ UNCHANGED expired
  /\ UNCHANGED <<owner, registered, store, route, needMfa, form, refreshPromise, call, overtaken>>

FormStep == ServeRegister \/ ServeLogin \/ Registered \/ LoggedIn
RefreshStep == Rotate \/ RefuseRotation \/ Refreshed \/ RefreshFailed

Progress(c) == Serve(c) \/ Unauthorized(c) \/ Fail(c) \/ Deliver(c)

Next ==
  \/ \E a \in Accounts, kind \in {"login", "register"} : Submit(kind, a)
  \/ SwitchForm \/ SignOut \/ Redirect \/ GoBack \/ Reload
  \/ FormStep \/ RefreshStep
  \/ \E c \in Calls : Send(c) \/ Progress(c)
  \/ \E p \in Pairs : Expire(p)

Spec == Init /\ [][Next]_vars

\* Browser and server answer: a request, a form or a refresh under way goes on.
\* Nobody is obliged to click.
Fairness ==
  /\ WF_vars(FormStep) /\ WF_vars(RefreshStep)
  /\ \A c \in Calls : WF_vars(Progress(c))

FairSpec == Spec /\ Fairness

(***************************************************************************)
(* Properties.                                                             *)
(***************************************************************************)
PairOrNone == Pairs \cup {NoPair}
Form == [kind : {"none", "login", "register"},
         at : {"idle", "sent", "done", "refused", "mfa"},
         acct : Accounts \cup {Nobody}, pair : PairOrNone]
Refresh == [at : {"idle", "sent", "done", "refused"}, of : PairOrNone, got : PairOrNone]
Call == [at : {"idle", "sent", "ok", "401", "error", "waits"},
         tok : PairOrNone, again : BOOLEAN]

TypeOK ==
  /\ owner \in [Pairs -> Accounts \cup {Nobody}]
  /\ refreshState \in [Pairs -> {"unissued", "live", "outdated", "revoked"}]
  /\ expired \subseteq Pairs
  /\ registered \subseteq Accounts
  /\ access \in PairOrNone /\ refresh \in PairOrNone
  /\ user \in Accounts \cup {Nobody}
  /\ route \in {"/login", "/register", "/app"}
  /\ needMfa \in BOOLEAN /\ overtaken \in BOOLEAN
  /\ form \in Form /\ refreshPromise \in Refresh /\ call \in [Calls -> Call]

\* However many requests fail at once, the tab never presents a refresh token
\* that the server has already rotated (which the server takes for a replay and
\* answers by closing the whole family): one refresh is shared, its answer
\* replaces the token, and a lost answer drops it.
NeverReplaysRefresh ==
  refreshPromise.at = "sent" => refreshState[refreshPromise.of] # "revoked"

\* The refresh token the tab holds is one the server still knows as the last of
\* its family, except while the answer that replaces it is on its way.
HeldTokenIsCurrent ==
  refresh # NoPair =>
    \/ refreshState[refresh] # "revoked"
    \/ refreshPromise.at = "done" /\ refreshPromise.of = refresh

\* The name the shell shows is the name of the account the tokens belong to, as
\* long as no sign-in or sign-out overtook a session or an answer under way.
NameMatchesSession ==
  ~overtaken /\ user # Nobody /\ access # NoPair => user = owner[access]

\* Every request of a page is settled in the end, also those that wait for a
\* refresh somebody else started.
CallsSettle == \A c \in Calls : call[c] # NoCall ~> call[c] = NoCall
=============================================================================

------------------------ MODULE ClientSessionProofs ------------------------
(***************************************************************************)
(* Proofs about the browser's session for any accounts, any number of      *)
(* requests at once and any number of token pairs.                         *)
(*                                                                         *)
(* OnlyKnown says that every token in the tab is one the server issued,    *)
(* and Fresh that the server's rotations touch only the token that the     *)
(* shared refresh presents: together with the types they are inductive and *)
(* give the two properties of refresh tokens.  OneSession needs them and   *)
(* gives the name the shell shows.                                         *)
(***************************************************************************)
EXTENDS ClientSession, TLAPS

-----------------------------------------------------------------------------
(* The inductive strengthening, part by part. *)

Known(p) == p \in Pairs /\ owner[p] # Nobody

\* Every token in the tab was issued, and an answer that says so carries one.
OnlyKnown ==
  /\ access = refresh
  /\ refresh # NoPair => Known(refresh)
  /\ form.pair # NoPair => Known(form.pair)
  /\ form.at = "sent" => form.acct \in Accounts
  /\ form.kind = "login" /\ form.at = "done" => form.pair # NoPair
  /\ refreshPromise # NoRefresh => Known(refreshPromise.of)
  /\ refreshPromise.got # NoPair => Known(refreshPromise.got)
  /\ refreshPromise.at = "done" => refreshPromise.got # NoPair
  /\ \A c \in Calls : call[c].tok # NoPair => Known(call[c].tok)
  /\ \A c \in Calls : call[c].at = "ok" => call[c].tok # NoPair

\* A pair on its way to the tab has not been rotated, and is no pair the tab has.
Fresh ==
  /\ NeverReplaysRefresh
  /\ HeldTokenIsCurrent
  /\ refreshPromise.at = "done" => refreshState[refreshPromise.got] # "revoked"
  /\ form.pair # NoPair =>
       /\ refreshState[form.pair] # "revoked"
       /\ form.pair \notin {refresh, refreshPromise.of, refreshPromise.got}

\* Until a session is overtaken, everything in the tab belongs to one account.
OneSession ==
  ~overtaken =>
    /\ access = NoPair =>
         /\ user = Nobody /\ refreshPromise = NoRefresh
         /\ \A c \in Calls : call[c].tok = NoPair
    /\ access # NoPair =>
         /\ user \in {Nobody, owner[access]}
         /\ \A c \in Calls : call[c].tok # NoPair => owner[call[c].tok] = owner[access]
         /\ refreshPromise # NoRefresh => owner[refreshPromise.of] = owner[access]
         /\ refreshPromise.at = "done" => owner[refreshPromise.got] = owner[access]

IInv == TypeOK /\ OnlyKnown /\ Fresh /\ OneSession

-----------------------------------------------------------------------------
(* Types and origin of the tokens. *)

\* No token, and what there is before a submission, a refresh or a request.
LEMMA NoneType ==
  /\ NoPair \notin Pairs /\ NoPair \in PairOrNone /\ Pairs \subseteq PairOrNone
  /\ NoForm \in Form /\ NoRefresh \in Refresh /\ NoCall \in Call
BY DEF NoPair, Pairs, PairOrNone, NoForm, Form, NoRefresh, Refresh, NoCall, Call

\* The server finds a pair nobody has had while one is left.
LEMMA NextPairFree ==
  ASSUME CanIssue
  PROVE  NextPair \in Pairs /\ owner[NextPair] = Nobody
BY DEF CanIssue, Issued, NextPair

\* When a refresh settles, requests remain requests.
LEMMA WokenType ==
  ASSUME TypeOK, NEW p \in PairOrNone
  PROVE  Woken(p) \in [Calls -> Call]
BY NoneType DEF Woken, TypeOK, Call

\* Every step keeps the types.
LEMMA TypeStep == TypeOK /\ OnlyKnown /\ [Next]_vars => TypeOK'
  <1> SUFFICES ASSUME TypeOK, OnlyKnown, [Next]_vars PROVE TypeOK'
    OBVIOUS
  <1>1. ASSUME NEW a \in Accounts, NEW kind \in {"login", "register"}, Submit(kind, a)
        PROVE  TypeOK'
    BY <1>1 DEF Submit, Form, serverVars, TypeOK, store
  <1>2. ASSUME SwitchForm
        PROVE  TypeOK'
    BY <1>2 DEF SwitchForm, Leave, serverVars, TypeOK, store
  <1>3. ASSUME SignOut
        PROVE  TypeOK'
    <2>1. overtaken' \in BOOLEAN
      BY <1>3, ZenonT(20) DEF SignOut, TypeOK
    <2> QED
      BY <1>3, <2>1, NoneType DEF SignOut, Clear, Leave, serverVars, TypeOK
  <1>4. ASSUME Redirect
        PROVE  TypeOK'
    BY <1>4 DEF Redirect, Leave, serverVars, TypeOK, store
  <1>5. ASSUME GoBack
        PROVE  TypeOK'
    BY <1>5 DEF GoBack, Leave, serverVars, TypeOK, store
  <1>6. ASSUME Reload
        PROVE  TypeOK'
    BY <1>6, NoneType DEF Reload, serverVars, TypeOK
  <1>7. ASSUME ServeRegister
        PROVE  TypeOK'
    <2>1. form' \in Form
      BY <1>7 DEF ServeRegister, TypeOK, Form
    <2>2. registered' \subseteq Accounts
      BY <1>7 DEF ServeRegister, TypeOK, OnlyKnown
    <2> QED
      BY <1>7, <2>1, <2>2 DEF ServeRegister, TypeOK, store
  <1>8. ASSUME ServeLogin
        PROVE  TypeOK'
    <2>1. form' \in Form
      <3>1. CASE form' = [form EXCEPT !.at = "refused"]
        BY <3>1 DEF TypeOK, Form
      <3>2. CASE form' = [form EXCEPT !.at = "mfa"]
        BY <3>2 DEF TypeOK, Form
      <3>3. CASE CanIssue /\ form' = [form EXCEPT !.at = "done", !.pair = NextPair]
        BY <3>3, NoneType, NextPairFree DEF TypeOK, Form
      <3> QED
        BY <1>8, <3>1, <3>2, <3>3 DEF ServeLogin
    <2>2. CASE UNCHANGED <<owner, refreshState>>
      BY <1>8, <2>1, <2>2 DEF ServeLogin, TypeOK, store
    <2>3. CASE CanIssue /\ Issue(form.acct)
      <3>1. form.acct \in Accounts \cup {Nobody}
        BY DEF TypeOK, Form
      <3> QED
        BY <1>8, <2>1, <2>3, <3>1 DEF ServeLogin, Issue, TypeOK, store
    <2> QED
      BY <1>8, <2>2, <2>3 DEF ServeLogin
  <1>9. ASSUME Registered
        PROVE  TypeOK'
    BY <1>9, NoneType DEF Registered, serverVars, TypeOK, store
  <1>10. ASSUME LoggedIn
        PROVE  TypeOK'
    <2>1. form.pair \in PairOrNone
      BY DEF TypeOK, Form
    <2>2. needMfa' \in BOOLEAN
      BY <1>10, ZenonT(20) DEF LoggedIn, TypeOK
    <2>3. overtaken' \in BOOLEAN
      BY <1>10, ZenonT(20) DEF LoggedIn, TypeOK
    <2>4. call' \in [Calls -> Call]
      <3>1. [at |-> "sent", tok |-> form.pair, again |-> FALSE] \in Call
        BY <2>1 DEF Call
      <3> QED
        BY <1>10, <3>1 DEF LoggedIn, TypeOK
    <2> QED
      BY <1>10, <2>1, <2>2, <2>3, <2>4, NoneType
      DEF LoggedIn, SetTokens, serverVars, TypeOK, store
  <1>11. ASSUME Rotate
        PROVE  TypeOK'
    <2>1. refreshPromise.of \in Pairs
      BY <1>11 DEF Rotate, OnlyKnown, Known, NoRefresh
    <2>2. refreshPromise' \in Refresh
      BY <1>11, NextPairFree, NoneType DEF Rotate, TypeOK, Refresh
    <2>3. owner' \in [Pairs -> Accounts \cup {Nobody}]
      BY <1>11, <2>1 DEF Rotate, TypeOK
    <2>4. refreshState' \in [Pairs -> {"unissued", "live", "outdated", "revoked"}]
      BY <1>11 DEF Rotate, TypeOK
    <2> QED
      BY <1>11, <2>2, <2>3, <2>4 DEF Rotate, TypeOK, store
  <1>12. ASSUME RefuseRotation
        PROVE  TypeOK'
    BY <1>12 DEF RefuseRotation, Refresh, serverVars, TypeOK, store
  <1>13. ASSUME Refreshed
        PROVE  TypeOK'
    <2>1. refreshPromise.got \in PairOrNone
      BY DEF TypeOK, Refresh
    <2> QED
      BY <1>13, <2>1, NoneType, WokenType DEF Refreshed, SetTokens, serverVars, TypeOK
  <1>14. ASSUME RefreshFailed
        PROVE  TypeOK'
    <2>1. overtaken' \in BOOLEAN
      BY <1>14, ZenonT(20) DEF RefreshFailed, TypeOK
    <2> QED
      BY <1>14, <2>1, NoneType, WokenType DEF RefreshFailed, Clear, serverVars, TypeOK
  <1>15. ASSUME NEW c \in Calls, Send(c)
        PROVE  TypeOK'
    BY <1>15 DEF Send, Call, serverVars, TypeOK, store
  <1>16. ASSUME NEW c \in Calls, Serve(c)
        PROVE  TypeOK'
    <2>1. call' \in [Calls -> Call]
      BY <1>16 DEF Serve, TypeOK, Call
    <2> QED
      BY <1>16, <2>1 DEF Serve, serverVars, TypeOK, store
  <1>17. ASSUME NEW c \in Calls, Unauthorized(c)
        PROVE  TypeOK'
    <2>1. call' \in [Calls -> Call]
      BY <1>17 DEF Unauthorized, TypeOK, Call
    <2>2. refreshPromise' \in Refresh
      BY <1>17 DEF Unauthorized, JoinedRefresh, TypeOK, Refresh
    <2> QED
      BY <1>17, <2>1, <2>2 DEF Unauthorized, serverVars, TypeOK, store
  <1>18. ASSUME NEW c \in Calls, Fail(c)
        PROVE  TypeOK'
    BY <1>18, NoneType DEF Fail, serverVars, TypeOK, store
  <1>19. ASSUME NEW c \in Calls, Deliver(c)
        PROVE  TypeOK'
    <2>1. call[c].tok \in Pairs
      BY <1>19 DEF Deliver, OnlyKnown, Known
    <2>2. user' \in Accounts \cup {Nobody}
      BY <1>19, <2>1 DEF Deliver, TypeOK
    <2>3. call' \in [Calls -> Call]
      BY <1>19, NoneType DEF Deliver, TypeOK
    <2> QED
      BY <1>19, <2>2, <2>3 DEF Deliver, Leave, serverVars, TypeOK
  <1>20. ASSUME NEW p \in Pairs, Expire(p)
        PROVE  TypeOK'
    <2>1. expired' \subseteq Pairs
      BY <1>20 DEF Expire, TypeOK
    <2>2. refreshState' \in [Pairs -> {"unissued", "live", "outdated", "revoked"}]
      BY <1>20 DEF Expire, TypeOK
    <2> QED
      BY <1>20, <2>1, <2>2 DEF Expire, TypeOK, store
  <1>21. ASSUME UNCHANGED vars
        PROVE  TypeOK'
    BY <1>21 DEF vars, serverVars, TypeOK, store
  <1> QED
    BY <1>1, <1>2, <1>3, <1>4, <1>5, <1>6, <1>7, <1>8, <1>9, <1>10, <1>11, <1>12, <1>13, <1>14,
       <1>15, <1>16, <1>17, <1>18, <1>19, <1>20, <1>21
    DEF Next, FormStep, RefreshStep, Progress

\* Every step leaves only issued tokens in the tab.
LEMMA KnownStep == TypeOK /\ OnlyKnown /\ [Next]_vars => OnlyKnown'
  <1> SUFFICES ASSUME TypeOK, OnlyKnown, [Next]_vars PROVE OnlyKnown'
    OBVIOUS
  <1>1. ASSUME NEW a \in Accounts, NEW kind \in {"login", "register"}, Submit(kind, a)
        PROVE  OnlyKnown'
    BY <1>1 DEF Submit, serverVars, TypeOK, OnlyKnown, Known, store
  <1>2. ASSUME SwitchForm
        PROVE  OnlyKnown'
    BY <1>2 DEF SwitchForm, Leave, serverVars, TypeOK, OnlyKnown, Known, store
  <1>3. ASSUME SignOut
        PROVE  OnlyKnown'
    BY <1>3 DEF SignOut, Clear, Leave, Pending, serverVars, TypeOK, OnlyKnown, Known
  <1>4. ASSUME Redirect
        PROVE  OnlyKnown'
    BY <1>4 DEF Redirect, Leave, serverVars, TypeOK, OnlyKnown, Known, store
  <1>5. ASSUME GoBack
        PROVE  OnlyKnown'
    BY <1>5 DEF GoBack, Leave, serverVars, TypeOK, OnlyKnown, Known, store
  <1>6. ASSUME Reload
        PROVE  OnlyKnown'
    BY <1>6 DEF Reload, TypeOK, OnlyKnown, NoForm, NoRefresh, NoCall
  <1>7. ASSUME ServeRegister
        PROVE  OnlyKnown'
    BY <1>7 DEF ServeRegister, TypeOK, OnlyKnown, Known, store
  <1>8. ASSUME ServeLogin
        PROVE  OnlyKnown'
    <2>1. CASE UNCHANGED <<owner, refreshState>>
      <3>1. ~(CanIssue /\ Issue(form.acct))
        <4> SUFFICES ASSUME CanIssue, Issue(form.acct) PROVE FALSE
          OBVIOUS
        <4>1. form.acct \in Accounts
          BY <1>8 DEF ServeLogin, OnlyKnown
        <4> QED
          BY <2>1, <4>1, NextPairFree, AccountsAssumption DEF Issue, TypeOK
      <3>2. form'.pair = form.pair /\ form'.at \in {"refused", "mfa"}
        BY <1>8, <3>1 DEF ServeLogin, TypeOK, Form
      <3> QED
        BY <1>8, <2>1, <3>2 DEF ServeLogin, OnlyKnown, Known, store
    <2>2. CASE CanIssue /\ Issue(form.acct)
      <3>1. form.acct \in Accounts
        BY <1>8 DEF ServeLogin, OnlyKnown
      <3>2. PICK n \in Pairs : n = NextPair /\ owner[n] = Nobody /\ n # NoPair
        BY <2>2, NextPairFree, NoneType
      <3>3. \A p : p = n \/ Known(p) => Known(p)'
        BY <2>2, <3>1, <3>2, AccountsAssumption DEF Issue, Known, TypeOK
      <3>4. /\ form'.pair \in {form.pair, n}
            /\ form'.at # "sent"
        BY <1>8, <3>2 DEF ServeLogin, TypeOK, Form
      <3>5. form'.at = "done" => form'.pair = n
        BY <1>8, <2>2, <3>1, <3>2 DEF ServeLogin, Issue, TypeOK, Form
      <3> QED
        BY <1>8, <3>2, <3>3, <3>4, <3>5 DEF ServeLogin, OnlyKnown, store
    <2> QED
      BY <1>8, <2>1, <2>2 DEF ServeLogin
  <1>9. ASSUME Registered
        PROVE  OnlyKnown'
    BY <1>9 DEF Registered, serverVars, TypeOK, OnlyKnown, Known, NoForm, store
  <1>10. ASSUME LoggedIn
        PROVE  OnlyKnown'
    BY <1>10 DEF LoggedIn, SetTokens, Pending, serverVars, TypeOK, OnlyKnown, Known, NoForm, store
  <1>11. ASSUME Rotate
        PROVE  OnlyKnown'
    <2>1. refreshPromise.of \in Pairs /\ owner[refreshPromise.of] # Nobody
      BY <1>11 DEF Rotate, OnlyKnown, Known, NoRefresh
    <2>2. PICK n \in Pairs : n = NextPair /\ owner[n] = Nobody /\ n # NoPair
      BY <1>11, NextPairFree, NoneType DEF Rotate
    <2>3. \A p : p = n \/ Known(p) => Known(p)'
      BY <1>11, <2>1, <2>2 DEF Rotate, Known, TypeOK
    <2>4. /\ refreshPromise'.of = refreshPromise.of
          /\ refreshPromise'.got = n
      BY <1>11, <2>2 DEF Rotate, TypeOK
    <2>5. Known(refreshPromise.of)'
      BY <2>1, <2>3, <2>4 DEF Known
    <2> QED
      BY <1>11, <2>2, <2>3, <2>4, <2>5 DEF Rotate, OnlyKnown, store
  <1>12. ASSUME RefuseRotation
        PROVE  OnlyKnown'
    BY <1>12 DEF RefuseRotation, serverVars, TypeOK, OnlyKnown, Known, NoRefresh, store
  <1>13. ASSUME Refreshed
        PROVE  OnlyKnown'
    BY <1>13 DEF Refreshed, SetTokens, Woken, serverVars, TypeOK, OnlyKnown, Known, NoRefresh
  <1>14. ASSUME RefreshFailed
        PROVE  OnlyKnown'
    BY <1>14
    DEF RefreshFailed, Clear, Woken, serverVars, TypeOK, OnlyKnown, Known, NoRefresh, NoCall
  <1>15. ASSUME NEW c \in Calls, Send(c)
        PROVE  OnlyKnown'
    BY <1>15 DEF Send, serverVars, TypeOK, OnlyKnown, Known, store
  <1>16. ASSUME NEW c \in Calls, Serve(c)
        PROVE  OnlyKnown'
    <2>1. PICK at \in {"401", "ok", "error"} :
            /\ call' = [call EXCEPT ![c].at = at]
            /\ at = "ok" => call[c].tok # NoPair
      BY <1>16 DEF Serve
    <2>2. \A d \in Calls :
            /\ call'[d].tok = call[d].tok
            /\ call'[d].at = "ok" => call[d].at = "ok" \/ call[d].tok # NoPair
      BY <2>1 DEF TypeOK
    <2> QED
      BY <1>16, <2>2 DEF Serve, serverVars, OnlyKnown, Known, store
  <1>17. ASSUME NEW c \in Calls, Unauthorized(c)
        PROVE  OnlyKnown'
    BY <1>17 DEF Unauthorized, JoinedRefresh, serverVars, TypeOK, OnlyKnown, Known, store
  <1>18. ASSUME NEW c \in Calls, Fail(c)
        PROVE  OnlyKnown'
    BY <1>18 DEF Fail, serverVars, TypeOK, OnlyKnown, Known, NoCall, store
  <1>19. ASSUME NEW c \in Calls, Deliver(c)
        PROVE  OnlyKnown'
    BY <1>19 DEF Deliver, Leave, serverVars, TypeOK, OnlyKnown, Known, NoCall
  <1>20. ASSUME NEW p \in Pairs, Expire(p)
        PROVE  OnlyKnown'
    BY <1>20 DEF Expire, Issued, TypeOK, OnlyKnown, Known, store
  <1>21. ASSUME UNCHANGED vars
        PROVE  OnlyKnown'
    BY <1>21 DEF vars, serverVars, TypeOK, OnlyKnown, Known, store
  <1> QED
    BY <1>1, <1>2, <1>3, <1>4, <1>5, <1>6, <1>7, <1>8, <1>9, <1>10, <1>11, <1>12, <1>13, <1>14,
       <1>15, <1>16, <1>17, <1>18, <1>19, <1>20, <1>21
    DEF Next, FormStep, RefreshStep, Progress

\* Every step keeps apart the pair on its way and the token presented.
LEMMA FreshStep == TypeOK /\ OnlyKnown /\ Fresh /\ [Next]_vars => Fresh'
  <1> SUFFICES ASSUME TypeOK, OnlyKnown, Fresh, [Next]_vars PROVE Fresh'
    OBVIOUS
  <1>1. ASSUME NEW a \in Accounts, NEW kind \in {"login", "register"}, Submit(kind, a)
        PROVE  Fresh'
    BY <1>1
    DEF Submit, serverVars, TypeOK, OnlyKnown, Fresh, NeverReplaysRefresh, HeldTokenIsCurrent,
        store
  <1>2. ASSUME SwitchForm
        PROVE  Fresh'
    BY <1>2
    DEF SwitchForm, Leave, serverVars, TypeOK, OnlyKnown, Fresh, NeverReplaysRefresh,
        HeldTokenIsCurrent, store
  <1>3. ASSUME SignOut
        PROVE  Fresh'
    BY <1>3
    DEF SignOut, Clear, Leave, Pending, serverVars, TypeOK, OnlyKnown, Fresh, NeverReplaysRefresh,
        HeldTokenIsCurrent
  <1>4. ASSUME Redirect
        PROVE  Fresh'
    BY <1>4
    DEF Redirect, Leave, serverVars, TypeOK, OnlyKnown, Fresh, NeverReplaysRefresh,
        HeldTokenIsCurrent, store
  <1>5. ASSUME GoBack
        PROVE  Fresh'
    BY <1>5
    DEF GoBack, Leave, serverVars, TypeOK, OnlyKnown, Fresh, NeverReplaysRefresh,
        HeldTokenIsCurrent, store
  <1>6. ASSUME Reload
        PROVE  Fresh'
    BY <1>6
    DEF Reload, TypeOK, OnlyKnown, NoForm, NoRefresh, Fresh, NeverReplaysRefresh,
        HeldTokenIsCurrent
  <1>7. ASSUME ServeRegister
        PROVE  Fresh'
    BY <1>7
    DEF ServeRegister, TypeOK, OnlyKnown, Fresh, NeverReplaysRefresh, HeldTokenIsCurrent, store
  <1>8. ASSUME ServeLogin
        PROVE  Fresh'
    <2>1. CASE UNCHANGED <<owner, refreshState>>
      <3>1. ~(CanIssue /\ Issue(form.acct))
        <4> SUFFICES ASSUME CanIssue, Issue(form.acct) PROVE FALSE
          OBVIOUS
        <4>1. form.acct \in Accounts
          BY <1>8 DEF ServeLogin, OnlyKnown
        <4> QED
          BY <2>1, <4>1, NextPairFree, AccountsAssumption DEF Issue, TypeOK
      <3>2. form'.pair = form.pair
        BY <1>8, <3>1 DEF ServeLogin, TypeOK, Form
      <3> QED
        BY <1>8, <2>1, <3>2 DEF ServeLogin, Fresh, NeverReplaysRefresh, HeldTokenIsCurrent, store
    <2>2. CASE CanIssue /\ Issue(form.acct)
      <3>1. PICK n \in Pairs : n = NextPair /\ owner[n] = Nobody /\ n # NoPair
        BY <2>2, NextPairFree, NoneType
      <3>2. refreshState' = [refreshState EXCEPT ![n] = "live"]
        BY <2>2, <3>1 DEF Issue
      <3>3. form'.pair \in {form.pair, n}
        BY <1>8, <3>1 DEF ServeLogin, TypeOK, Form
      <3>4. n \notin {refresh, refreshPromise.of, refreshPromise.got}
        BY <3>1 DEF OnlyKnown, Known, NoRefresh
      <3>5. \A p \in Pairs : refreshState[p] # "revoked" => refreshState'[p] # "revoked"
        BY <3>2 DEF TypeOK
      <3>6. refreshState'[n] # "revoked" /\ UNCHANGED <<refresh, refreshPromise>>
        BY <1>8, <3>2 DEF ServeLogin, TypeOK, store
      <3> QED
        BY <3>1, <3>3, <3>4, <3>5, <3>6
        DEF OnlyKnown, Known, NoRefresh, Fresh, NeverReplaysRefresh, HeldTokenIsCurrent
    <2> QED
      BY <1>8, <2>1, <2>2 DEF ServeLogin
  <1>9. ASSUME Registered
        PROVE  Fresh'
    BY <1>9
    DEF Registered, serverVars, TypeOK, OnlyKnown, NoForm, Fresh, NeverReplaysRefresh,
        HeldTokenIsCurrent, store
  <1>10. ASSUME LoggedIn
        PROVE  Fresh'
    BY <1>10
    DEF LoggedIn, SetTokens, Pending, serverVars, TypeOK, OnlyKnown, NoForm, Fresh,
        NeverReplaysRefresh, HeldTokenIsCurrent, store
  <1>11. ASSUME Rotate
        PROVE  Fresh'
    <2>1. PICK n \in Pairs : n = NextPair /\ owner[n] = Nobody /\ n # NoPair
      BY <1>11, NextPairFree, NoneType DEF Rotate
    <2>2. refreshPromise.of \in Pairs /\ owner[refreshPromise.of] # Nobody
      BY <1>11 DEF Rotate, OnlyKnown, Known, NoRefresh
    <2>3. refreshState' = [refreshState EXCEPT ![refreshPromise.of] = "revoked", ![n] = "live"]
      BY <1>11, <2>1 DEF Rotate
    <2>4. /\ refreshPromise'.at = "done"
          /\ refreshPromise'.of = refreshPromise.of
          /\ refreshPromise'.got = n
      BY <1>11, <2>1 DEF Rotate, TypeOK
    <2>5. /\ refreshState'[n] # "revoked"
          /\ \A p \in Pairs \ {refreshPromise.of, n} : refreshState'[p] = refreshState[p]
      BY <2>3 DEF TypeOK
    <2>6. n \notin {refresh, form.pair}
      BY <2>1 DEF OnlyKnown, Known
    <2>7. UNCHANGED <<refresh, form>> /\ refreshPromise.at = "sent"
      BY <1>11 DEF Rotate, store
    <2> QED
      BY <2>2, <2>4, <2>5, <2>6, <2>7
      DEF OnlyKnown, Known, Fresh, NeverReplaysRefresh, HeldTokenIsCurrent
  <1>12. ASSUME RefuseRotation
        PROVE  Fresh'
    BY <1>12
    DEF RefuseRotation, serverVars, TypeOK, OnlyKnown, Fresh, NeverReplaysRefresh,
        HeldTokenIsCurrent, store
  <1>13. ASSUME Refreshed
        PROVE  Fresh'
    BY <1>13
    DEF Refreshed, SetTokens, Woken, serverVars, TypeOK, OnlyKnown, NoRefresh, Fresh,
        NeverReplaysRefresh, HeldTokenIsCurrent
  <1>14. ASSUME RefreshFailed
        PROVE  Fresh'
    BY <1>14
    DEF RefreshFailed, Clear, Woken, serverVars, TypeOK, OnlyKnown, NoRefresh, Fresh,
        NeverReplaysRefresh, HeldTokenIsCurrent
  <1>15. ASSUME NEW c \in Calls, Send(c)
        PROVE  Fresh'
    BY <1>15
    DEF Send, serverVars, TypeOK, OnlyKnown, Fresh, NeverReplaysRefresh, HeldTokenIsCurrent, store
  <1>16. ASSUME NEW c \in Calls, Serve(c)
        PROVE  Fresh'
    BY <1>16
    DEF Serve, serverVars, TypeOK, OnlyKnown, Fresh, NeverReplaysRefresh, HeldTokenIsCurrent,
        store
  <1>17. ASSUME NEW c \in Calls, Unauthorized(c)
        PROVE  Fresh'
    BY <1>17
    DEF Unauthorized, JoinedRefresh, serverVars, TypeOK, OnlyKnown, NoRefresh, Fresh,
        NeverReplaysRefresh, HeldTokenIsCurrent, store
  <1>18. ASSUME NEW c \in Calls, Fail(c)
        PROVE  Fresh'
    BY <1>18
    DEF Fail, serverVars, TypeOK, OnlyKnown, Fresh, NeverReplaysRefresh, HeldTokenIsCurrent, store
  <1>19. ASSUME NEW c \in Calls, Deliver(c)
        PROVE  Fresh'
    BY <1>19
    DEF Deliver, Leave, serverVars, TypeOK, OnlyKnown, Fresh, NeverReplaysRefresh,
        HeldTokenIsCurrent
  <1>20. ASSUME NEW p \in Pairs, Expire(p)
        PROVE  Fresh'
    BY <1>20
    DEF Expire, Issued, TypeOK, OnlyKnown, Known, NoRefresh, Fresh, NeverReplaysRefresh,
        HeldTokenIsCurrent, store
  <1>21. ASSUME UNCHANGED vars
        PROVE  Fresh'
    BY <1>21
    DEF vars, serverVars, TypeOK, OnlyKnown, Fresh, NeverReplaysRefresh, HeldTokenIsCurrent, store
  <1> QED
    BY <1>1, <1>2, <1>3, <1>4, <1>5, <1>6, <1>7, <1>8, <1>9, <1>10, <1>11, <1>12, <1>13, <1>14,
       <1>15, <1>16, <1>17, <1>18, <1>19, <1>20, <1>21
    DEF Next, FormStep, RefreshStep, Progress

\* Every step leaves everything in the tab to one account, or marks it overtaken.
LEMMA SessionStep == TypeOK /\ OnlyKnown /\ OneSession /\ [Next]_vars => OneSession'
  <1> SUFFICES ASSUME TypeOK, OnlyKnown, OneSession, [Next]_vars PROVE OneSession'
    OBVIOUS
  <1>1. ASSUME NEW a \in Accounts, NEW kind \in {"login", "register"}, Submit(kind, a)
        PROVE  OneSession'
    BY <1>1 DEF Submit, serverVars, TypeOK, OnlyKnown, OneSession, store
  <1>2. ASSUME SwitchForm
        PROVE  OneSession'
    BY <1>2 DEF SwitchForm, Leave, serverVars, TypeOK, OnlyKnown, OneSession, store
  <1>3. ASSUME SignOut
        PROVE  OneSession'
    <2>1. ~overtaken' => ~overtaken /\ ~Pending
      BY <1>3, ZenonT(20) DEF SignOut
    <2> QED
      BY <1>3, <2>1 DEF SignOut, Clear, Pending, OneSession, NoCall
  <1>4. ASSUME Redirect
        PROVE  OneSession'
    BY <1>4 DEF Redirect, Leave, TypeOK, OnlyKnown, OneSession, store
  <1>5. ASSUME GoBack
        PROVE  OneSession'
    BY <1>5 DEF GoBack, Leave, serverVars, TypeOK, OnlyKnown, OneSession, store
  <1>6. ASSUME Reload
        PROVE  OneSession'
    BY <1>6 DEF Reload, TypeOK, OnlyKnown, NoCall, OneSession
  <1>7. ASSUME ServeRegister
        PROVE  OneSession'
    BY <1>7 DEF ServeRegister, TypeOK, OnlyKnown, OneSession, store
  <1>8. ASSUME ServeLogin
        PROVE  OneSession'
    <2>1. \A p : Known(p) => owner'[p] = owner[p]
      BY <1>8, NextPairFree DEF ServeLogin, Issue, Known, TypeOK
    <2>2. UNCHANGED <<access, refresh, user, refreshPromise, call, overtaken>>
      BY <1>8 DEF ServeLogin, store
    <2>3. refreshPromise.at = "done" => Known(refreshPromise.got)
      BY DEF OnlyKnown
    <2> QED
      BY <2>1, <2>2, <2>3 DEF OneSession, OnlyKnown
  <1>9. ASSUME Registered
        PROVE  OneSession'
    BY <1>9 DEF Registered, serverVars, TypeOK, OnlyKnown, OneSession, store
  <1>10. ASSUME LoggedIn
        PROVE  OneSession'
    <2>1. CASE form.at # "done"
      BY <1>10, <2>1 DEF LoggedIn, serverVars, OneSession, store
    <2>2. CASE form.at = "done"
      <3> SUFFICES ASSUME ~overtaken' PROVE OneSession'
        BY DEF OneSession
      <3>1. ~overtaken /\ ~Pending /\ access = NoPair
        BY <1>10, <2>2, ZenonT(20) DEF LoggedIn
      <3>2. access' = form.pair /\ form.pair # NoPair
        BY <1>10, <2>2 DEF LoggedIn, SetTokens, OnlyKnown
      <3>3. call' = [call EXCEPT ![Landing] =
                       [at |-> "sent", tok |-> form.pair, again |-> FALSE]]
        BY <1>10, <2>2 DEF LoggedIn
      <3>4. \A c \in Calls : call'[c].tok \in {NoPair, form.pair}
        BY <3>1, <3>3 DEF Pending, NoCall, TypeOK
      <3>5. user' = Nobody /\ refreshPromise' = NoRefresh
        BY <1>10, <2>2, <3>1 DEF LoggedIn, SetTokens, Pending, OneSession
      <3>6. UNCHANGED owner
        BY <1>10 DEF LoggedIn, serverVars
      <3> QED
        BY <3>2, <3>4, <3>5, <3>6 DEF OneSession, NoRefresh
    <2> QED
      BY <2>1, <2>2
  <1>11. ASSUME Rotate
        PROVE  OneSession'
    <2>1. PICK n \in Pairs : n = NextPair /\ owner[n] = Nobody /\ n # NoPair
      BY <1>11, NextPairFree, NoneType DEF Rotate
    <2>2. refreshPromise # NoRefresh /\ Known(refreshPromise.of)
      BY <1>11 DEF Rotate, OnlyKnown, NoRefresh
    <2>3. /\ owner'[n] = owner[refreshPromise.of]
          /\ \A p : Known(p) => owner'[p] = owner[p]
      BY <1>11, <2>1, <2>2 DEF Rotate, Known, TypeOK
    <2>4. /\ refreshPromise'.of = refreshPromise.of
          /\ refreshPromise'.got = n
      BY <1>11, <2>1 DEF Rotate, TypeOK
    <2>5. UNCHANGED <<access, refresh, user, call, overtaken>>
      BY <1>11 DEF Rotate, store
    <2> QED
      BY <2>2, <2>3, <2>4, <2>5 DEF OneSession, OnlyKnown
  <1>12. ASSUME RefuseRotation
        PROVE  OneSession'
    BY <1>12 DEF RefuseRotation, serverVars, TypeOK, OnlyKnown, NoRefresh, OneSession, store
  <1>13. ASSUME Refreshed
        PROVE  OneSession'
    BY <1>13 DEF Refreshed, SetTokens, Woken, serverVars, TypeOK, OnlyKnown, NoRefresh, OneSession
  <1>14. ASSUME RefreshFailed
        PROVE  OneSession'
    <2>1. ~overtaken' => \A c \in Calls : call'[c] = NoCall
      BY <1>14, ZenonT(20) DEF RefreshFailed
    <2> QED
      BY <1>14, <2>1 DEF RefreshFailed, Clear, OneSession, NoCall
  <1>15. ASSUME NEW c \in Calls, Send(c)
        PROVE  OneSession'
    BY <1>15 DEF Send, serverVars, TypeOK, OnlyKnown, OneSession, store
  <1>16. ASSUME NEW c \in Calls, Serve(c)
        PROVE  OneSession'
    BY <1>16 DEF Serve, Call, serverVars, TypeOK, OnlyKnown, NoForm, OneSession, store
  <1>17. ASSUME NEW c \in Calls, Unauthorized(c)
        PROVE  OneSession'
    BY <1>17 DEF Unauthorized, JoinedRefresh, serverVars, TypeOK, OnlyKnown, OneSession, store
  <1>18. ASSUME NEW c \in Calls, Fail(c)
        PROVE  OneSession'
    BY <1>18 DEF Fail, serverVars, TypeOK, OnlyKnown, NoCall, OneSession, store
  <1>19. ASSUME NEW c \in Calls, Deliver(c)
        PROVE  OneSession'
    BY <1>19 DEF Deliver, Leave, serverVars, TypeOK, OnlyKnown, NoCall, OneSession
  <1>20. ASSUME NEW p \in Pairs, Expire(p)
        PROVE  OneSession'
    BY <1>20 DEF Expire, Issued, TypeOK, OnlyKnown, OneSession, store
  <1>21. ASSUME UNCHANGED vars
        PROVE  OneSession'
    BY <1>21 DEF vars, serverVars, TypeOK, OnlyKnown, OneSession, store
  <1> QED
    BY <1>1, <1>2, <1>3, <1>4, <1>5, <1>6, <1>7, <1>8, <1>9, <1>10, <1>11, <1>12, <1>13, <1>14,
       <1>15, <1>16, <1>17, <1>18, <1>19, <1>20, <1>21
    DEF Next, FormStep, RefreshStep, Progress

-----------------------------------------------------------------------------
(* The theorems. *)

\* The state in which a tab opens.
LEMMA Initially == Init => IInv
  <1> SUFFICES ASSUME Init PROVE IInv
    OBVIOUS
  <1>1. TypeOK
    <2>1. refreshState \in [Pairs -> {"unissued", "live", "outdated", "revoked"}]
      BY DEF Init
    <2>2. owner \in [Pairs -> Accounts \cup {Nobody}]
      BY DEF Init
    <2>3. registered \subseteq Accounts
      BY AccountsAssumption DEF Init
    <2> QED
      BY <2>1, <2>2, <2>3, NoneType DEF Init, TypeOK
  <1>2. OnlyKnown
    BY DEF Init, OnlyKnown, NoForm, NoRefresh, NoCall
  <1>3. Fresh
    BY DEF Init, Fresh, NeverReplaysRefresh, HeldTokenIsCurrent, NoForm, NoRefresh
  <1>4. OneSession
    BY DEF Init, OneSession, NoCall
  <1> QED
    BY <1>1, <1>2, <1>3, <1>4 DEF IInv

\* The parts together are an invariant of the session.
LEMMA Invariance == Spec => []IInv
  <1>1. IInv /\ [Next]_vars => IInv'
    BY TypeStep, KnownStep, FreshStep, SessionStep DEF IInv
  <1> QED
    BY Initially, <1>1, PTL DEF Spec

\* The tab's store, forms and requests and the server's token pairs keep their types.
THEOREM TypeCorrect == Spec => []TypeOK
  <1>1. IInv => TypeOK
    BY DEF IInv
  <1> QED
    BY Invariance, <1>1, PTL

\* Whatever requests fail together, and however sign-ins, sign-outs and answers
\* interleave, the tab never presents a refresh token the server has rotated, which
\* the server would take for a stolen one.
THEOREM NoReplay == Spec => []NeverReplaysRefresh
  <1>1. IInv => NeverReplaysRefresh
    BY DEF IInv, Fresh
  <1> QED
    BY Invariance, <1>1, PTL

\* The refresh token in the store is the last of its family, or its successor is on
\* its way.
THEOREM HeldIsCurrent == Spec => []HeldTokenIsCurrent
  <1>1. IInv => HeldTokenIsCurrent
    BY DEF IInv, Fresh
  <1> QED
    BY Invariance, <1>1, PTL

\* The name shown is that of the tokens' account, while no sign-in or sign-out has
\* overtaken a session or an answer under way.
THEOREM NameIsOwners == Spec => []NameMatchesSession
  <1>1. IInv => NameMatchesSession
    BY DEF IInv, OneSession, NameMatchesSession
  <1> QED
    BY Invariance, <1>1, PTL

=============================================================================

---------------------------- MODULE ConsentCenter ----------------------------
(***************************************************************************)
(* The consent center of the privacy page (PrivacyPage.tsx, privacy/api.ts): *)
(* consents are granted and revoked from a ledger that may be old, while     *)
(* the server grants purposes by itself when it is about to use them.        *)
(***************************************************************************)
EXTENDS Naturals, FiniteSets

CONSTANTS
  Purposes,     \* processing purposes a consent is for
  SelfGranted,  \* those the server grants by itself: discovery, opt-out, GitHub
  MaxConsents   \* active consents per purpose (bound)

MaxConsentsAssumption == MaxConsents \in Nat
SelfGrantedAssumption == SelfGranted \subseteq Purposes

VARIABLES
  route,           \* the page the tab shows
  consents,        \* server: the number of active consents per purpose
  ledger,          \* the purposes the page shows as granted
  asked,           \* consent requests under way; those of the page as it is open
  ensuring,        \* purposes of which the server has not yet committed its own grant
  decided, unsure, \* history: the last decision per purpose; those that failed or were
                   \* taken while another was under way
  regranted        \* history: purposes the server granted by itself, and sent data for,
                   \* since the last decision was served

vars == <<route, consents, ledger, asked, ensuring, decided, unsure, regranted>>

\* The page as it opens, with nothing on the server.
PageInit ==
  /\ consents = [p \in Purposes |-> 0] /\ ledger = {} /\ asked = {}
  /\ decided = [p \in Purposes |-> "none"] /\ unsure = {}
  /\ ensuring = {} /\ regranted = {}

Init == route = "privacy" /\ PageInit

Open == route = "privacy"

\* A request leaves the page.
Ask(decision, p) ==
  /\ Cardinality(asked) < 2    \* bound
  /\ asked' = asked \cup {[decision |-> decision, purpose |-> p, seen |-> TRUE]}
  /\ decided' = [decided EXCEPT ![p] = decision]
  /\ unsure' = IF \E a \in asked : a.purpose = p THEN unsure \cup {p} ELSE unsure \ {p}
  /\ UNCHANGED <<route, consents, ledger, ensuring, regranted>>

\* The grant form waits for the grant before; a purpose can be granted again.
Grant(p) ==
  /\ Open /\ \A a \in asked : a.decision = "grant" => ~a.seen
  /\ Ask("grant", p)

\* A row shown as granted has a button that is never disabled.
Revoke(p) ==
  /\ Open /\ p \in ledger
  /\ Ask("revoke", p)

\* Mutant of Revoked: the newest consent for the purpose is ended.
RevokedNewest(p) == IF consents[p] = 0 THEN 0 ELSE consents[p] - 1

\* revoke_consent: every active consent for the purpose is ended.
Revoked(p) == 0

\* A grant adds a consent beside those there are; or the request fails.
ServeConsent(a) ==
  /\ a \in asked /\ asked' = asked \ {a}
  /\ LET p == a.purpose
     IN \/ /\ a.decision = "grant" /\ consents[p] < MaxConsents
           /\ consents' = [consents EXCEPT ![p] = @ + 1]
           /\ regranted' = regranted \ {p} /\ UNCHANGED unsure
        \/ /\ a.decision = "revoke"
           /\ consents' = [consents EXCEPT ![p] = Revoked(p)]
           /\ regranted' = regranted \ {p} /\ UNCHANGED unsure
        \/ unsure' = unsure \cup {p} /\ UNCHANGED <<consents, regranted>>
  /\ UNCHANGED <<route, ledger, ensuring, decided>>

\* ensure_consent with auto_grant: a purpose about to be used that has no active consent
\* gets one, whatever the user decided.
EnsureConsent(p) ==
  /\ consents[p] = 0 /\ p \notin ensuring /\ ensuring' = ensuring \cup {p}
  /\ UNCHANGED <<route, consents, ledger, asked, decided, unsure, regranted>>

\* Others see the grant only with the commit that follows, and a revocation in between
\* does not find it; or the transaction is rolled back.
CommitGrant(p) ==
  /\ p \in ensuring /\ ensuring' = ensuring \ {p}
  /\ \/ /\ consents[p] < MaxConsents
        /\ consents' = [consents EXCEPT ![p] = @ + 1]
        /\ regranted' = regranted \cup {p}
     \/ UNCHANGED <<consents, regranted>>
  /\ UNCHANGED <<route, ledger, asked, decided, unsure>>

\* The ledger is fetched again: after an answer, on a visit, or when it is stale.
FetchLedger ==
  /\ Open /\ ledger' = {p \in Purposes : consents[p] > 0}
  /\ UNCHANGED <<route, consents, asked, ensuring, decided, unsure, regranted>>

\* The page is left and visited again; what it asked goes on.
Leave ==
  /\ Open /\ route' = "elsewhere"
  /\ asked' = {[a EXCEPT !.seen = FALSE] : a \in asked}
  /\ UNCHANGED <<consents, ledger, ensuring, decided, unsure, regranted>>

Return ==
  /\ route = "elsewhere" /\ route' = "privacy"
  /\ UNCHANGED <<consents, ledger, asked, ensuring, decided, unsure, regranted>>

Next ==
  \/ \E p \in Purposes : Grant(p) \/ Revoke(p)
  \/ \E a \in asked : ServeConsent(a)
  \/ \E p \in SelfGranted : EnsureConsent(p) \/ CommitGrant(p)
  \/ FetchLedger \/ Leave \/ Return

Spec == Init /\ [][Next]_vars

(***************************************************************************)
(* Properties.                                                             *)
(***************************************************************************)
TypeOK ==
  /\ consents \in [Purposes -> 0 .. MaxConsents] /\ ledger \subseteq Purposes
  /\ asked \subseteq [decision : {"grant", "revoke"}, purpose : Purposes, seen : BOOLEAN]
  /\ decided \in [Purposes -> {"none", "grant", "revoke"}] /\ unsure \subseteq Purposes
  /\ ensuring \subseteq SelfGranted /\ regranted \subseteq SelfGranted

\* When nothing is under way, each purpose is as it was last decided, whatever was
\* granted more than once, and also when it was decided from an old ledger or the server
\* had granted it before.  Excepted are decisions that failed or overtook each other on
\* their way, and purposes the server has granted by itself since.
LastDecisionHolds ==
  asked = {} => \A p \in Purposes \ (unsure \cup regranted) :
                  consents[p] > 0 <=> decided[p] = "grant"

\* What the guide says: after a revocation nothing is sent that needs the consent.  It does
\* not hold: the server grants a purpose again before it uses it.  No run checks it.
RevokedSendsNothing ==
  asked = {} => \A p \in Purposes \ unsure : decided[p] = "revoke" => p \notin regranted
=============================================================================

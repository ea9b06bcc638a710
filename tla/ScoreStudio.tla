---------------------------- MODULE ScoreStudio ----------------------------
(***************************************************************************)
(* The scores page (ScoresPage.tsx, scores/api.ts, components/creative):    *)
(* the latest score of a scope is shown and computed again, findings are    *)
(* left out of it for a simulation, and a briefing is written, against the  *)
(* server's scoring service (scoring_service.py, score_repository.py).      *)
(*                                                                          *)
(* A score is numbered in the order of the snapshots and stands for the     *)
(* findings it was made without.  The server keeps simulations as well.     *)
(***************************************************************************)
EXTENDS Naturals, Sequences, FiniteSets

CONSTANTS
  Scopes,        \* the whole profile, or one identifier
  AllScopes,     \* the former
  Findings,      \* the open findings
  Located,       \* those of them found for the one identifier
  MaxSnapshots   \* snapshots that are stored (bound)

MaxSnapshotsAssumption == MaxSnapshots \in Nat
LocatedAssumption == AllScopes \in Scopes /\ Located \subseteq Findings

VARIABLES
  route,          \* the page the tab shows
  snapshots,      \* server: the stored scores, simulations among them
  scoreScope,   \* the scope selected
  scoreShown,     \* the page's answers for the latest score, by scope; 0 is none
  scoreFetch,     \* the fetch under way and what it will answer
  scoreAsked,     \* computations, simulations and briefings under way
  selected, result, briefing   \* the studios: the findings left out, the
                               \* simulated score, the scope of the briefing

studioVars == <<selected, result, briefing>>
vars == <<route, snapshots, scoreScope, scoreShown, scoreFetch, scoreAsked, studioVars>>

\* The page as it opens, with nothing on the server.
PageInit ==
  /\ snapshots = <<>> /\ scoreShown = [s \in Scopes |-> 0]
  /\ scoreScope = AllScopes /\ scoreFetch = {} /\ scoreAsked = {}
  /\ selected = {} /\ result = 0 /\ briefing = {}

Init == route = "scores" /\ PageInit

Open == route = "scores"

\* Mutant of LatestScore: the whole profile's score is sought among those of any scope.
LatestScoreOfAny(s) ==
  LET mine == {n \in DOMAIN snapshots : s \in {AllScopes, snapshots[n].scope}}
  IN IF mine = {} THEN 0 ELSE CHOOSE n \in mine : \A k \in mine : k <= n

\* latest: the newest snapshot of exactly this scope, whatever triggered it; or a 404.
LatestScore(s) ==
  LET mine == {n \in DOMAIN snapshots : snapshots[n].scope = s}
  IN IF mine = {} THEN 0 ELSE CHOOSE n \in mine : \A k \in mine : k <= n

\* What is still under way is of no interest to a part of the page that is gone.
Dropped(asked) == {[a EXCEPT !.seen = FALSE] : a \in asked}

Computations == {a \in scoreAsked : a.kind = "manual"}

\* A scope is selected.  The studios are on the page while its scope has a score: without
\* one they go, and what they showed and waited for with them.
SelectScore(s) ==
  /\ Open /\ scoreScope' = s
  /\ IF scoreShown[s] # 0
       THEN UNCHANGED <<scoreAsked, studioVars>>
       ELSE /\ selected' = {} /\ result' = 0 /\ briefing' = {}
            /\ scoreAsked' = Computations \cup Dropped(scoreAsked \ Computations)
  /\ UNCHANGED <<route, snapshots, scoreShown, scoreFetch>>

\* The selected scope's latest score is read by the server and kept under that scope;
\* unless the request fails.  (Bound: one such answer is on its way at a time.)
FetchScore ==
  /\ Open /\ scoreFetch = {}
  /\ scoreFetch' = {[scope |-> scoreScope, n |-> LatestScore(scoreScope)]}
  /\ UNCHANGED <<route, snapshots, scoreScope, scoreShown, scoreAsked, studioVars>>

ReceiveScore(f) ==
  /\ f \in scoreFetch /\ scoreFetch' = {}
  /\ scoreShown' \in {scoreShown, [scoreShown EXCEPT ![f.scope] = f.n]}
  /\ UNCHANGED <<route, snapshots, scoreScope, scoreAsked, studioVars>>

Pending(kind) == \E a \in scoreAsked : a.kind = kind /\ a.seen

Request(kind, without) ==
  /\ Cardinality(scoreAsked) < 2    \* bound
  /\ scoreAsked' = scoreAsked \cup
       {[kind |-> kind, scope |-> scoreScope, without |-> without, seen |-> TRUE]}

\* "Recompute PDSS Score", or "Compute Initial PDSS Score Now" without one.
Recompute ==
  /\ Open /\ ~Pending("manual")
  /\ Request("manual", {})
  /\ UNCHANGED <<route, snapshots, scoreScope, scoreShown, scoreFetch, studioVars>>

StudiosOpen == Open /\ scoreShown[scoreScope] # 0

Offered == IF scoreScope = AllScopes THEN Findings ELSE Located

\* A finding is ticked or not; what was simulated stays as it is.
Toggle(f) ==
  /\ StudiosOpen /\ f \in Offered
  /\ selected' = IF f \in selected THEN selected \ {f} ELSE selected \cup {f}
  /\ UNCHANGED <<route, snapshots, scoreScope, scoreShown, scoreFetch, scoreAsked,
                 result, briefing>>

\* "Simulate" waits for the simulation before and for a finding to leave out.
Simulate ==
  /\ StudiosOpen /\ ~Pending("whatif") /\ selected # {}
  /\ Request("whatif", selected)
  /\ UNCHANGED <<route, snapshots, scoreScope, scoreShown, scoreFetch, studioVars>>

\* "Reset" does not wait for a simulation, whose answer will still be shown.
Reset ==
  /\ StudiosOpen /\ selected' = {} /\ result' = 0
  /\ UNCHANGED <<route, snapshots, scoreScope, scoreShown, scoreFetch, scoreAsked, briefing>>

\* "Generate briefing", for the scope selected at the click.
Generate ==
  /\ StudiosOpen /\ ~Pending("briefing")
  /\ Request("briefing", {})
  /\ UNCHANGED <<route, snapshots, scoreScope, scoreShown, scoreFetch, studioVars>>

\* compute: a snapshot is stored for a computation and for a simulation alike, or the
\* request fails.  A simulation's answer goes to the simulator that asked, a briefing's
\* to the briefing; a computation's makes the page fetch again (FetchScore).
ServeScore(a) ==
  /\ a \in scoreAsked /\ scoreAsked' = scoreAsked \ {a}
  /\ \/ /\ a.kind # "briefing" /\ Len(snapshots) < MaxSnapshots
        /\ snapshots' = Append(snapshots, [scope |-> a.scope, without |-> a.without])
        /\ result' = IF a.kind = "whatif" /\ a.seen THEN Len(snapshots') ELSE result
        /\ UNCHANGED briefing
     \/ /\ a.kind = "briefing"
        /\ briefing' = IF a.seen THEN {a.scope} ELSE briefing
        /\ UNCHANGED <<snapshots, result>>
     \/ UNCHANGED <<snapshots, result, briefing>>
  /\ UNCHANGED <<route, scoreScope, scoreShown, scoreFetch, selected>>

\* The page is left; a new visit starts with the whole profile and empty studios.
Leave ==
  /\ Open /\ route' = "elsewhere"
  /\ scoreScope' = AllScopes /\ selected' = {} /\ result' = 0 /\ briefing' = {}
  /\ scoreAsked' = Dropped(scoreAsked)
  /\ UNCHANGED <<snapshots, scoreShown, scoreFetch>>

Return ==
  /\ route = "elsewhere" /\ route' = "scores"
  /\ UNCHANGED <<snapshots, scoreScope, scoreShown, scoreFetch, scoreAsked, studioVars>>

Next ==
  \/ \E s \in Scopes : SelectScore(s)
  \/ FetchScore \/ \E f \in scoreFetch : ReceiveScore(f)
  \/ Recompute \/ \E f \in Findings : Toggle(f)
  \/ Simulate \/ Reset \/ Generate
  \/ \E a \in scoreAsked : ServeScore(a)
  \/ Leave \/ Return

(***************************************************************************)
(* Properties.                                                             *)
(***************************************************************************)
TypeOK ==
  /\ snapshots \in Seq([scope : Scopes, without : SUBSET Findings])
  /\ scoreScope \in Scopes /\ scoreShown \in [Scopes -> 0 .. MaxSnapshots]
  /\ scoreFetch \subseteq [scope : Scopes, n : 0 .. MaxSnapshots]
  /\ scoreAsked \subseteq [kind : {"manual", "whatif", "briefing"}, scope : Scopes,
                           without : SUBSET Findings, seen : BOOLEAN]
  /\ selected \subseteq Findings /\ result \in 0 .. MaxSnapshots /\ briefing \subseteq Scopes

\* The score shown for a scope was computed for that scope, whatever scopes were
\* selected, computed and simulated while it was fetched.
ScoreIsOfScope == \A s \in Scopes : scoreShown[s] # 0 => snapshots[scoreShown[s]].scope = s

\* What the page calls the current score is of all findings ("preview the estimated
\* score change").  It is not: a simulation is the newest snapshot of its scope.
CurrentScoreIsComputed ==
  \A s \in Scopes : scoreShown[s] # 0 => snapshots[scoreShown[s]].without = {}
=============================================================================

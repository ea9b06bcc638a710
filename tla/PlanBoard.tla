------------------------------ MODULE PlanBoard ------------------------------
(***************************************************************************)
(* The recommendations page (RecommendationsPage.tsx,                       *)
(* recommendations/api.ts): the latest plan of a scope is fetched, a new    *)
(* one generated, and its recommendations marked, against the server's      *)
(* recommendation service.                                                  *)
(*                                                                          *)
(* Plans are numbered in the order of their creation.  The page keeps the   *)
(* answers by scope and shows the one of the scope that is selected.        *)
(***************************************************************************)
EXTENDS Naturals, Sequences, FiniteSets

CONSTANTS
  Scopes,      \* all identifiers together, or one of them
  AllScopes,   \* the former
  Recs,        \* the recommendations of the rule set
  MaxPlans     \* plans that are generated (bound)

ScopesAssumption == AllScopes \in Scopes
RecsAssumption == Recs # {}
MaxPlansAssumption == MaxPlans \in Nat

VARIABLES
  route,         \* the page the tab shows
  plans,         \* server: the plans
  planShown,     \* the page's answers, by scope
  scopeId,       \* the scope selected
  planFetch,     \* the fetches under way: what each scope's will answer
  generate,      \* the scope a plan is generated for, by this visit and by an earlier one
  update,        \* the mark under way, of this visit and of an earlier one
  marked,        \* history: the last mark of each recommendation of each plan that was
                 \* not refused
  overlapped     \* history: the recommendations last marked with a mark of theirs under way

vars == <<route, plans, planShown, scopeId, planFetch, generate, update, marked, overlapped>>

Visits == {"now", "before"}

NoPlan == [n |-> 0, status |-> [r \in Recs |-> "open"]]
NoUpdate == [n |-> 0, rec |-> CHOOSE r \in Recs : TRUE, status |-> "open"]

\* The latest plan of a scope, or a 404.
LatestPlan(s) ==
  LET mine == {n \in DOMAIN plans : plans[n].scope = s}
      n == CHOOSE k \in mine : \A m \in mine : m <= k
  IN IF mine = {} THEN NoPlan ELSE [n |-> n, status |-> plans[n].status]

\* The page as it opens, with nothing on the server.
PageInit ==
  /\ plans = <<>> /\ marked = <<>>
  /\ planShown = [s \in Scopes |-> NoPlan]
  /\ scopeId = AllScopes
  /\ planFetch = {} /\ overlapped = {}
  /\ generate = [v \in Visits |-> {}] /\ update = [v \in Visits |-> NoUpdate]

Init == route = "recommendations" /\ PageInit

Open == route = "recommendations"

\* The scope is chosen.
SelectScope(s) ==
  /\ Open /\ scopeId' = s
  /\ UNCHANGED <<route, plans, planShown, planFetch, generate, update, marked, overlapped>>

\* The selected scope's latest plan is read by the server, ...
\* (Bound: one such answer is on its way at a time.)
Fetch ==
  /\ Open
  /\ planFetch = {}
  /\ planFetch' = {[scope |-> scopeId, plan |-> LatestPlan(scopeId)]}
  /\ UNCHANGED <<route, plans, planShown, scopeId, generate, update, marked, overlapped>>

\* ... and its answer kept under the scope it was asked for.
Receive(f) ==
  /\ f \in planFetch /\ planFetch' = planFetch \ {f}
  /\ planShown' = [planShown EXCEPT ![f.scope] = f.plan]
  /\ UNCHANGED <<route, plans, scopeId, generate, update, marked, overlapped>>

Shown == planShown[scopeId]

\* "Generate": for the scope selected at the click; waits for the one before of this
\* visit (isPending is the visit's own).
Generate ==
  /\ Open /\ generate["now"] = {}
  /\ generate' = [generate EXCEPT !["now"] = {scopeId}]
  /\ UNCHANGED <<route, plans, planShown, scopeId, planFetch, update, marked, overlapped>>

\* "Generate First Playbook" is offered besides while no plan of the scope is known.
GenerateFirst == Shown.n = 0 /\ Generate

\* generate: a new plan with every recommendation open, whatever was marked in the
\* plan before; or the request fails.
ServeGenerate(v) ==
  /\ generate[v] # {} /\ generate' = [generate EXCEPT ![v] = {}]
  /\ \/ /\ Len(plans) < MaxPlans
        /\ \E s \in generate[v] :
             plans' = Append(plans, [scope |-> s, status |-> [r \in Recs |-> "open"]])
        /\ marked' = Append(marked, [r \in Recs |-> "open"])
     \/ UNCHANGED <<plans, marked>>
  /\ UNCHANGED <<route, planShown, scopeId, planFetch, update, overlapped>>

\* What the toolbar offers; "Reset Playbook Filters" goes back to "open".
StatusFilters == {"open", "done", "dismissed", "all"}

\* The cards a filter lets through; there are none without a plan.
FilteredRecommendations(selectedStatus) ==
  IF Shown.n = 0 THEN {}
  ELSE {r \in Recs :
          CASE selectedStatus = "all" -> TRUE
            [] selectedStatus = "open" -> Shown.status[r] \notin {"done", "dismissed"}
            [] OTHER -> Shown.status[r] = selectedStatus}

\* A mark of recommendation r of plan n is under way.
UnderWay(n, r) == \E v \in Visits : update[v].n = n /\ update[v].rec = r

\* "Mark Mitigated" and "Dismiss", under any filter of status and lane: offered unless the
\* card is marked so already; every card waits for the mark before of this visit.  What the
\* card says is required before completion (depends_on) is not looked at.
Mark(r, status) ==
  /\ Open /\ update["now"].n = 0
  /\ \E filter \in StatusFilters : r \in FilteredRecommendations(filter)
  /\ Shown.status[r] # status
  /\ update' = [update EXCEPT !["now"] = [n |-> Shown.n, rec |-> r, status |-> status]]
  /\ marked' = [marked EXCEPT ![Shown.n][r] = status]
  /\ overlapped' = IF UnderWay(Shown.n, r) THEN overlapped \cup {<<Shown.n, r>>}
                   ELSE overlapped \ {<<Shown.n, r>>}
  /\ UNCHANGED <<route, plans, planShown, scopeId, planFetch, generate>>

\* Mutant of Updated: the recommendation is looked up in the newest plan.
UpdatedInNewest(u) == [plans EXCEPT ![Len(plans)].status[u.rec] = u.status]

\* update_status: the recommendation keeps any status it is given, in whatever order.
Updated(u) == [plans EXCEPT ![u.n].status[u.rec] = u.status]

\* A mark that fails leaves the recommendation as it was, and the cards free again.
ServeUpdate(v) ==
  /\ update[v].n # 0
  /\ \/ plans' = Updated(update[v]) /\ UNCHANGED marked
     \/ /\ UNCHANGED plans
        /\ marked' = [marked EXCEPT ![update[v].n][update[v].rec] =
                                      plans[update[v].n].status[update[v].rec]]
  /\ update' = [update EXCEPT ![v] = NoUpdate]
  /\ UNCHANGED <<route, planShown, scopeId, planFetch, generate, overlapped>>

\* A new visit starts with the scope at its default, and its buttons do not wait for what
\* this visit has under way.  (Bound: one request of each kind is left behind at a time.)
Leave ==
  /\ Open
  /\ generate["now"] = {} \/ generate["before"] = {}
  /\ update["now"].n = 0 \/ update["before"].n = 0
  /\ generate' = [now |-> {}, before |-> generate["now"] \cup generate["before"]]
  /\ update' = [now |-> NoUpdate,
                before |-> IF update["now"].n = 0 THEN update["before"] ELSE update["now"]]
  /\ route' = "elsewhere" /\ scopeId' = AllScopes
  /\ UNCHANGED <<plans, planShown, planFetch, marked, overlapped>>

Return ==
  /\ route = "elsewhere" /\ route' = "recommendations"
  /\ UNCHANGED <<plans, planShown, scopeId, planFetch, generate, update, marked, overlapped>>

Next ==
  \/ \E s \in Scopes : SelectScope(s)
  \/ Fetch \/ \E f \in planFetch : Receive(f)
  \/ Generate \/ GenerateFirst
  \/ \E v \in Visits : ServeGenerate(v) \/ ServeUpdate(v)
  \/ \E r \in Recs, status \in {"done", "dismissed"} : Mark(r, status)
  \/ Leave \/ Return

Spec == Init /\ [][Next]_vars

(***************************************************************************)
(* Properties.                                                             *)
(***************************************************************************)
RecStatus == {"open", "done", "dismissed"}
PlanCopy == [n : 0..MaxPlans, status : [Recs -> RecStatus]]

TypeOK ==
  /\ plans \in Seq([scope : Scopes, status : [Recs -> RecStatus]]) /\ Len(plans) <= MaxPlans
  /\ planShown \in [Scopes -> PlanCopy] /\ scopeId \in Scopes
  /\ planFetch \subseteq [scope : Scopes, plan : PlanCopy]
  /\ generate \in [Visits -> SUBSET Scopes]
  /\ update \in [Visits -> [n : 0..MaxPlans, rec : Recs, status : RecStatus]]

\* A recommendation with no mark of its own under way is as it was last marked, but for
\* marks that failed, although marks of an earlier visit are answered after the page was
\* left and plans are generated between click and answer; excepted is a recommendation that
\* was marked again, on another visit, while a mark of it was under way: the marks
\* are then served in either order.
PlanIsAsMarked ==
  \A n \in DOMAIN plans, r \in Recs :
    ~UnderWay(n, r) /\ <<n, r>> \notin overlapped => plans[n].status[r] = marked[n][r]
=============================================================================

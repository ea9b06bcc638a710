---------------------------- MODULE TriageConsole ----------------------------
(***************************************************************************)
(* The findings page (FindingsPage.tsx, findings/api.ts): a filtered list   *)
(* that is worked through by keyboard or mouse while the list itself is     *)
(* fetched again, and the tab of candidate profiles.                        *)
(*                                                                          *)
(* The highlighted row is kept as a position, the open row by its finding.  *)
(* Both sections are always on the screen: the tab only turns the keyboard  *)
(* on and off.                                                              *)
(* The candidates hook reads a field its answer does not have, so the tab   *)
(* of candidates always falls back to its one demo item.                    *)
(***************************************************************************)
EXTENDS Naturals, FiniteSets, SequencesExt

CONSTANTS
  Findings,    \* the user's findings
  NoFinding,   \* no row is open
  BySearch, BySeverity, ByLayer   \* what each filter lets through when it is set

FiltersAssumption ==
  NoFinding \notin Findings /\ BySearch \cup BySeverity \cup ByLayer \subseteq Findings

VARIABLES
  route,                     \* the page the tab shows
  observed,                  \* server: the findings, last seen first
  rawFindings,               \* the list as the page has it
  searchQuery, selectedSeverity, selectedLayer,   \* the filters that are set
  selectedIndex, expandedId, \* the highlighted position; the open finding
  activeTab, demoCandidateStatus

lists == <<observed, rawFindings>>
filters == <<searchQuery, selectedSeverity, selectedLayer>>
rowVars == <<selectedIndex, expandedId>>
vars == <<route, lists, filters, rowVars, activeTab, demoCandidateStatus>>

\* The page as it opens, with nothing on the server.
PageInit ==
  /\ observed = <<>> /\ rawFindings = <<>>
  /\ searchQuery = FALSE /\ selectedSeverity = FALSE /\ selectedLayer = FALSE
  /\ selectedIndex = 1 /\ expandedId = NoFinding
  /\ activeTab = "findings" /\ demoCandidateStatus = "unreviewed"

Init == route = "findings" /\ PageInit

Open == route = "findings"

\* The positions of the list whose findings are on the screen, in its order.
FilteredFindings ==
  {i \in DOMAIN rawFindings : /\ searchQuery => rawFindings[i] \in BySearch
                              /\ selectedSeverity => rawFindings[i] \in BySeverity
                              /\ selectedLayer => rawFindings[i] \in ByLayer}

\* The row of a position among those that are shown; rows start at 1.
Row(positions, i) == Cardinality({k \in positions : k <= i})

\* A filter is set or taken back; the highlighted position stays.
SetFilter ==
  /\ Open
  /\ \/ searchQuery' = ~searchQuery /\ UNCHANGED <<selectedSeverity, selectedLayer>>
     \/ selectedSeverity' = ~selectedSeverity /\ UNCHANGED <<searchQuery, selectedLayer>>
     \/ selectedLayer' = ~selectedLayer /\ UNCHANGED <<searchQuery, selectedSeverity>>
  /\ UNCHANGED <<route, lists, rowVars, activeTab, demoCandidateStatus>>

\* "Reset Filters" is offered for an empty list only, and only while a search is set.
ResetFilters ==
  /\ Open /\ FilteredFindings = {} /\ searchQuery
  /\ searchQuery' = FALSE /\ selectedSeverity' = FALSE /\ selectedLayer' = FALSE
  /\ UNCHANGED <<route, lists, rowVars, activeTab, demoCandidateStatus>>

\* The keyboard: "j" and "k" move the highlight.
KeyDown ==
  /\ Open /\ activeTab = "findings"
  /\ LET last == IF FilteredFindings = {} THEN 1 ELSE Cardinality(FilteredFindings)
     IN selectedIndex' = IF selectedIndex < last THEN selectedIndex + 1 ELSE last
  /\ UNCHANGED <<route, lists, filters, expandedId, activeTab, demoCandidateStatus>>

KeyUp ==
  /\ Open /\ activeTab = "findings"
  /\ selectedIndex' = IF selectedIndex = 1 THEN 1 ELSE selectedIndex - 1
  /\ UNCHANGED <<route, lists, filters, expandedId, activeTab, demoCandidateStatus>>

Toggled(f) == IF expandedId = f THEN NoFinding ELSE f

\* Space or Enter opens or closes the highlighted row, if there is one.
KeyInspect ==
  /\ Open /\ activeTab = "findings"
  /\ \E i \in FilteredFindings :
       /\ Row(FilteredFindings, i) = selectedIndex
       /\ expandedId' = Toggled(rawFindings[i])
  /\ UNCHANGED <<route, lists, filters, selectedIndex, activeTab, demoCandidateStatus>>

KeyEscape ==
  /\ Open /\ activeTab = "findings"
  /\ expandedId' = NoFinding
  /\ UNCHANGED <<route, lists, filters, selectedIndex, activeTab, demoCandidateStatus>>

\* The mouse: a row is highlighted, or opened by its button without a highlight.
Click(i) ==
  /\ Open
  /\ \/ selectedIndex' = Row(FilteredFindings, i) /\ UNCHANGED expandedId
     \/ expandedId' = Toggled(rawFindings[i]) /\ UNCHANGED selectedIndex
  /\ UNCHANGED <<route, lists, filters, activeTab, demoCandidateStatus>>

SwitchTab ==
  /\ Open
  /\ activeTab' = IF activeTab = "findings" THEN "candidates" ELSE "findings"
  /\ UNCHANGED <<route, lists, filters, rowVars, demoCandidateStatus>>

\* "This is mine" and "Not mine" of the demo item stay on the page.
Triage(status) ==
  /\ Open
  /\ demoCandidateStatus' = status
  /\ UNCHANGED <<route, lists, filters, rowVars, activeTab>>

\* A finding is observed for the first time or again: it comes first.
Observe(f) ==
  /\ \/ (\A i \in DOMAIN observed : observed[i] # f) /\ observed' = <<f>> \o observed
     \/ \E i \in DOMAIN observed :
          observed[i] = f /\ observed' = <<f>> \o RemoveAt(observed, i)
  /\ UNCHANGED <<route, rawFindings, filters, rowVars, activeTab, demoCandidateStatus>>

\* The list is fetched: on a visit, when it is stale, or after a reconnection.
FetchFindings ==
  /\ Open /\ rawFindings' = observed
  /\ UNCHANGED <<route, observed, filters, rowVars, activeTab, demoCandidateStatus>>

\* A new visit starts afresh but for the list, which is shown from the cache.
Leave ==
  /\ Open /\ route' = "elsewhere"
  /\ UNCHANGED <<lists, filters, rowVars, activeTab, demoCandidateStatus>>

Return ==
  /\ route = "elsewhere" /\ route' = "findings"
  /\ searchQuery' = FALSE /\ selectedSeverity' = FALSE /\ selectedLayer' = FALSE
  /\ selectedIndex' = 1 /\ expandedId' = NoFinding
  /\ activeTab' = "findings" /\ demoCandidateStatus' = "unreviewed"
  /\ UNCHANGED lists

Next ==
  \/ SetFilter \/ ResetFilters
  \/ KeyDown \/ KeyUp \/ KeyInspect \/ KeyEscape
  \/ \E i \in FilteredFindings : Click(i)
  \/ SwitchTab \/ \E status \in {"confirmed", "dismissed"} : Triage(status)
  \/ \E f \in Findings : Observe(f)
  \/ FetchFindings \/ Leave \/ Return

(***************************************************************************)
(* Properties.                                                             *)
(***************************************************************************)
TypeOK ==
  /\ observed \in Seq(Findings) /\ rawFindings \in Seq(Findings)
  /\ searchQuery \in BOOLEAN /\ selectedSeverity \in BOOLEAN /\ selectedLayer \in BOOLEAN
  /\ selectedIndex \in Nat \ {0} /\ expandedId \in Findings \cup {NoFinding}
  /\ activeTab \in {"findings", "candidates"}
  /\ demoCandidateStatus \in {"unreviewed", "confirmed", "dismissed"}
=============================================================================

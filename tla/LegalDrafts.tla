----------------------------- MODULE LegalDrafts -----------------------------
(***************************************************************************)
(* The drafts of demands and complaints on the remediation page             *)
(* (RemediationPage.tsx, remediation/api.ts): two generators and the list   *)
(* in which a draft is marked as sent.                                      *)
(***************************************************************************)
CONSTANT Drafts   \* the drafts that are generated (bound)

VARIABLES
  route,             \* the page the tab shows
  recipient, facts,  \* the page: the fields of the generators are filled in
  generating,        \* the generators with a request under way
  drafts, listedDrafts,    \* server: each draft's status; what the page lists
  marking            \* "Mark Transmission Sent" requests under way

vars == <<route, recipient, facts, generating, drafts, listedDrafts, marking>>

\* The page as it opens, with nothing on the server.
PageInit ==
  /\ recipient = FALSE /\ facts = FALSE /\ generating = {}
  /\ drafts = [d \in Drafts |-> "none"]
  /\ listedDrafts = drafts
  /\ marking = {}

Init == route = "remediation" /\ PageInit

Open == route = "remediation"

Fill ==
  /\ Open
  /\ \/ recipient' = ~recipient /\ UNCHANGED facts
     \/ facts' = ~facts /\ UNCHANGED recipient
  /\ UNCHANGED <<route, generating, drafts, listedDrafts, marking>>

\* A demand needs a recipient, a complaint a recipient and facts of ten characters;
\* each generator waits for its own earlier request.
Generate(kind) ==
  /\ Open /\ kind \notin generating
  /\ recipient /\ (kind = "complaint" => facts)
  /\ generating' = generating \cup {kind}
  /\ UNCHANGED <<route, recipient, facts, drafts, listedDrafts, marking>>

\* A draft is stored, or the request fails; a stored one is listed in time.
Generated(kind) ==
  /\ kind \in generating /\ generating' = generating \ {kind}
  /\ \/ \E d \in Drafts : drafts[d] = "none" /\ drafts' = [drafts EXCEPT ![d] = "draft"]
     \/ UNCHANGED drafts
  /\ UNCHANGED <<route, recipient, facts, listedDrafts, marking>>

FetchDrafts ==
  /\ Open /\ listedDrafts' = drafts
  /\ UNCHANGED <<route, recipient, facts, generating, drafts, marking>>

\* Offered on every draft that is not listed as sent.
MarkSent(d) ==
  /\ Open /\ listedDrafts[d] = "draft"
  /\ marking' = marking \cup {d}
  /\ UNCHANGED <<route, recipient, facts, generating, drafts, listedDrafts>>

\* mark_request_sent with sent = true.
ServeMark(d) ==
  /\ d \in marking /\ marking' = marking \ {d}
  /\ drafts' = [drafts EXCEPT ![d] = "sent_marked"]
  /\ UNCHANGED <<route, recipient, facts, generating, listedDrafts>>

\* A new visit starts with empty fields.
Leave ==
  /\ Open /\ route' = "elsewhere"
  /\ UNCHANGED <<recipient, facts, generating, drafts, listedDrafts, marking>>

Return ==
  /\ route = "elsewhere" /\ route' = "remediation"
  /\ recipient' = FALSE /\ facts' = FALSE
  /\ UNCHANGED <<generating, drafts, listedDrafts, marking>>

Next ==
  \/ \E kind \in {"know", "complaint"} : Generate(kind) \/ Generated(kind)
  \/ \E d \in Drafts : MarkSent(d) \/ ServeMark(d)
  \/ Fill \/ FetchDrafts \/ Leave \/ Return

(***************************************************************************)
(* Properties.                                                             *)
(***************************************************************************)
TypeOK ==
  /\ recipient \in BOOLEAN /\ facts \in BOOLEAN
  /\ generating \subseteq {"know", "complaint"} /\ marking \subseteq Drafts
  /\ drafts \in [Drafts -> {"none", "draft", "sent_marked"}]
  /\ listedDrafts \in [Drafts -> {"none", "draft", "sent_marked"}]
=============================================================================

-------------------------- MODULE RemediationStudio --------------------------
(***************************************************************************)
(* The studio of the remediation page (RemediationPage.tsx): an opt-out job *)
(* is dispatched for a verified address, for some brokers or for all, as a  *)
(* preview or live.  The page's other two tabs are RemediationTelemetry,    *)
(* and FreezeChecklist with LegalDrafts; they only choose what is shown.    *)
(***************************************************************************)
EXTENDS Naturals, FiniteSets, Sequences

CONSTANTS
  Emails,      \* the user's verified addresses
  NoEmail,     \* "Select verified email..."
  Brokers,     \* the catalogue
  MaxJobs      \* jobs that are dispatched (bound)

EmailsAssumption == NoEmail \notin Emails
MaxJobsAssumption == MaxJobs \in Nat

VARIABLES
  route,       \* the page the tab shows
  identifierId, selectedBrokers, dryRun, message,  \* the page's state
  dispatch,    \* the dispatch under way
  dispatched   \* server: the jobs, in the order of creation

choices == <<identifierId, selectedBrokers, dryRun>>
vars == <<route, choices, message, dispatch, dispatched>>

NoDispatch == [at |-> "idle", dry |-> TRUE, to |-> {}, here |-> FALSE]

\* The page as it opens, with nothing on the server.
PageInit ==
  /\ identifierId = NoEmail /\ selectedBrokers = {} /\ dryRun = TRUE
  /\ message = "none"
  /\ dispatch = NoDispatch
  /\ dispatched = <<>>

Init == route = "remediation" /\ PageInit

Open == route = "remediation"

SelectEmail(e) ==
  /\ Open /\ identifierId' = e
  /\ UNCHANGED <<route, selectedBrokers, dryRun, message, dispatch, dispatched>>

ToggleDryRun ==
  /\ Open /\ dryRun' = ~dryRun
  /\ UNCHANGED <<route, identifierId, selectedBrokers, message, dispatch, dispatched>>

\* toggleBroker.
ToggleBroker(b) ==
  /\ Open
  /\ selectedBrokers' = (selectedBrokers \ {b}) \cup ({b} \ selectedBrokers)
  /\ UNCHANGED <<route, identifierId, dryRun, message, dispatch, dispatched>>

\* All are deselected or, when none is selected, the whole catalogue is.
ToggleAll ==
  /\ Open
  /\ selectedBrokers' = IF selectedBrokers # {} THEN {} ELSE Brokers
  /\ UNCHANGED <<route, identifierId, dryRun, message, dispatch, dispatched>>

\* startOptOut: refused on the spot without an address, otherwise sent with the
\* choices of the moment.  The button waits for the answer to an earlier dispatch.
\* (Bound: so does the button of a later visit of the page.)
StartOptOut ==
  /\ Open
  /\ dispatch = NoDispatch
  /\ IF identifierId = NoEmail
       THEN message' = "missing" /\ UNCHANGED dispatch
       ELSE /\ dispatch' = [at |-> "sent", dry |-> dryRun, to |-> selectedBrokers, here |-> TRUE]
            /\ UNCHANGED message
  /\ UNCHANGED <<route, choices, dispatched>>

\* start_broker_optout: no selection means every Green broker; or it is refused.
ServeDispatch ==
  /\ dispatch.at = "sent"
  /\ \/ /\ Len(dispatched) < MaxJobs
        /\ dispatched' = Append(dispatched,
             [dry |-> dispatch.dry, to |-> IF dispatch.to = {} THEN Brokers ELSE dispatch.to])
        /\ dispatch' = [dispatch EXCEPT !.at = "accepted"]
     \/ dispatch' = [dispatch EXCEPT !.at = "refused"] /\ UNCHANGED dispatched
  /\ UNCHANGED <<route, choices, message>>

\* Mutant of Report: the message is written from the switch as it is by now.
ReportOfSwitch ==
  IF dispatch.at = "refused" THEN "error" ELSE IF dryRun THEN "dry" ELSE "live"

\* What the page says of the dispatch that was answered.
Report ==
  IF dispatch.at = "refused" THEN "error" ELSE IF dispatch.dry THEN "dry" ELSE "live"

\* The answer arrives; a page that was left in between is not told.
Dispatched ==
  /\ dispatch.at \in {"accepted", "refused"}
  /\ message' = IF dispatch.here THEN Report ELSE message
  /\ dispatch' = NoDispatch
  /\ UNCHANGED <<route, choices, dispatched>>

\* The page is left; what it has sent goes on.  A new visit mounts the page afresh:
\* every choice is back at its default, the mode at the preview.
Leave ==
  /\ Open /\ route' = "elsewhere"
  /\ identifierId' = NoEmail /\ selectedBrokers' = {} /\ dryRun' = TRUE
  /\ message' = "none"
  /\ dispatch' = [dispatch EXCEPT !.here = FALSE]
  /\ UNCHANGED dispatched

Return ==
  /\ route = "elsewhere" /\ route' = "remediation"
  /\ UNCHANGED <<choices, message, dispatch, dispatched>>

Next ==
  \/ \E e \in Emails \cup {NoEmail} : SelectEmail(e)
  \/ \E b \in Brokers : ToggleBroker(b)
  \/ ToggleDryRun \/ ToggleAll
  \/ StartOptOut \/ ServeDispatch \/ Dispatched
  \/ Leave \/ Return

Spec == Init /\ [][Next]_vars

(***************************************************************************)
(* Properties.                                                             *)
(***************************************************************************)
TypeOK ==
  /\ identifierId \in Emails \cup {NoEmail} /\ selectedBrokers \subseteq Brokers
  /\ dryRun \in BOOLEAN
  /\ message \in {"none", "missing", "error", "dry", "live"}
  /\ dispatch \in [at : {"idle", "sent", "accepted", "refused"}, dry : BOOLEAN,
                   to : SUBSET Brokers, here : BOOLEAN]
  /\ dispatched \in Seq([dry : BOOLEAN, to : SUBSET Brokers]) /\ Len(dispatched) <= MaxJobs

\* Once a dispatch is answered, what the page says is what its job does: behind the
\* message of a preview no live removal runs, whatever was toggled while the answer
\* was on its way and however often the page was left.
MessageTellsTheMode ==
  dispatch = NoDispatch /\ message \in {"dry", "live"} =>
    dispatched # <<>> /\ dispatched[Len(dispatched)].dry = (message = "dry")
=============================================================================

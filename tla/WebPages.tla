------------------------------ MODULE WebPages ------------------------------
(***************************************************************************)
(* The pages of the web application side by side.  Each has a module of its *)
(* own; what they share is the route.  A behaviour follows one page         *)
(* ("home"): it is opened, left for another page and visited again, while   *)
(* the variables of the others rest.                                        *)
(***************************************************************************)
EXTENDS Naturals, TLC

CONSTANTS
  Emails, NoEmail, Brokers, MaxJobs,             \* RemediationStudio
  Jobs,                                          \* RemediationTelemetry
  Bureaus, FreezeChoices, MaxChanges,            \* FreezeChecklist
  Drafts,                                        \* LegalDrafts
  MaxExports, MaxDeletions,                      \* PrivacyCenter
  Purposes, SelfGranted, MaxConsents,            \* ConsentCenter
  Ids, ByCode, Owned, MaxChallenges,             \* IdentifiersPage
  Findings, NoFinding, BySearch, BySeverity, ByLayer, \* TriageConsole
  PlanScopes, AllScopes, Recs, MaxPlans,         \* PlanBoard
  AmberLayers, MaxRequests,                      \* ScanForm
  MaxScans,                                      \* LiveScan
  MaxVersion, NoData,                            \* ClientCache
  SampleReviews, SampleEvents, PlainFields, DateFields, MaxPosted, \* TemporalPages
  Scopes, Located, MaxSnapshots                  \* ScoreStudio

VARIABLES
  home, route,
  identifierId, selectedBrokers, dryRun, message, dispatch, dispatched,
  job, captcha, shown, click,
  freeze, changes, freezeShown, freezeFetch, freezeInvalid, freezeMissed,
  recipient, facts, generating, drafts, listedDrafts, marking,
  createExport, package, exports, downloaded, phraseTyped, showDeleteModal, deletion, deletions,
  consents, ledger, asked, ensuring, decided, unsure, regranted,
  ids, issued, listed, starting, challenge, code, confirming, deleting,
  observed, rawFindings, searchQuery, selectedSeverity, selectedLayer, selectedIndex,
  expandedId, activeTab, demoCandidateStatus,
  plans, planShown, scopeId, planFetch, generate, update, marked, overlapped,
  granted, consentShown, anyVerified, layerScope, selectedIdentifier, notice, granting, create,
  requests, everGranted,
  scan, taken, creating, live, effect, streams, slipped, revived, cancelling, detail,
  query, mutation, version, cached, isInvalidated, isStale, fetching, answer, request, missed,
  statusFilter, choices, openCard, posted, newestWaits, blockedMessage, timelineFilters, cursor,
  showAdvanced, expandedEvents,
  snapshots, scoreScope, scoreShown, scoreFetch, scoreAsked, selected, result, briefing

Studio == INSTANCE RemediationStudio
Telemetry == INSTANCE RemediationTelemetry
Freeze == INSTANCE FreezeChecklist
Legal == INSTANCE LegalDrafts
Privacy == INSTANCE PrivacyCenter
Consent == INSTANCE ConsentCenter
Identifiers == INSTANCE IdentifiersPage
Triage == INSTANCE TriageConsole
Plan == INSTANCE PlanBoard WITH Scopes <- PlanScopes
Form == INSTANCE ScanForm
Live == INSTANCE LiveScan
Cache == INSTANCE ClientCache
Temporal == INSTANCE TemporalPages
Scores == INSTANCE ScoreStudio

ASSUME StudioEmailsAssumption == Studio!EmailsAssumption
ASSUME StudioMaxJobsAssumption == Studio!MaxJobsAssumption
ASSUME FreezeChecklistAssumption == Freeze!FreezeAssumption
ASSUME PrivacyBoundsAssumption == Privacy!BoundsAssumption
ASSUME ConsentMaxConsentsAssumption == Consent!MaxConsentsAssumption
ASSUME ConsentSelfGrantedAssumption == Consent!SelfGrantedAssumption
ASSUME IdentifiersIdsAssumption == Identifiers!IdsAssumption
ASSUME IdentifiersMaxChallengesAssumption == Identifiers!MaxChallengesAssumption
ASSUME TriageFiltersAssumption == Triage!FiltersAssumption
ASSUME PlanScopesAssumption == Plan!ScopesAssumption
ASSUME PlanRecsAssumption == Plan!RecsAssumption
ASSUME PlanMaxPlansAssumption == Plan!MaxPlansAssumption
ASSUME FormAmberLayersAssumption == Form!AmberLayersAssumption
ASSUME FormMaxRequestsAssumption == Form!MaxRequestsAssumption
ASSUME LiveMaxScansAssumption == Live!MaxScansAssumption
ASSUME CacheMaxVersionAssumption == Cache!MaxVersionAssumption
ASSUME TemporalFieldsAssumption == Temporal!FieldsAssumption
ASSUME ScoresMaxSnapshotsAssumption == Scores!MaxSnapshotsAssumption
ASSUME ScoresLocatedAssumption == Scores!LocatedAssumption

studioVars == <<identifierId, selectedBrokers, dryRun, message, dispatch, dispatched>>
telemetryVars == <<job, captcha, shown, click>>
freezeVars == <<freeze, changes, freezeShown, freezeFetch, freezeInvalid, freezeMissed>>
legalVars == <<recipient, facts, generating, drafts, listedDrafts, marking>>
privacyVars == <<createExport, package, exports, downloaded, phraseTyped, showDeleteModal,
                 deletion, deletions>>
consentVars == <<consents, ledger, asked, ensuring, decided, unsure, regranted>>
identifiersVars == <<ids, issued, listed, starting, challenge, code, confirming, deleting>>
triageVars == <<observed, rawFindings, searchQuery, selectedSeverity, selectedLayer,
                selectedIndex, expandedId, activeTab, demoCandidateStatus>>
planVars == <<plans, planShown, scopeId, planFetch, generate, update, marked, overlapped>>
formVars == <<granted, consentShown, anyVerified, layerScope, selectedIdentifier, notice,
              granting, create, requests, everGranted>>
liveVars == <<scan, taken, creating, live, effect, streams, slipped, revived, cancelling, detail>>
cacheVars == <<query, mutation, version, cached, isInvalidated, isStale, fetching, answer,
               request, missed>>
temporalVars == <<statusFilter, choices, openCard, posted, newestWaits, blockedMessage,
                  timelineFilters, cursor, showAdvanced, expandedEvents>>
scoresVars == <<snapshots, scoreScope, scoreShown, scoreFetch, scoreAsked, selected, result,
                briefing>>

\* Where each page is at home, as the router leads there.
Opening ==
  [studio |-> "remediation", telemetry |-> "remediation", freeze |-> "remediation",
   legal |-> "remediation", privacy |-> "privacy", consent |-> "privacy",
   identifiers |-> "identifiers", triage |-> "findings", plan |-> "recommendations",
   form |-> "scans", live |-> "scans", cache |-> "elsewhere", temporal |-> "review",
   scores |-> "scores"]

Init ==
  /\ home \in DOMAIN Opening /\ route = Opening[home]
  /\ query \in (IF home = "cache" THEN Cache!Queries ELSE {"useMe"})
  /\ mutation \in (IF home = "cache" THEN Cache!Mutations ELSE {"useLogin"})
  /\ Studio!PageInit /\ Telemetry!PageInit /\ Freeze!PageInit /\ Legal!PageInit /\
     Privacy!PageInit /\ Consent!PageInit /\ Identifiers!PageInit /\ Triage!PageInit /\
     Plan!PageInit /\ Form!PageInit /\ Live!PageInit /\ Cache!PageInit /\ Temporal!PageInit /\
     Scores!PageInit

\* A step of page p leaves the others alone.
Follows(p) ==
  /\ home = p /\ UNCHANGED home
  /\ p # "studio" => UNCHANGED studioVars
  /\ p # "telemetry" => UNCHANGED telemetryVars
  /\ p # "freeze" => UNCHANGED freezeVars
  /\ p # "legal" => UNCHANGED legalVars
  /\ p # "privacy" => UNCHANGED privacyVars
  /\ p # "consent" => UNCHANGED consentVars
  /\ p # "identifiers" => UNCHANGED identifiersVars
  /\ p # "triage" => UNCHANGED triageVars
  /\ p # "plan" => UNCHANGED planVars
  /\ p # "form" => UNCHANGED formVars
  /\ p # "live" => UNCHANGED liveVars
  /\ p # "cache" => UNCHANGED cacheVars
  /\ p # "temporal" => UNCHANGED temporalVars
  /\ p # "scores" => UNCHANGED scoresVars

Next ==
  \/ Follows("studio") /\ Studio!Next
  \/ Follows("telemetry") /\ Telemetry!Next
  \/ Follows("freeze") /\ Freeze!Next
  \/ Follows("legal") /\ Legal!Next
  \/ Follows("privacy") /\ Privacy!Next
  \/ Follows("consent") /\ Consent!Next
  \/ Follows("identifiers") /\ Identifiers!Next
  \/ Follows("triage") /\ Triage!Next
  \/ Follows("plan") /\ Plan!Next
  \/ Follows("form") /\ Form!Next
  \/ Follows("live") /\ Live!Next
  \/ Follows("cache") /\ Cache!Next
  \/ Follows("temporal") /\ Temporal!Next
  \/ Follows("scores") /\ Scores!Next

allVars == <<home, route, studioVars, telemetryVars, freezeVars, legalVars, privacyVars,
             consentVars, identifiersVars, triageVars, planVars, formVars, liveVars, cacheVars,
             temporalVars, scoresVars>>

\* The lists that are polled, while their page is open.
Spec == Init /\ [][Next]_allVars /\ Telemetry!Fairness /\ Live!Fairness

(***************************************************************************)
(* Properties, each stated and explained in the module of its page.        *)
(***************************************************************************)
\* The variables of every page have their types.
TypeOK ==
  /\ Studio!TypeOK /\ Telemetry!TypeOK /\ Freeze!TypeOK /\ Legal!TypeOK /\ Privacy!TypeOK /\
     Consent!TypeOK /\ Identifiers!TypeOK /\ Triage!TypeOK /\ Plan!TypeOK /\ Form!TypeOK /\
     Live!TypeOK /\ Cache!TypeOK /\ Temporal!TypeOK /\ Scores!TypeOK

\* Once a dispatch is answered, what the page says is what its job does: behind the
\* message of a preview no live removal runs, whatever was toggled while the answer
\* was on its way and however often the page was left.
MessageTellsTheMode == Studio!MessageTellsTheMode

\* A job that has ended is shown as ended, and loses its "Terminate" button, if
\* the page stays open; also a job created while the page showed none active.
EndedJobIsShown == Telemetry!EndedJobIsShown

\* Once nothing is under way the checklist shows what the server has, whichever changes
\* were refused, served in the other order, or overtook a fetch; the exceptions are named
\* in the module.
ChecklistShowsServer == Freeze!ChecklistShowsServer

\* When nothing is under way, each purpose is as it was last decided, whatever was
\* granted more than once, and also when it was decided from an old ledger; excepted are
\* decisions that failed or overtook each other on their way, and purposes the server
\* has granted by itself since.
LastDecisionHolds == Consent!LastDecisionHolds

\* What does not belong to the user is verified only by a challenge of its own whose code
\* the server itself returned (G1), whatever card, code and identifier are mixed up by
\* answers that arrive late.
OnlyProvenIsVerified == Identifiers!OnlyProvenIsVerified

\* A recommendation with no mark under way is as it was last marked, but for marks that
\* failed, also when the page was left, visited again and a newer plan generated between click
\* and answer; excepted is one marked again while a mark of it was under way.
PlanIsAsMarked == Plan!PlanIsAsMarked

\* A scan of an amber layer runs only for a user who consented to that very layer
\* and to amber discovery, however old the ledger was from which it was started.
AmberScanWasConsented == Form!AmberScanWasConsented

\* The card never shows a scan as ended that has not, although streams of several scans
\* write to it; but for the event of an older scan that slips in between the card's change
\* and the effect that closes the older stream.  A worker may have revived the scan since.
CardEndedIsEnded == Live!CardEndedIsEnded

\* A scan that has ended is shown as ended on its page, if the page stays open.
DetailShowsEnd == Live!DetailShowsEnd

\* Once nothing is under way, a page shows the data as the handlers of the user's own
\* mutations left it, whatever of fetch, click, answer and change of page overtook each
\* other; except for the pairs of LeftAlone, for what failed, and for a change that
\* was made while the answer was fetched for the first time or without its page.
SettledPageIsCurrent == Cache!SettledPageIsCurrent

\* The score shown for a scope was computed for that scope, whatever scopes were
\* selected, computed and simulated while it was fetched.
ScoreIsOfScope == Scores!ScoreIsOfScope
=============================================================================

----------------------------- MODULE ClientCache -----------------------------
(***************************************************************************)
(* What the pages read: the query and mutation hooks (the api.ts files of   *)
(* the features, hooks/useAuth.ts) over the query cache, whose rules are    *)
(* those of the library as main.tsx configures it: an answer is fresh for   *)
(* a while, a mutation's success marks the answers under a key prefix as    *)
(* invalid and has those on the screen fetched again.                       *)
(*                                                                          *)
(* The hooks are tables.  A behaviour follows one query and one mutation,   *)
(* any pair of them; other queries and mutations do not disturb it.  Each   *)
(* answer of the server is named by the version of the data it was made of. *)
(***************************************************************************)
EXTENDS Naturals, SequencesExt

CONSTANTS
  MaxVersion,   \* changes of the data (bound)
  NoData        \* nothing is cached

MaxVersionAssumption == MaxVersion \in Nat /\ NoData \notin Nat

(***************************************************************************)
(* The keys of the queries, and the prefixes each mutation invalidates.    *)
(***************************************************************************)
SessionKeys == [useMe |-> <<"me">>]

SessionMutations == [useLogin |-> {<<"me">>}, useRegister |-> {}]

IdentifierKeys == [useIdentifiers |-> <<"identifiers">>]

IdentifierMutations ==
  [useCreateIdentifier |-> {<<"identifiers">>}, useDeleteIdentifier |-> {<<"identifiers">>},
   useStartVerify |-> {}, useConfirmVerify |-> {<<"identifiers">>}]

FindingKeys == [useFindings |-> <<"findings", "all">>]

ScanKeys == [useScans |-> <<"scans">>, useScan |-> <<"scans", "id">>]

ScanMutations == [useCreateScan |-> {<<"scans">>}, useCancelScan |-> {<<"scans">>}]

LayerKeys == [useLayerCatalog |-> <<"layers">>]

ScoreKeys ==
  [useLatestScore |-> <<"scores", "latest", "all">>,
   useScoreHistory |-> <<"scores", "history", "all">>]

\* The what-if is posted by no mutation of the library, nor is the briefing below.
ScoreMutations == [useComputeScore |-> {<<"scores">>}, WhatIfSimulator |-> {}]

PlanKeys == [useLatestPlan |-> <<"recommendations", "latest", "all">>]

PlanMutations ==
  [useGeneratePlan |-> {<<"recommendations">>}, useUpdateRecommendation |-> {<<"recommendations">>}]

PrivacyKeys ==
  [useConsent |-> <<"privacy", "consent">>, useAuditEvents |-> <<"privacy", "audit">>,
   useEgressEvents |-> <<"privacy", "egress">>,
   useExportPackage |-> <<"privacy", "exports", "id">>]

PrivacyMutations ==
  [useGrantConsent |-> {<<"privacy", "consent">>}, useRevokeConsent |-> {<<"privacy", "consent">>},
   useCreateExport |-> {<<"privacy", "exports">>}, useRequestAccountDeletion |-> {},
   NarrativeBriefing |-> {}]

RemediationKeys ==
  [useBrokerCatalog |-> <<"remediation", "brokers">>,
   useBrokerStates |-> <<"remediation", "state">>,
   useRemediationJobs |-> <<"remediation", "jobs">>,
   useRemediationJob |-> <<"remediation", "jobs", "id">>,
   useCaptchaQueue |-> <<"remediation", "captcha">>]

RemediationMutations ==
  [m \in {"useStartBrokerOptOut", "useCancelRemediationJob", "useSolveCaptcha", "useVerifyBrokers"}
     |-> {<<"remediation">>}]

PaperworkKeys ==
  [useFreezeChecklist |-> <<"remediation", "freeze">>,
   useGeneratedRequests |-> <<"remediation", "requests">>]

PaperworkMutations ==
  [useUpdateFreezeItem |-> {<<"remediation", "freeze">>},
   useCreateKnowRequest |-> {<<"remediation", "requests">>},
   useCreateComplaint |-> {<<"remediation", "requests">>},
   useMarkRequestSent |-> {<<"remediation", "requests">>}]

GraphKeys == [useIdentityGraph |-> <<"identity", "graph">>]

GraphMutations == [useRebuildGraph |-> {<<"identity">>}]

AnchorKeys ==
  [useIdentityAnchor |-> <<"identity", "anchor">>,
   useCandidateDiscoveryRuns |-> <<"identity", "discovery_runs">>,
   useCandidateProfiles |-> <<"identity", "candidates">>,
   useOrchestrationRuns |-> <<"identity", "orchestration_runs">>,
   useIdentityAssessment |-> <<"identity", "assessment", "id">>]

AnchorMutations ==
  [m \in {"useAddAlias", "useRevokeAlias", "useAddProfile", "useRevokeProfile"}
     |-> {<<"identity", "anchor">>}]

DiscoveryMutations ==
  [useStartDiscovery |-> {<<"identity", "discovery_runs">>, <<"identity", "orchestration_runs">>},
   useConfirmCandidate |-> {<<"identity", "candidates">>, <<"identity", "anchor">>},
   useDismissCandidate |-> {<<"identity", "candidates">>},
   useRecalculateAssessment |-> {<<"identity", "assessment", "id">>}]

KeyTables ==
  {SessionKeys, IdentifierKeys, FindingKeys, ScanKeys, LayerKeys, ScoreKeys, PlanKeys,
   PrivacyKeys, RemediationKeys, PaperworkKeys, GraphKeys, AnchorKeys}

MutationTables ==
  {SessionMutations, IdentifierMutations, ScanMutations, ScoreMutations, PlanMutations,
   PrivacyMutations, RemediationMutations, PaperworkMutations, GraphMutations,
   AnchorMutations, DiscoveryMutations}

Queries == UNION {DOMAIN t : t \in KeyTables}
Mutations == UNION {DOMAIN t : t \in MutationTables}

\* What the tables have for a hook: the key of a query, the prefixes of a mutation.
QueryKey(q) == {t[q] : t \in {u \in KeyTables : q \in DOMAIN u}}
Invalidated(m) == UNION {t[m] : t \in {u \in MutationTables : m \in DOMAIN u}}

\* The hooks that never have an answer.  Those of the anchor read a field "data" that
\* theirs does not have, and the library takes an undefined result for a failure; the
\* request for the layers calls a method that its service lacks.
WithoutData == DOMAIN AnchorKeys \cup DOMAIN LayerKeys

\* Fetched again at an interval while on the screen.
Polled == {"useScan", "useRemediationJobs", "useRemediationJob", "useCaptchaQueue"}

\* Every account has its own answers, but for the two catalogues.
OfAccount == Queries \ {"useLayerCatalog", "useBrokerCatalog"}

(***************************************************************************)
(* The answers the handler of each mutation may change on the server, the  *)
(* log of the audit among them; what a worker changes afterwards is not    *)
(* counted.  The mutations of the identity anchor change only answers of   *)
(* WithoutData.                                                            *)
(***************************************************************************)
Log == "useAuditEvents"

\* Another account may sign in where one has signed out.
SessionChanges == [useLogin |-> OfAccount]

\* The graph shows the identifiers and whether they are verified.  An identifier is
\* deleted with all that was found, scanned, scored and planned for it, and taken out
\* of its jobs.
IdentifierChanges ==
  [useCreateIdentifier |-> {"useIdentifiers", "useIdentityGraph", Log},
   useDeleteIdentifier |->
     {"useIdentifiers", "useFindings", "useScans", "useScan", "useLatestScore",
      "useScoreHistory", "useLatestPlan", "useIdentityGraph", "useRemediationJobs",
      "useRemediationJob", Log}]

\* A proof by gist asks the host of the gists, which grants a consent and is recorded.
VerificationChanges ==
  [useStartVerify |-> {Log},
   useConfirmVerify |-> {"useIdentifiers", "useIdentityGraph", "useConsent",
                         "useEgressEvents", Log}]

ScanChanges ==
  [useCreateScan |-> {"useScans", Log}, useCancelScan |-> {"useScans", "useScan", Log}]

ScoreChanges ==
  [useComputeScore |-> DOMAIN ScoreKeys \cup {Log}, WhatIfSimulator |-> DOMAIN ScoreKeys]

PlanChanges ==
  [m \in {"useGeneratePlan", "useUpdateRecommendation"} |-> {"useLatestPlan", Log}]

\* An account that is deleted at once is deleted with all that is in it.
PrivacyChanges ==
  [useGrantConsent |-> {"useConsent", Log}, useRevokeConsent |-> {"useConsent", Log},
   useCreateExport |-> {Log}, NarrativeBriefing |-> {Log},
   useRequestAccountDeletion |-> OfAccount]

\* An opt-out grants the consent it needs.
RemediationChanges ==
  [useStartBrokerOptOut |-> {"useRemediationJobs", "useConsent", Log},
   useCancelRemediationJob |-> {"useRemediationJobs", "useRemediationJob"},
   useSolveCaptcha |-> {"useCaptchaQueue", "useRemediationJobs", "useRemediationJob"},
   useVerifyBrokers |-> {"useBrokerStates"}]

PaperworkChanges ==
  [useUpdateFreezeItem |-> {"useFreezeChecklist", Log},
   useCreateKnowRequest |-> {"useGeneratedRequests"},
   useCreateComplaint |-> {"useGeneratedRequests"},
   useMarkRequestSent |-> {"useGeneratedRequests"}]

GraphChanges == [useRebuildGraph |-> {"useIdentityGraph", Log}]

ChangeTables ==
  {SessionChanges, IdentifierChanges, VerificationChanges, ScanChanges, ScoreChanges,
   PlanChanges, PrivacyChanges, RemediationChanges, PaperworkChanges, GraphChanges}

(***************************************************************************)
(* The cache.                                                              *)
(***************************************************************************)
VARIABLES
  route,              \* whether the page of the query is on the screen
  query, mutation,    \* the hooks followed
  version,            \* server: the data the query answers
  cached, isInvalidated, isStale,   \* the cache's entry
  fetching, answer,   \* the fetch under way; the version it read
  request,            \* the mutation under way
  missed              \* history: a change may have been missed (see Miss)

cacheVars == <<cached, isInvalidated, isStale>>
vars == <<route, query, mutation, version, cacheVars, fetching, answer, request, missed>>

Idle == "idle"
Sent == "sent"

\* Nothing has been fetched.
PageInit ==
  /\ version = 0
  /\ cached = NoData /\ isInvalidated = FALSE /\ isStale = TRUE
  /\ fetching = Idle /\ answer = 0
  /\ request = Idle /\ missed = FALSE

Init == route = "elsewhere" /\ query \in Queries /\ mutation \in Mutations /\ PageInit

Open == route = "page"
Active == Open

\* A fetch that starts will see every change made so far.
StartFetch == fetching' = Sent /\ missed' = FALSE

\* The page comes on the screen: it shows what is cached, and has it fetched unless
\* it is fresh or already being fetched.
Mount ==
  /\ ~Open /\ route' = "page"
  /\ IF fetching = Idle /\ (cached = NoData \/ isInvalidated \/ isStale)
       THEN StartFetch ELSE UNCHANGED <<fetching, missed>>
  /\ UNCHANGED <<query, mutation, version, cacheVars, answer, request>>

\* A fetch goes on without its page.
Unmount ==
  /\ Open /\ route' = "elsewhere"
  /\ UNCHANGED <<query, mutation, version, cacheVars, fetching, answer, request, missed>>

\* The answer is no longer fresh (15 s); nothing is fetched for that alone.
Age ==
  /\ ~isStale /\ isStale' = TRUE
  /\ UNCHANGED <<route, query, mutation, version, cached, isInvalidated, fetching, answer,
                 request, missed>>

\* An entry that no page shows is dropped in the end.
Collect ==
  /\ ~Open /\ fetching = Idle /\ cached # NoData
  /\ cached' = NoData /\ isInvalidated' = FALSE /\ isStale' = TRUE
  /\ UNCHANGED <<route, query, mutation, version, fetching, answer, request, missed>>

Tick ==
  /\ Active /\ query \in Polled /\ fetching = Idle
  /\ StartFetch
  /\ UNCHANGED <<route, query, mutation, version, cacheVars, answer, request>>

ServeFetch ==
  /\ fetching = Sent /\ fetching' = "read"
  /\ answer' = version
  /\ UNCHANGED <<route, query, mutation, version, cacheVars, request, missed>>

\* The answer is cached, as fresh and valid.
Fetched ==
  /\ fetching = "read" /\ query \notin WithoutData
  /\ cached' = answer /\ isInvalidated' = FALSE /\ isStale' = FALSE
  /\ fetching' = Idle
  /\ UNCHANGED <<route, query, mutation, version, answer, request, missed>>

\* The fetch fails, after the retries the hook allows.
FetchFails ==
  /\ fetching # Idle /\ fetching' = Idle /\ missed' = TRUE
  /\ UNCHANGED <<route, query, mutation, version, cacheVars, answer, request>>

Mutate ==
  /\ request = Idle /\ version < MaxVersion /\ request' = Sent
  /\ UNCHANGED <<route, query, mutation, version, cacheVars, fetching, answer, missed>>

\* The mutation may change the query's data.
Touches == \E t \in ChangeTables : mutation \in DOMAIN t /\ query \in t[mutation]

ServeMutation ==
  /\ request = Sent /\ request' = "served"
  /\ \/ version' = version
     \/ Touches /\ version' = version + 1
  /\ UNCHANGED <<route, query, mutation, cacheVars, fetching, answer, missed>>

\* Mutant of IsInvalidated: only the very key is invalidated.
IsInvalidatedExactly == QueryKey(query) \subseteq Invalidated(mutation)

\* invalidateQueries: the keys that begin with one of the mutation's.
IsInvalidated ==
  \E prefix \in Invalidated(mutation), key \in QueryKey(query) : IsPrefix(prefix, key)

\* Mutant of MustRefetch: a fetch that is under way is joined.
MustRefetchOnce == Active /\ fetching = Idle

\* An entry on the screen is fetched again; a fetch under way is given up for that,
\* unless it is the first.
MustRefetch == Active /\ (cached # NoData \/ fetching = Idle)

\* onSuccess.  A fetch that is joined, or that goes on without its page, may have
\* read the data before the change: it will set the entry valid all the same.
Succeeded ==
  /\ request = "served" /\ request' = Idle
  /\ IF ~IsInvalidated THEN UNCHANGED <<isInvalidated, fetching, missed>>
     ELSE /\ isInvalidated' = (cached # NoData)
          /\ IF MustRefetch THEN StartFetch
             ELSE missed' = (missed \/ (fetching # Idle /\ (cached = NoData \/ ~Active)))
                  /\ UNCHANGED fetching
  /\ UNCHANGED <<route, query, mutation, version, cached, isStale, answer>>

\* The mutation is refused, or its answer is lost: nothing is invalidated.
Failed ==
  /\ request # Idle /\ request' = Idle /\ missed' = TRUE
  /\ UNCHANGED <<route, query, mutation, version, cacheVars, fetching, answer>>

Next ==
  \/ Mount \/ Unmount \/ Age \/ Collect
  \/ Tick \/ ServeFetch \/ Fetched \/ FetchFails
  \/ Mutate \/ ServeMutation \/ Succeeded \/ Failed

(***************************************************************************)
(* Properties.                                                             *)
(***************************************************************************)
TypeOK ==
  LET number == 0..MaxVersion IN
  /\ query \in Queries /\ mutation \in Mutations /\ version \in number
  /\ cached \in number \cup {NoData}
  /\ isInvalidated \in BOOLEAN /\ isStale \in BOOLEAN /\ missed \in BOOLEAN
  /\ fetching \in {Idle, Sent, "read"} /\ answer \in number /\ request \in {Idle, Sent, "served"}

\* What a mutation may change and leaves on the screen: the log of the audit; what an
\* identifier's creation, verification and deletion change beside the identifiers; the
\* consent an opt-out grants; what a simulation adds to the scores; and what another
\* account has, or a deleted one no longer.
LeftAlone(m, q) ==
  \/ q = Log
  \/ /\ m \in {"useCreateIdentifier", "useConfirmVerify", "useDeleteIdentifier"}
     /\ q # "useIdentifiers"
  \/ m = "useStartBrokerOptOut" /\ q = "useConsent"
  \/ m = "WhatIfSimulator" /\ q \in DOMAIN ScoreKeys
  \/ m = "useLogin" /\ q # "useMe"
  \/ m = "useRequestAccountDeletion"

\* Once nothing is under way, a page shows the data as the handlers of the user's own
\* mutations left it, whatever of fetch, click, answer and change of page overtook each
\* other; except for the pairs of LeftAlone, for what failed, and for a change that
\* was made while the answer was fetched for the first time or without its page.
SettledPageIsCurrent ==
  /\ Open /\ fetching = Idle /\ request = Idle /\ cached # NoData
  /\ ~missed /\ ~LeftAlone(mutation, query)
  => cached = version
=============================================================================

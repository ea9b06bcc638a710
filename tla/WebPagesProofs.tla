--------------------------- MODULE WebPagesProofs ---------------------------
(***************************************************************************)
(* What is proved of the pages beside one another, for every value of their *)
(* constants.  Each page has an inductive invariant of its own: its steps   *)
(* keep it, and the steps of the others leave its variables alone.  Those   *)
(* of four pages come from the modules of their proofs; the others follow   *)
(* here, and then the types of all.  The pages share the route; only the    *)
(* invariants of the live card and of the cache speak of it, and of the     *)
(* page that is followed.                                                   *)
(***************************************************************************)
EXTENDS WebPages, SequenceTheorems, FiniteSetTheorems, TLAPS

\* The proofs about each page.  They instantiate the page once more: the lemmas named
\* ...IsStep lead from the steps of the composition to those the proofs speak of.
FreezeProofs == INSTANCE FreezeChecklistProofs
FormProofs == INSTANCE ScanFormProofs
StudioProofs == INSTANCE RemediationStudioProofs
IdentifiersProofs == INSTANCE IdentifiersPageProofs

-----------------------------------------------------------------------------
(* The freeze checklist. *)

\* A step of the page is a step its proofs speak of.
LEMMA FreezeIsStep == Freeze!Next => FreezeProofs!Next
BY DEF Freeze!Next, FreezeProofs!Next, Freeze!Choose, FreezeProofs!Choose,
    Freeze!ServeChange, FreezeProofs!ServeChange, Freeze!Patched, FreezeProofs!Patched,
    Freeze!Changed, FreezeProofs!Changed, Freeze!Refetched, FreezeProofs!Refetched,
    Freeze!Miss, FreezeProofs!Miss, Freeze!ChangeFails, FreezeProofs!ChangeFails,
    Freeze!ServeFetch, FreezeProofs!ServeFetch, Freeze!Fetched, FreezeProofs!Fetched,
    Freeze!FetchFails, FreezeProofs!FetchFails, Freeze!Asked, FreezeProofs!Asked,
    Freeze!NoFetch, FreezeProofs!NoFetch, Freeze!Fresh, FreezeProofs!Fresh,
    Freeze!Leave, FreezeProofs!Leave, Freeze!Return, FreezeProofs!Return, Freeze!Open,
    FreezeProofs!Open

\* The inductive invariant of the checklist.
FreezeInv == FreezeProofs!TypeOK /\ FreezeProofs!Current

\* No step of the checklist, or of another page, disturbs it.
LEMMA FreezeStep == FreezeInv /\ [Next]_allVars => FreezeInv'
  <1> SUFFICES ASSUME FreezeInv, [Next]_allVars PROVE FreezeInv'
    OBVIOUS
  <1>1. FreezeProofs!FreezeAssumption
    BY FreezeChecklistAssumption
    DEF Freeze!FreezeAssumption, FreezeProofs!FreezeAssumption, Freeze!FreezeStatus,
        FreezeProofs!FreezeStatus
  <1>2. CASE Freeze!Next
    BY <1>1, <1>2, FreezeIsStep, FreezeProofs!TypeStep, FreezeProofs!CurrentStep DEF FreezeInv
  <1>3. CASE UNCHANGED freezeVars
    BY <1>3 DEF freezeVars, FreezeInv, FreezeProofs!TypeOK, FreezeProofs!Current,
                FreezeProofs!Awaited
  <1> QED
    BY <1>2, <1>3 DEF Next, Follows, allVars

\* It holds when the pages open.
LEMMA FreezeInitial == Init => FreezeInv
  <1>1. Freeze!Fresh \in [Bureaus -> FreezeProofs!FreezeStatus] /\ Freeze!NoFetch.stage = "none"
    BY DEF Freeze!Fresh, FreezeProofs!FreezeStatus, Freeze!NoFetch
  <1>2. Freeze!NoFetch \in [stage : {"none", "asked", "read"},
                            data : [Bureaus -> FreezeProofs!FreezeStatus]]
    BY <1>1 DEF Freeze!NoFetch
  <1> QED
    BY <1>1, <1>2 DEF Init, Freeze!PageInit, FreezeInv, FreezeProofs!TypeOK, FreezeProofs!Current

\* Once nothing is under way the checklist shows what the server has, whichever changes
\* failed or were served in the other order and whatever pages were visited meanwhile;
\* except for the items of which the page was not told, or whose fetch failed.
THEOREM ChecklistHoldsAmongPages == Spec => []ChecklistShowsServer
  <1>1. FreezeInv => ChecklistShowsServer
    BY DEF FreezeInv, ChecklistShowsServer, Freeze!ChecklistShowsServer, FreezeProofs!Current,
           FreezeProofs!Awaited
  <1> QED
    BY FreezeInitial, <1>1, FreezeStep, PTL DEF Spec

-----------------------------------------------------------------------------
(* The scan form. *)

\* Both instances count alike.
LEMMA FormCounts == \A S : Form!Cardinality(S) = FormProofs!Cardinality(S)
BY DEF Form!Cardinality, FormProofs!Cardinality

\* A step of the page is a step its proofs speak of.
LEMMA FormIsStep == Form!Next => FormProofs!Next
BY FormCounts
DEF Form!Next, FormProofs!Next, Form!ChooseLayer, FormProofs!ChooseLayer, Form!ChooseIdentifier,
    FormProofs!ChooseIdentifier, Form!GrantAmberConsent, FormProofs!GrantAmberConsent,
    Form!Granted, FormProofs!Granted, Form!FetchConsents, FormProofs!FetchConsents,
    Form!StartScan, FormProofs!StartScan, Form!Accepts, FormProofs!Accepts, Form!ServeCreate,
    FormProofs!ServeCreate, Form!Elsewhere, FormProofs!Elsewhere, Form!Leave, FormProofs!Leave,
    Form!Return, FormProofs!Return, Form!Open, FormProofs!Open, Form!HasConsent,
    FormProofs!HasConsent, Form!ConsentPurpose, FormProofs!ConsentPurpose, Form!ConsentPurposes,
    FormProofs!ConsentPurposes, Form!NoPurpose, FormProofs!NoPurpose, Form!Layers,
    FormProofs!Layers, Form!ServerPurpose, FormProofs!ServerPurpose, Form!serverVars,
    FormProofs!serverVars, Form!formVars, FormProofs!formVars

\* The inductive invariant of the form.
FormInv == FormProofs!Consented /\ FormProofs!AmberScanWasConsented

\* No step of the form, or of another page, disturbs it.
LEMMA FormStep ==
  ASSUME Form!NoPurpose \notin AmberLayers
  PROVE  FormInv /\ [Next]_allVars => FormInv'
  <1> SUFFICES ASSUME FormInv, [Next]_allVars PROVE FormInv'
    OBVIOUS
  <1>1. CASE Form!Next
    BY <1>1, FormIsStep, FormProofs!ConsentedStep
    DEF FormInv, Form!NoPurpose, FormProofs!NoPurpose
  <1>2. CASE UNCHANGED formVars
    BY <1>2 DEF formVars, FormInv, FormProofs!Consented, FormProofs!AmberScanWasConsented,
                FormProofs!ServerPurpose
  <1> QED
    BY <1>1, <1>2 DEF Next, Follows, allVars

\* No scan of an amber layer runs without both consents given once, whatever other
\* pages are open and visited.
THEOREM AmberConsentHoldsAmongPages ==
  ASSUME Form!NoPurpose \notin AmberLayers
  PROVE  Spec => []AmberScanWasConsented
  <1>1. Init => FormInv
    BY DEF Init, Form!PageInit, Form!Layers, FormProofs!Layers, FormInv, FormProofs!Consented,
           FormProofs!AmberScanWasConsented
  <1>2. FormInv => AmberScanWasConsented
    BY DEF FormInv, AmberScanWasConsented, Form!AmberScanWasConsented, Form!ConsentPurpose,
           FormProofs!ConsentPurpose, Form!NoPurpose, FormProofs!NoPurpose,
           FormProofs!Consented, FormProofs!AmberScanWasConsented, FormProofs!ServerPurpose,
           Form!ServerPurpose
  <1> QED
    BY <1>1, <1>2, FormStep, PTL DEF Spec

-----------------------------------------------------------------------------
(* The remediation studio. *)

\* A step of the page is a step its proofs speak of.
LEMMA StudioIsStep == Studio!Next => StudioProofs!Next
BY DEF Studio!Next, StudioProofs!Next, Studio!SelectEmail, StudioProofs!SelectEmail,
       Studio!ToggleBroker, StudioProofs!ToggleBroker, Studio!ToggleDryRun,
       StudioProofs!ToggleDryRun, Studio!ToggleAll, StudioProofs!ToggleAll, Studio!StartOptOut,
       StudioProofs!StartOptOut, Studio!ServeDispatch, StudioProofs!ServeDispatch,
       Studio!Report, StudioProofs!Report, Studio!Dispatched, StudioProofs!Dispatched,
       Studio!Leave, StudioProofs!Leave, Studio!Return, StudioProofs!Return, Studio!Open,
       StudioProofs!Open, Studio!NoDispatch, StudioProofs!NoDispatch, Studio!choices,
       StudioProofs!choices

\* The inductive invariant of the studio.
StudioInv == StudioProofs!TypeOK /\ StudioProofs!Awaited /\ StudioProofs!MessageTellsTheMode

\* No step of the studio, or of another page, disturbs it.
LEMMA StudioStep == StudioInv /\ [Next]_allVars => StudioInv'
  <1> SUFFICES ASSUME StudioInv, [Next]_allVars PROVE StudioInv'
    OBVIOUS
  <1>1. CASE Studio!Next
    BY <1>1, StudioIsStep, StudioProofs!TypeStep, StudioProofs!AwaitedStep,
       StudioMaxJobsAssumption
    DEF StudioInv, Studio!MaxJobsAssumption
  <1>2. CASE UNCHANGED studioVars
    BY <1>2 DEF studioVars, StudioInv, StudioProofs!TypeOK, StudioProofs!Awaited,
                StudioProofs!MessageTellsTheMode, StudioProofs!NoDispatch
  <1> QED
    BY <1>1, <1>2 DEF Next, Follows, allVars

\* It holds when the pages open.
LEMMA StudioInitial == Init => StudioInv
BY StudioMaxJobsAssumption
DEF Studio!MaxJobsAssumption, Init, Studio!PageInit, Studio!NoDispatch,
    StudioProofs!NoDispatch, StudioInv, StudioProofs!TypeOK, StudioProofs!Awaited,
    StudioProofs!MessageTellsTheMode

\* What the page says of a dispatch is the mode of its job, whatever other pages are
\* open and visited.
THEOREM ModeIsToldAmongPages == Spec => []MessageTellsTheMode
  <1>1. StudioInv => MessageTellsTheMode
    BY DEF StudioInv, MessageTellsTheMode, Studio!MessageTellsTheMode, StudioProofs!TypeOK,
           StudioProofs!Awaited, StudioProofs!MessageTellsTheMode, StudioProofs!NoDispatch,
           Studio!NoDispatch
  <1> QED
    BY StudioInitial, <1>1, StudioStep, PTL DEF Spec

-----------------------------------------------------------------------------
(* The identifiers page. *)

\* A step of the page is a step its proofs speak of.
LEMMA IdentifiersIsStep == Identifiers!Next => IdentifiersProofs!Next
BY Zenon DEF Identifiers!Next, IdentifiersProofs!Next, Identifiers!Add, IdentifiersProofs!Add,
       Identifiers!StartVerify, IdentifiersProofs!StartVerify, Identifiers!ServeStart,
       IdentifiersProofs!ServeStart, Identifiers!Started, IdentifiersProofs!Started,
       Identifiers!TypeCode, IdentifiersProofs!TypeCode, Identifiers!CancelCard,
       IdentifiersProofs!CancelCard, Identifiers!Confirm, IdentifiersProofs!Confirm,
       Identifiers!Proves, IdentifiersProofs!Proves, Identifiers!ServeConfirm,
       IdentifiersProofs!ServeConfirm, Identifiers!Confirmed, IdentifiersProofs!Confirmed,
       Identifiers!Delete, IdentifiersProofs!Delete, Identifiers!Orphaned,
       IdentifiersProofs!Orphaned, Identifiers!ServeDelete, IdentifiersProofs!ServeDelete,
       Identifiers!Lapse, IdentifiersProofs!Lapse, Identifiers!FetchList,
       IdentifiersProofs!FetchList, Identifiers!Leave, IdentifiersProofs!Leave,
       Identifiers!Return, IdentifiersProofs!Return, Identifiers!Open, IdentifiersProofs!Open,
       Identifiers!Challenges, IdentifiersProofs!Challenges, Identifiers!NoChallenge,
       IdentifiersProofs!NoChallenge, Identifiers!NoConfirm, IdentifiersProofs!NoConfirm,
       Identifiers!NoCard, IdentifiersProofs!NoCard, Identifiers!Readable,
       IdentifiersProofs!Readable

\* The inductive invariant of the identifiers.
IdentifiersInv == IdentifiersProofs!Known /\ IdentifiersProofs!OnlyProvenIsVerified

\* No step of the identifiers page, or of another page, disturbs it.
LEMMA IdentifiersStep == IdentifiersInv /\ [Next]_allVars => IdentifiersInv'
  <1> SUFFICES ASSUME IdentifiersInv, [Next]_allVars PROVE IdentifiersInv'
    OBVIOUS
  <1>1. CASE Identifiers!Next
    BY <1>1, IdentifiersIsStep, IdentifiersProofs!KnownStep DEF IdentifiersInv
  <1>2. CASE UNCHANGED identifiersVars
    BY <1>2 DEF identifiersVars, IdentifiersInv, IdentifiersProofs!Known,
                IdentifiersProofs!OnlyProvenIsVerified, IdentifiersProofs!Challenges,
                IdentifiersProofs!IsRead, IdentifiersProofs!Readable,
                IdentifiersProofs!NoCard, IdentifiersProofs!Confirmation
  <1> QED
    BY <1>1, <1>2 DEF Next, Follows, allVars

\* It holds when the pages open.
LEMMA IdentifiersInitial == Init => IdentifiersInv
BY DEF Init, Identifiers!PageInit, Identifiers!NoConfirm, IdentifiersProofs!NoConfirm,
       Identifiers!NoChallenge, IdentifiersProofs!NoChallenge, IdentifiersProofs!IsRead,
       IdentifiersInv, IdentifiersProofs!Known, IdentifiersProofs!OnlyProvenIsVerified,
       Identifiers!NoCard, IdentifiersProofs!NoCard, IdentifiersProofs!Confirmation

\* What does not belong to the user is verified only by a challenge of its own whose code
\* the server returned, whatever other pages are open and visited.
THEOREM OnlyProvenHoldsAmongPages == Spec => []OnlyProvenIsVerified
  <1>1. IdentifiersInv => OnlyProvenIsVerified
    BY DEF IdentifiersInv, OnlyProvenIsVerified, Identifiers!OnlyProvenIsVerified,
           IdentifiersProofs!Known, IdentifiersProofs!OnlyProvenIsVerified,
           IdentifiersProofs!Challenges, IdentifiersProofs!IsRead, Identifiers!Challenges
  <1> QED
    BY IdentifiersInitial, <1>1, IdentifiersStep, PTL DEF Spec

-----------------------------------------------------------------------------
(* The recommendations page. *)

\* A plan with its recommendations' statuses.
PlanRow == [scope : PlanScopes, status : [Recs -> Plan!RecStatus]]

\* Plans are numbered and marked alike; every scope that has a plan has a latest one, and
\* what the page holds or waits for is a plan that exists.
PlanNumbered ==
  /\ plans \in Seq(PlanRow) /\ marked \in Seq([Recs -> Plan!RecStatus])
  /\ Len(marked) = Len(plans)
  /\ \A s \in PlanScopes : \A k \in DOMAIN plans :
       plans[k].scope = s =>
         \E n \in DOMAIN plans :
           plans[n].scope = s /\ \A m \in DOMAIN plans : plans[m].scope = s => m <= n
  /\ scopeId \in PlanScopes
  /\ \A s \in PlanScopes : planShown[s].n = 0 \/ planShown[s].n \in DOMAIN plans
  /\ planShown \in [PlanScopes -> [n : Nat, status : [Recs -> Plan!RecStatus]]]
  /\ \A f \in planFetch :
       /\ f \in [scope : PlanScopes, plan : [n : Nat, status : [Recs -> Plan!RecStatus]]]
       /\ f.plan.n = 0 \/ f.plan.n \in DOMAIN plans
  /\ generate \in [Plan!Visits -> SUBSET PlanScopes]

PlanUpdate == [n : Nat, rec : Recs, status : Plan!RecStatus]

\* What a visit has under way is a mark of a plan that exists, as it was last marked unless
\* it was overlapped; two marks of one recommendation overlap; every other recommendation is
\* as it was last marked.
PlanMarked ==
  /\ update \in [Plan!Visits -> PlanUpdate]
  /\ \A v \in Plan!Visits :
       \/ update[v].n = 0
       \/ /\ update[v].n \in DOMAIN plans
          /\ \/ <<update[v].n, update[v].rec>> \in overlapped
             \/ marked[update[v].n][update[v].rec] = update[v].status
  /\ \A v, w \in Plan!Visits :
       v # w /\ update[v].n # 0 /\ update[v].n = update[w].n /\ update[v].rec = update[w].rec
         => <<update[v].n, update[v].rec>> \in overlapped
  /\ \A n \in DOMAIN plans, r \in Recs :
       ~Plan!UnderWay(n, r) /\ <<n, r>> \notin overlapped => plans[n].status[r] = marked[n][r]

\* The inductive invariant of the recommendations page.
PlanInv == PlanNumbered /\ PlanMarked

\* The latest plan of a scope is a plan that exists, or none.
LEMMA LatestPlanExists ==
  ASSUME PlanNumbered, NEW s \in PlanScopes
  PROVE  /\ Plan!LatestPlan(s) \in [n : Nat, status : [Recs -> Plan!RecStatus]]
         /\ Plan!LatestPlan(s).n = 0 \/ Plan!LatestPlan(s).n \in DOMAIN plans
  <1> DEFINE mine == {n \in DOMAIN plans : plans[n].scope = s}
             n == CHOOSE k \in mine : \A m \in mine : m <= k
  <1>1. CASE mine = {}
    <2>1. Plan!LatestPlan(s) = [n |-> 0, status |-> [r \in Recs |-> "open"]]
      BY <1>1 DEF Plan!LatestPlan, Plan!NoPlan
    <2> QED
      BY <2>1 DEF Plan!RecStatus
  <1>2. CASE mine # {}
    <2>1. \E k \in mine : \A m \in mine : m <= k
      BY <1>2 DEF PlanNumbered
    <2>2. n \in mine
      BY <2>1
    <2>3. Plan!LatestPlan(s) = [n |-> n, status |-> plans[n].status]
      BY <1>2 DEF Plan!LatestPlan
    <2>4. n \in DOMAIN plans
      BY <2>2
    <2> HIDE DEF n
    <2>5. plans[n] \in PlanRow /\ n \in Nat
      BY <2>4 DEF PlanNumbered
    <2> QED
      BY <2>3, <2>4, <2>5 DEF PlanRow
  <1> QED
    BY <1>1, <1>2

\* The steps that touch neither plans nor marks.
LEMMA PlanMarkedKept ==
  ASSUME PlanMarked, UNCHANGED <<plans, marked, update, overlapped>>
  PROVE  PlanMarked'
BY DEF PlanMarked, Plan!UnderWay

\* The mark of no recommendation is one.
LEMMA NoUpdateTyped == Plan!NoUpdate \in PlanUpdate /\ Plan!NoUpdate.n = 0
  <1>1. (CHOOSE r \in Recs : TRUE) \in Recs
    BY PlanRecsAssumption DEF Plan!RecsAssumption
  <1> QED
    BY <1>1 DEF Plan!NoUpdate, PlanUpdate, Plan!RecStatus

\* The steps of the page.
LEMMA PlanNextStep == PlanInv /\ Plan!Next => PlanInv'
  <1> SUFFICES ASSUME PlanNumbered, PlanMarked, Plan!Next PROVE PlanNumbered' /\ PlanMarked'
    BY DEF PlanInv
  <1>1. ASSUME NEW s \in PlanScopes, Plan!SelectScope(s)
        PROVE  PlanNumbered' /\ PlanMarked'
    <2>1. /\ scopeId' = s
          /\ UNCHANGED <<plans, planShown, planFetch, generate, update, marked, overlapped>>
      BY <1>1 DEF Plan!SelectScope
    <2> QED
      BY <2>1, PlanMarkedKept DEF PlanNumbered
  <1>2. CASE Plan!Fetch
    <2>1. /\ planFetch' = {[scope |-> scopeId, plan |-> Plan!LatestPlan(scopeId)]}
          /\ UNCHANGED <<plans, planShown, scopeId, generate, update, marked, overlapped>>
      BY <1>2 DEF Plan!Fetch
    <2>2. \A f \in planFetch' :
            /\ f \in [scope : PlanScopes, plan : [n : Nat, status : [Recs -> Plan!RecStatus]]]
            /\ f.plan.n = 0 \/ f.plan.n \in DOMAIN plans
      BY <2>1, LatestPlanExists DEF PlanNumbered
    <2> QED
      BY <2>1, <2>2, PlanMarkedKept DEF PlanNumbered
  <1>3. ASSUME NEW f \in planFetch, Plan!Receive(f)
        PROVE  PlanNumbered' /\ PlanMarked'
    <2>1. /\ planFetch' = planFetch \ {f}
          /\ planShown' = [planShown EXCEPT ![f.scope] = f.plan]
          /\ UNCHANGED <<plans, scopeId, generate, update, marked, overlapped>>
      BY <1>3 DEF Plan!Receive
    <2>2. /\ f \in [scope : PlanScopes, plan : [n : Nat, status : [Recs -> Plan!RecStatus]]]
          /\ f.plan.n = 0 \/ f.plan.n \in DOMAIN plans
      BY DEF PlanNumbered
    <2>3. \A s \in PlanScopes : planShown'[s] = IF s = f.scope THEN f.plan ELSE planShown[s]
      BY <2>1, <2>2 DEF PlanNumbered
    <2>4. planShown' \in [PlanScopes -> [n : Nat, status : [Recs -> Plan!RecStatus]]]
      BY <2>1, <2>2 DEF PlanNumbered
    <2> QED
      BY <2>1, <2>2, <2>3, <2>4, PlanMarkedKept DEF PlanNumbered
  <1>4. CASE Plan!Generate \/ Plan!GenerateFirst
    <2>1. /\ generate' = [generate EXCEPT !["now"] = {scopeId}]
          /\ UNCHANGED <<plans, planShown, scopeId, planFetch, update, marked, overlapped>>
      BY <1>4 DEF Plan!Generate, Plan!GenerateFirst
    <2>2. generate' \in [Plan!Visits -> SUBSET PlanScopes]
      BY <2>1 DEF PlanNumbered, Plan!Visits
    <2> QED
      BY <2>1, <2>2, PlanMarkedKept DEF PlanNumbered
  <1>5. ASSUME NEW v \in Plan!Visits, Plan!ServeGenerate(v)
        PROVE  PlanNumbered' /\ PlanMarked'
    <2>1. /\ generate' = [generate EXCEPT ![v] = {}]
          /\ UNCHANGED <<planShown, scopeId, planFetch, update, overlapped>>
      BY <1>5 DEF Plan!ServeGenerate
    <2>2. generate' \in [Plan!Visits -> SUBSET PlanScopes] /\ generate[v] \subseteq PlanScopes
      BY <2>1 DEF PlanNumbered
    <2>3. CASE UNCHANGED <<plans, marked>>
      BY <2>1, <2>2, <2>3, PlanMarkedKept DEF PlanNumbered
    <2>4. ASSUME NEW s \in generate[v],
                 plans' = Append(plans, [scope |-> s, status |-> [r \in Recs |-> "open"]]),
                 marked' = Append(marked, [r \in Recs |-> "open"])
          PROVE  PlanNumbered' /\ PlanMarked'
      <3> DEFINE k == Len(plans) + 1
      <3>1. /\ plans' \in Seq(PlanRow) /\ marked' \in Seq([Recs -> Plan!RecStatus])
            /\ Len(marked') = Len(plans')
        <4>1. [scope |-> s, status |-> [r \in Recs |-> "open"]] \in PlanRow
          BY <2>2 DEF PlanRow, Plan!RecStatus
        <4>2. [r \in Recs |-> "open"] \in [Recs -> Plan!RecStatus]
          BY DEF Plan!RecStatus
        <4>3. plans' \in Seq(PlanRow) /\ Len(plans') = Len(plans) + 1
          BY <2>4, <4>1 DEF PlanNumbered
        <4>4. marked' \in Seq([Recs -> Plan!RecStatus]) /\ Len(marked') = Len(marked) + 1
          <5>1. marked \in Seq([Recs -> Plan!RecStatus])
            BY DEF PlanNumbered
          <5> QED
            BY <2>4, <4>2, <5>1
        <4> QED
          BY <4>3, <4>4 DEF PlanNumbered
      <3>2. /\ DOMAIN plans = 1 .. Len(plans) /\ DOMAIN plans' = 1 .. k /\ Len(plans) \in Nat
            /\ plans'[k] = [scope |-> s, status |-> [r \in Recs |-> "open"]]
            /\ marked'[k] = [r \in Recs |-> "open"]
            /\ \A n \in DOMAIN plans : plans'[n] = plans[n] /\ marked'[n] = marked[n]
        BY <2>4 DEF PlanNumbered
      <3>3. ASSUME NEW t \in PlanScopes, NEW n \in DOMAIN plans', plans'[n].scope = t
            PROVE  \E l \in DOMAIN plans' :
                     plans'[l].scope = t /\ \A m \in DOMAIN plans' : plans'[m].scope = t => m <= l
        <4>1. CASE t = s
          <5>1. k \in DOMAIN plans' /\ plans'[k].scope = t /\ \A m \in DOMAIN plans' : m <= k
            BY <3>2, <4>1
          <5> QED
            BY <5>1
        <4>2. CASE t # s
          <5>1. n \in DOMAIN plans /\ plans[n].scope = t
            BY <3>2, <3>3, <4>2
          <5>2. PICK l \in DOMAIN plans :
                  plans[l].scope = t /\ \A m \in DOMAIN plans : plans[m].scope = t => m <= l
            BY <5>1 DEF PlanNumbered
          <5>3. l \in DOMAIN plans' /\ plans'[l].scope = t
            BY <3>2, <5>2
          <5>4. \A m \in DOMAIN plans' : plans'[m].scope = t => m <= l
            BY <3>2, <4>2, <5>2
          <5> QED
            BY <5>3, <5>4
        <4> QED
          BY <4>1, <4>2
      <3>4. DOMAIN plans \subseteq DOMAIN plans'
        BY <3>2
      <3>5. PlanNumbered'
        BY <2>1, <2>2, <3>1, <3>3, <3>4 DEF PlanNumbered
      <3>6. ASSUME NEW n \in DOMAIN plans', NEW r \in Recs,
                   ~Plan!UnderWay(n, r), <<n, r>> \notin overlapped
            PROVE  plans'[n].status[r] = marked'[n][r]
        <4>1. CASE n = k
          BY <3>2, <4>1
        <4>2. CASE n # k
          <5>1. n \in DOMAIN plans
            BY <3>2, <4>2
          <5> QED
            BY <3>2, <3>6, <5>1 DEF PlanMarked
        <4> QED
          BY <4>1, <4>2
      <3>7. \A w \in Plan!Visits :
              \/ update[w].n = 0
              \/ /\ update[w].n \in DOMAIN plans'
                 /\ \/ <<update[w].n, update[w].rec>> \in overlapped
                    \/ marked'[update[w].n][update[w].rec] = update[w].status
        BY <3>2, <3>4 DEF PlanMarked
      <3>8. PlanMarked'
        BY <2>1, <3>6, <3>7 DEF PlanMarked, Plan!UnderWay
      <3> QED
        BY <3>5, <3>8
    <2> QED
      BY <1>5, <2>3, <2>4, Zenon DEF Plan!ServeGenerate
  <1>6. ASSUME NEW r \in Recs, NEW status \in {"done", "dismissed"}, Plan!Mark(r, status)
        PROVE  PlanNumbered' /\ PlanMarked'
    <2> DEFINE k == planShown[scopeId].n
               u == [n |-> k, rec |-> r, status |-> status]
    <2>1. /\ update["now"].n = 0
          /\ update' = [update EXCEPT !["now"] = u]
          /\ marked' = [marked EXCEPT ![k][r] = status]
          /\ overlapped' = IF Plan!UnderWay(k, r) THEN overlapped \cup {<<k, r>>}
                           ELSE overlapped \ {<<k, r>>}
          /\ UNCHANGED <<plans, planShown, scopeId, planFetch, generate>>
      BY <1>6 DEF Plan!Mark, Plan!Shown
    <2>2. k # 0
      BY <1>6 DEF Plan!Mark, Plan!Shown, Plan!FilteredRecommendations
    <2>3. k \in DOMAIN plans /\ k \in DOMAIN marked /\ DOMAIN marked = DOMAIN plans /\ k \in Nat
      BY <2>2 DEF PlanNumbered
    <2>4. status \in Plan!RecStatus
      BY DEF Plan!RecStatus
    <2> HIDE DEF k
    <2>5. marked[k] \in [Recs -> Plan!RecStatus]
      BY <2>3 DEF PlanNumbered
    <2>6. /\ marked' = [marked EXCEPT ![k] = [marked[k] EXCEPT ![r] = status]]
          /\ [marked[k] EXCEPT ![r] = status] \in [Recs -> Plan!RecStatus]
      BY <2>1, <2>4, <2>5
    <2>7. marked' \in Seq([Recs -> Plan!RecStatus]) /\ Len(marked') = Len(marked)
      BY <2>3, <2>6 DEF PlanNumbered
    <2>8. /\ marked'[k][r] = status
          /\ \A q \in Recs : q # r => marked'[k][q] = marked[k][q]
          /\ \A n \in DOMAIN marked : n # k => marked'[n] = marked[n]
      BY <2>3, <2>5, <2>6
    <2>9. PlanNumbered'
      BY <2>1, <2>7 DEF PlanNumbered
    <2>10. u \in PlanUpdate /\ u.n = k /\ u.rec = r /\ u.status = status
      BY <2>3, <2>4 DEF PlanUpdate
    <2> HIDE DEF u
    <2>11. /\ update' \in [Plan!Visits -> PlanUpdate]
           /\ update'["now"] = u /\ update'["before"] = update["before"]
           /\ \A v \in Plan!Visits : v = "now" \/ v = "before"
           /\ "now" \in Plan!Visits /\ "before" \in Plan!Visits
      BY <2>1, <2>10 DEF PlanMarked, Plan!Visits
    <2>12. update["before"] \in PlanUpdate /\ update["before"].rec \in Recs
      BY <2>11 DEF PlanMarked, PlanUpdate
    <2>13. Plan!UnderWay(k, r) <=> update["before"].n = k /\ update["before"].rec = r
      BY <2>1, <2>2, <2>11 DEF Plan!UnderWay
    <2>14. \A n, q : n # k \/ q # r =>
             (<<n, q>> \in overlapped' <=> <<n, q>> \in overlapped)
      BY <2>1
    <2>15. <<k, r>> \in overlapped' <=> update["before"].n = k /\ update["before"].rec = r
      BY <2>1, <2>13
    <2>16. ASSUME NEW v \in Plan!Visits, update'[v].n # 0
           PROVE  /\ update'[v].n \in DOMAIN plans'
                  /\ \/ <<update'[v].n, update'[v].rec>> \in overlapped'
                     \/ marked'[update'[v].n][update'[v].rec] = update'[v].status
      <3>1. CASE v = "now"
        BY <2>1, <2>3, <2>8, <2>10, <2>11, <3>1
      <3>2. CASE v = "before"
        <4> DEFINE m == update["before"].n
                   q == update["before"].rec
        <4>1. /\ m \in DOMAIN plans /\ m \in DOMAIN marked /\ q \in Recs
              /\ <<m, q>> \in overlapped \/ marked[m][q] = update["before"].status
          BY <2>3, <2>11, <2>12, <2>16, <3>2 DEF PlanMarked
        <4> HIDE DEF m, q
        <4>2. <<m, q>> \in overlapped' \/ marked'[m][q] = update["before"].status
          <5>1. CASE m = k /\ q = r
            BY <2>15, <5>1 DEF m, q
          <5>2. CASE m = k /\ q # r
            BY <2>8, <2>14, <4>1, <5>2
          <5>3. CASE m # k
            BY <2>8, <2>14, <4>1, <5>3
          <5> QED
            BY <5>1, <5>2, <5>3
        <4> QED
          BY <2>1, <2>11, <3>2, <4>1, <4>2 DEF m, q
      <3> QED
        BY <2>11, <3>1, <3>2
    <2>17. ASSUME NEW v \in Plan!Visits, NEW w \in Plan!Visits, v # w, update'[v].n # 0,
                  update'[v].n = update'[w].n, update'[v].rec = update'[w].rec
           PROVE  <<update'[v].n, update'[v].rec>> \in overlapped'
      <3>1. update'["now"].n = update'["before"].n /\ update'["now"].rec = update'["before"].rec
        BY <2>11, <2>17
      <3>2. update'[v].n = k /\ update'[v].rec = r
        BY <2>10, <2>11, <2>17, <3>1
      <3> QED
        BY <2>10, <2>11, <2>15, <3>1, <3>2
    <2>18. ASSUME NEW n \in DOMAIN plans', NEW q \in Recs, ~Plan!UnderWay(n, q)',
                  <<n, q>> \notin overlapped'
           PROVE  plans'[n].status[q] = marked'[n][q]
      <3>1. /\ ~(n = k /\ q = r)
            /\ ~(update["before"].n = n /\ update["before"].rec = q)
        BY <2>10, <2>11, <2>18 DEF Plan!UnderWay
      <3>2. n \in DOMAIN plans /\ n # 0
        BY <2>1, <2>18 DEF PlanNumbered
      <3>3. ~Plan!UnderWay(n, q)
        BY <2>1, <2>11, <3>1, <3>2 DEF Plan!UnderWay
      <3>4. <<n, q>> \notin overlapped
        BY <2>14, <2>18, <3>1
      <3>5. plans[n].status[q] = marked[n][q]
        BY <3>2, <3>3, <3>4 DEF PlanMarked
      <3> QED
        BY <2>1, <2>3, <2>8, <3>1, <3>2, <3>5
    <2>19. PlanMarked'
      BY <2>11, <2>16, <2>17, <2>18 DEF PlanMarked
    <2> QED
      BY <2>9, <2>19
  <1>7. ASSUME NEW v \in Plan!Visits, Plan!ServeUpdate(v)
        PROVE  PlanNumbered' /\ PlanMarked'
    <2> DEFINE k == update[v].n
               r == update[v].rec
               status == update[v].status
    <2>1. /\ k # 0 /\ update' = [update EXCEPT ![v] = Plan!NoUpdate]
          /\ UNCHANGED <<planShown, scopeId, planFetch, generate, overlapped>>
          /\ \/ plans' = [plans EXCEPT ![k].status[r] = status] /\ UNCHANGED marked
             \/ /\ UNCHANGED plans
                /\ marked' = [marked EXCEPT ![k][r] = plans[k].status[r]]
      BY <1>7 DEF Plan!ServeUpdate, Plan!Updated
    <2>2. update[v] \in PlanUpdate /\ k \in DOMAIN plans
      BY <2>1 DEF PlanMarked
    <2>3. /\ k \in DOMAIN marked /\ DOMAIN marked = DOMAIN plans
          /\ r \in Recs /\ status \in Plan!RecStatus
          /\ <<k, r>> \in overlapped \/ marked[k][r] = status
      BY <2>1, <2>2 DEF PlanMarked, PlanNumbered, PlanUpdate
    <2>4. /\ plans[k] \in PlanRow /\ plans[k].status \in [Recs -> Plan!RecStatus]
          /\ marked[k] \in [Recs -> Plan!RecStatus]
      <3>1. plans[k] \in PlanRow /\ marked[k] \in [Recs -> Plan!RecStatus]
        BY <2>2, <2>3 DEF PlanNumbered
      <3> QED
        BY <3>1 DEF PlanRow
    <2>5. /\ update' \in [Plan!Visits -> PlanUpdate] /\ update'[v].n = 0
          /\ \A w \in Plan!Visits : w # v => update'[w] = update[w]
      BY <2>1, NoUpdateTyped DEF PlanMarked
    \* What the mark that is served leaves behind, whichever of plans and marks it changes.
    <2>6. ASSUME DOMAIN plans' = DOMAIN plans,
                 \A n \in DOMAIN plans : \A q \in Recs : n # k \/ q # r =>
                   plans'[n].status[q] = plans[n].status[q] /\ marked'[n][q] = marked[n][q],
                 <<k, r>> \in overlapped \/ plans'[k].status[r] = marked'[k][r]
          PROVE  PlanMarked'
      <3>1. ASSUME NEW w \in Plan!Visits, update'[w].n # 0
            PROVE  /\ update'[w].n \in DOMAIN plans'
                   /\ \/ <<update'[w].n, update'[w].rec>> \in overlapped'
                      \/ marked'[update'[w].n][update'[w].rec] = update'[w].status
        <4>1. w # v /\ update'[w] = update[w]
          BY <2>5, <3>1
        <4>2. update[w].n \in DOMAIN plans /\ update[w].rec \in Recs
          BY <3>1, <4>1 DEF PlanMarked, PlanUpdate
        <4>3. CASE update[w].n = k /\ update[w].rec = r
          BY <2>1, <2>6, <4>1, <4>2, <4>3 DEF PlanMarked
        <4>4. CASE update[w].n # k \/ update[w].rec # r
          <5>1. marked'[update[w].n][update[w].rec] = marked[update[w].n][update[w].rec]
            BY <2>6, <4>2, <4>4
          <5> QED
            BY <2>1, <2>6, <3>1, <4>1, <4>2, <5>1 DEF PlanMarked
        <4> QED
          BY <4>3, <4>4
      <3>2. ASSUME NEW a \in Plan!Visits, NEW w \in Plan!Visits, a # w, update'[a].n # 0,
                   update'[a].n = update'[w].n, update'[a].rec = update'[w].rec
            PROVE  <<update'[a].n, update'[a].rec>> \in overlapped'
        <4>1. update'[a] = update[a] /\ update'[w] = update[w]
          BY <2>5, <3>2
        <4> QED
          BY <2>1, <3>2, <4>1 DEF PlanMarked
      <3>3. ASSUME NEW n \in DOMAIN plans', NEW q \in Recs, ~Plan!UnderWay(n, q)',
                   <<n, q>> \notin overlapped'
            PROVE  plans'[n].status[q] = marked'[n][q]
        <4>1. CASE n = k /\ q = r
          BY <2>1, <2>6, <3>3, <4>1
        <4>2. CASE n # k \/ q # r
          <5>1. ~Plan!UnderWay(n, q)
            BY <2>5, <3>3, <4>2 DEF Plan!UnderWay
          <5>2. plans[n].status[q] = marked[n][q]
            BY <2>1, <2>6, <3>3, <5>1 DEF PlanMarked
          <5> QED
            BY <2>6, <3>3, <4>2, <5>2
        <4> QED
          BY <4>1, <4>2
      <3> QED
        BY <2>5, <3>1, <3>2, <3>3 DEF PlanMarked
    <2> HIDE DEF k, r, status
    <2>7. CASE plans' = [plans EXCEPT ![k].status[r] = status] /\ UNCHANGED marked
      <3> DEFINE row == [plans[k] EXCEPT !.status = [plans[k].status EXCEPT ![r] = status]]
      <3>1. plans' = [plans EXCEPT ![k] = row]
        BY <2>7
      <3>2. row \in PlanRow /\ row.scope = plans[k].scope
            /\ row.status = [plans[k].status EXCEPT ![r] = status]
        BY <2>3, <2>4 DEF PlanRow
      <3> HIDE DEF row
      <3>3. plans' \in Seq(PlanRow) /\ Len(plans') = Len(plans) /\ DOMAIN plans' = DOMAIN plans
        BY <2>2, <3>1, <3>2 DEF PlanNumbered
      <3>4. plans'[k] = row /\ \A n \in DOMAIN plans : n # k => plans'[n] = plans[n]
        BY <2>2, <3>1 DEF PlanNumbered
      <3>5. \A n \in DOMAIN plans : plans'[n].scope = plans[n].scope
        BY <3>2, <3>4
      <3>6. PlanNumbered'
        <4>1. ASSUME NEW s \in PlanScopes, NEW m \in DOMAIN plans', plans'[m].scope = s
              PROVE  \E n \in DOMAIN plans' :
                       /\ plans'[n].scope = s
                       /\ \A l \in DOMAIN plans' : plans'[l].scope = s => l <= n
          <5>1. m \in DOMAIN plans /\ plans[m].scope = s
            BY <3>3, <3>5, <4>1
          <5>2. PICK n \in DOMAIN plans :
                  plans[n].scope = s /\ \A l \in DOMAIN plans : plans[l].scope = s => l <= n
            BY <5>1 DEF PlanNumbered
          <5> QED
            BY <3>3, <3>5, <5>2, Zenon
        <4> QED
          BY <2>1, <2>7, <3>3, <4>1 DEF PlanNumbered
      <3>7. plans'[k].status[r] = status /\ \A q \in Recs : q # r =>
              plans'[k].status[q] = plans[k].status[q]
        BY <2>3, <2>4, <3>2, <3>4
      <3>8. PlanMarked'
        BY <2>3, <2>6, <2>7, <3>3, <3>4, <3>7
      <3> QED
        BY <3>6, <3>8
    <2>8. CASE UNCHANGED plans /\ marked' = [marked EXCEPT ![k][r] = plans[k].status[r]]
      <3> DEFINE row == [marked[k] EXCEPT ![r] = plans[k].status[r]]
      <3>1. marked' = [marked EXCEPT ![k] = row]
        BY <2>8
      <3>2. row \in [Recs -> Plan!RecStatus]
        BY <2>3, <2>4
      <3>3. row[r] = plans[k].status[r] /\ \A q \in Recs : q # r => row[q] = marked[k][q]
        BY <2>3, <2>4
      <3> HIDE DEF row
      <3>4. marked' \in Seq([Recs -> Plan!RecStatus]) /\ Len(marked') = Len(marked)
        BY <2>3, <3>1, <3>2 DEF PlanNumbered
      <3>5. marked'[k] = row /\ \A n \in DOMAIN marked : n # k => marked'[n] = marked[n]
        BY <2>3, <3>1 DEF PlanNumbered
      <3>6. PlanNumbered'
        BY <2>1, <2>8, <3>4 DEF PlanNumbered
      <3>7. PlanMarked'
        BY <2>3, <2>6, <2>8, <3>3, <3>5
      <3> QED
        BY <3>6, <3>7
    <2> QED
      BY <2>1, <2>7, <2>8 DEF k, r, status
  <1>8. CASE Plan!Return
    <2>1. UNCHANGED <<plans, planShown, scopeId, planFetch, generate, update, marked, overlapped>>
      BY <1>8 DEF Plan!Return
    <2> QED
      BY <2>1, PlanMarkedKept DEF PlanNumbered
  <1>9. CASE Plan!Leave
    <2> DEFINE left == IF update["now"].n = 0 THEN update["before"] ELSE update["now"]
    <2>1. /\ scopeId' = AllScopes
          /\ UNCHANGED <<plans, planShown, planFetch, marked, overlapped>>
          /\ generate' = [now |-> {}, before |-> generate["now"] \cup generate["before"]]
          /\ update' = [now |-> Plan!NoUpdate, before |-> left]
          /\ update["now"].n = 0 \/ update["before"].n = 0
      BY <1>9 DEF Plan!Leave
    <2>2. /\ "now" \in Plan!Visits /\ "before" \in Plan!Visits
          /\ \A v \in Plan!Visits : v = "now" \/ v = "before"
      BY DEF Plan!Visits
    <2>3. AllScopes \in PlanScopes
      BY PlanScopesAssumption DEF Plan!ScopesAssumption
    <2>4. generate' \in [Plan!Visits -> SUBSET PlanScopes]
      <3>1. generate["now"] \cup generate["before"] \in SUBSET PlanScopes
        BY <2>2 DEF PlanNumbered
      <3> QED
        BY <2>1, <3>1 DEF Plan!Visits
    <2>5. PlanNumbered'
      BY <2>1, <2>3, <2>4 DEF PlanNumbered
    <2>6. /\ left \in PlanUpdate
          /\ left = update["now"] \/ left = update["before"]
          /\ \A v \in Plan!Visits : update[v].n # 0 => left = update[v]
      BY <2>1, <2>2 DEF PlanMarked
    <2> HIDE DEF left
    <2>7. /\ update' \in [Plan!Visits -> PlanUpdate]
          /\ update'["now"].n = 0 /\ update'["before"] = left
      BY <2>1, <2>6, NoUpdateTyped DEF Plan!Visits
    <2>8. left.n # 0 =>
            /\ left.n \in DOMAIN plans
            /\ <<left.n, left.rec>> \in overlapped \/ marked[left.n][left.rec] = left.status
      BY <2>2, <2>6 DEF PlanMarked
    <2>9. \A n \in DOMAIN plans, r \in Recs : Plan!UnderWay(n, r) => Plan!UnderWay(n, r)'
      <3>1. ASSUME NEW n \in DOMAIN plans, NEW r \in Recs, NEW v \in Plan!Visits,
                   update[v].n = n, update[v].rec = r
            PROVE  Plan!UnderWay(n, r)'
        <4>1. n # 0
          BY DEF PlanNumbered
        <4>2. left = update[v]
          BY <2>6, <3>1, <4>1
        <4> QED
          BY <2>2, <2>7, <3>1, <4>2 DEF Plan!UnderWay
      <3> QED
        BY <3>1 DEF Plan!UnderWay
    <2>10. ASSUME NEW v \in Plan!Visits, NEW w \in Plan!Visits, v # w, update'[v].n # 0,
                  update'[v].n = update'[w].n
           PROVE  FALSE
      BY <2>2, <2>7, <2>10
    <2>11. \A v \in Plan!Visits :
             \/ update'[v].n = 0
             \/ /\ update'[v].n \in DOMAIN plans
                /\ \/ <<update'[v].n, update'[v].rec>> \in overlapped
                   \/ marked[update'[v].n][update'[v].rec] = update'[v].status
      BY <2>2, <2>7, <2>8
    <2>12. \A n \in DOMAIN plans, r \in Recs :
             ~Plan!UnderWay(n, r)' /\ <<n, r>> \notin overlapped =>
               plans[n].status[r] = marked[n][r]
      BY <2>9 DEF PlanMarked
    <2>13. PlanMarked'
      BY <2>1, <2>7, <2>10, <2>11, <2>12 DEF PlanMarked
    <2> QED
      BY <2>5, <2>13
  <1> QED
    BY <1>1, <1>2, <1>3, <1>4, <1>5, <1>6, <1>7, <1>8, <1>9 DEF Plan!Next

\* No step of the recommendations page, or of another page, disturbs it.
LEMMA PlanStep == PlanInv /\ [Next]_allVars => PlanInv'
  <1> SUFFICES ASSUME PlanInv, [Next]_allVars PROVE PlanInv'
    OBVIOUS
  <1>1. CASE Plan!Next
    BY <1>1, PlanNextStep
  <1>2. CASE UNCHANGED planVars
    BY <1>2, PlanMarkedKept DEF planVars, PlanInv, PlanNumbered
  <1> QED
    BY <1>1, <1>2 DEF Next, Follows, allVars

\* It holds when the pages open.
LEMMA PlanInitial == Init => PlanInv
  <1> SUFFICES ASSUME Init PROVE PlanInv
    OBVIOUS
  <1>1. /\ plans = <<>> /\ marked = <<>> /\ scopeId = AllScopes
        /\ planShown = [s \in PlanScopes |-> [n |-> 0, status |-> [r \in Recs |-> "open"]]]
        /\ planFetch = {} /\ overlapped = {}
        /\ generate = [v \in Plan!Visits |-> {}] /\ update = [v \in Plan!Visits |-> Plan!NoUpdate]
    BY DEF Init, Plan!PageInit, Plan!NoPlan
  <1>2. PlanNumbered
    BY <1>1, PlanScopesAssumption DEF Plan!ScopesAssumption, PlanNumbered, Plan!RecStatus
  <1>3. PlanMarked
    BY <1>1, NoUpdateTyped DEF PlanMarked
  <1> QED
    BY <1>2, <1>3 DEF PlanInv

\* A recommendation with no mark of its own under way is as it was last marked, but for
\* failures, although the page is left with marks under way, visited again and newer plans
\* are generated; excepted is one marked again while a mark of it was under way.
THEOREM PlanIsAsMarkedAmongPages == Spec => []PlanIsAsMarked
  <1>1. PlanInv => PlanIsAsMarked
    BY DEF PlanInv, PlanMarked, PlanIsAsMarked, Plan!PlanIsAsMarked
  <1> QED
    BY PlanInitial, <1>1, PlanStep, PTL DEF Spec

-----------------------------------------------------------------------------
(* The scores page. *)

\* A stored score.
ScoreRow == [scope : Scopes, without : SUBSET Findings]

\* What the server is asked for a score.
ScoreRequest ==
  [kind : {"manual", "whatif", "briefing"}, scope : Scopes, without : SUBSET Findings,
   seen : BOOLEAN]

\* A score, or none, that was stored for the scope.
StoredFor(n, s) == n = 0 \/ (n \in DOMAIN snapshots /\ snapshots[n].scope = s)

\* Every scope that has a score has a latest one, and a request is for a scope.
ScoresNumbered ==
  /\ snapshots \in Seq(ScoreRow)
  /\ \A s \in Scopes : \A k \in DOMAIN snapshots :
       snapshots[k].scope = s =>
         \E n \in DOMAIN snapshots :
           snapshots[n].scope = s /\ \A m \in DOMAIN snapshots : snapshots[m].scope = s => m <= n
  /\ scoreScope \in Scopes /\ selected \subseteq Findings
  /\ scoreAsked \subseteq ScoreRequest

\* What the page holds or waits for, for a scope, was stored for that scope.
ScoresOfScope ==
  /\ \A s \in Scopes : StoredFor(scoreShown[s], s)
  /\ scoreShown \in [Scopes -> Nat]
  /\ \A f \in scoreFetch : f \in [scope : Scopes, n : Nat] /\ StoredFor(f.n, f.scope)

\* The inductive invariant of the scores page.
ScoresInv == ScoresNumbered /\ ScoresOfScope

\* The latest score of a scope is one that was stored for it, or none.
LEMMA LatestScoreExists ==
  ASSUME ScoresNumbered, NEW s \in Scopes
  PROVE  Scores!LatestScore(s) \in Nat /\ StoredFor(Scores!LatestScore(s), s)
  <1> DEFINE mine == {n \in DOMAIN snapshots : snapshots[n].scope = s}
             n == CHOOSE k \in mine : \A m \in mine : m <= k
  <1>1. CASE mine = {}
    BY <1>1 DEF Scores!LatestScore, StoredFor
  <1>2. CASE mine # {}
    <2>1. \E k \in mine : \A m \in mine : m <= k
      BY <1>2 DEF ScoresNumbered
    <2>2. n \in mine
      BY <2>1
    <2>3. Scores!LatestScore(s) = CHOOSE k \in mine : \A m \in mine : m <= k
      <3>1. \A k \in mine : (\A m \in mine : m <= k) <=> (\A m \in mine : m <= k)
        OBVIOUS
      <3> QED
        BY <1>2 DEF Scores!LatestScore
    <2>4. n \in DOMAIN snapshots /\ snapshots[n].scope = s /\ n \in Nat
      BY <2>2 DEF ScoresNumbered
    <2>5. Scores!LatestScore(s) = n
      BY <2>3
    <2> QED
      BY <2>4, <2>5 DEF StoredFor
  <1> QED
    BY <1>1, <1>2

\* The requests of a part of the page that is gone are still for a scope.
LEMMA DroppedRequests ==
  ASSUME NEW pending \in SUBSET ScoreRequest
  PROVE  Scores!Dropped(pending) \subseteq ScoreRequest
  <1>1. \A a \in ScoreRequest : [a EXCEPT !.seen = FALSE] \in ScoreRequest
    BY Zenon DEF ScoreRequest
  <1> HIDE DEF ScoreRequest
  <1> QED
    BY <1>1 DEF Scores!Dropped

\* The steps that store, show and fetch no score.
LEMMA ScoresKept ==
  ASSUME ScoresNumbered, ScoresOfScope, UNCHANGED <<snapshots, scoreShown, scoreFetch>>,
         scoreScope' \in Scopes, selected' \subseteq Findings, scoreAsked' \subseteq ScoreRequest
  PROVE  ScoresNumbered' /\ ScoresOfScope'
BY DEF ScoresNumbered, ScoresOfScope, StoredFor

\* The steps of the page.
LEMMA ScoresNextStep == ScoresInv /\ Scores!Next => ScoresInv'
  <1> SUFFICES ASSUME ScoresNumbered, ScoresOfScope, Scores!Next
               PROVE  ScoresNumbered' /\ ScoresOfScope'
    BY DEF ScoresInv
  <1>1. ASSUME NEW s \in Scopes, Scores!SelectScore(s)
        PROVE  ScoresNumbered' /\ ScoresOfScope'
    <2>1. /\ scoreScope' = s /\ UNCHANGED <<snapshots, scoreShown, scoreFetch>>
          /\ selected' \in {selected, {}}
          /\ \/ scoreAsked' = scoreAsked
             \/ scoreAsked' = Scores!Computations
                                \cup Scores!Dropped(scoreAsked \ Scores!Computations)
      BY <1>1 DEF Scores!SelectScore, Scores!studioVars
    <2>2. scoreAsked' \subseteq ScoreRequest
      <3>1. Scores!Computations \subseteq scoreAsked /\ scoreAsked \subseteq ScoreRequest
        BY DEF Scores!Computations, ScoresNumbered
      <3>2. Scores!Dropped(scoreAsked \ Scores!Computations) \subseteq ScoreRequest
        BY <3>1, DroppedRequests
      <3> QED
        BY <2>1, <3>1, <3>2
    <2>3. selected' \subseteq Findings
      BY <2>1 DEF ScoresNumbered
    <2> QED
      BY <2>1, <2>2, <2>3, ScoresKept
  <1>2. CASE Scores!FetchScore
    <2>1. /\ scoreFetch' = {[scope |-> scoreScope, n |-> Scores!LatestScore(scoreScope)]}
          /\ UNCHANGED <<snapshots, scoreScope, scoreShown, scoreAsked, selected>>
      BY <1>2 DEF Scores!FetchScore, Scores!studioVars
    <2>2. \A f \in scoreFetch' : f \in [scope : Scopes, n : Nat] /\ StoredFor(f.n, f.scope)
      BY <2>1, LatestScoreExists DEF ScoresNumbered
    <2> QED
      BY <2>1, <2>2 DEF ScoresNumbered, ScoresOfScope, StoredFor
  <1>3. ASSUME NEW f \in scoreFetch, Scores!ReceiveScore(f)
        PROVE  ScoresNumbered' /\ ScoresOfScope'
    <2>1. /\ scoreFetch' = {} /\ scoreShown' \in {scoreShown, [scoreShown EXCEPT ![f.scope] = f.n]}
          /\ UNCHANGED <<snapshots, scoreScope, scoreAsked, selected>>
      BY <1>3 DEF Scores!ReceiveScore, Scores!studioVars
    <2>2. /\ scoreShown' \in [Scopes -> Nat]
          /\ \A s \in Scopes : StoredFor(scoreShown'[s], s)
      BY <2>1 DEF ScoresOfScope
    <2> QED
      BY <2>1, <2>2 DEF ScoresNumbered, ScoresOfScope, StoredFor
  <1>4. CASE Scores!Recompute \/ Scores!Simulate \/ Scores!Generate
    <2>1. /\ UNCHANGED <<snapshots, scoreScope, scoreShown, scoreFetch, selected>>
          /\ \E kind \in {"manual", "whatif", "briefing"}, without \in {{}, selected} :
               Scores!Request(kind, without)
      BY <1>4 DEF Scores!Recompute, Scores!Simulate, Scores!Generate, Scores!studioVars
    <2>2. PICK kind \in {"manual", "whatif", "briefing"}, without \in {{}, selected} :
            Scores!Request(kind, without)
      BY <2>1
    <2>3. [kind |-> kind, scope |-> scoreScope, without |-> without, seen |-> TRUE] \in ScoreRequest
      BY DEF ScoreRequest, ScoresNumbered
    <2>4. scoreAsked' \subseteq ScoreRequest
      BY <2>2, <2>3, Zenon DEF Scores!Request, ScoresNumbered
    <2> QED
      BY <2>1, <2>4, ScoresKept DEF ScoresNumbered
  <1>5. ASSUME NEW f \in Findings, Scores!Toggle(f)
        PROVE  ScoresNumbered' /\ ScoresOfScope'
    <2>1. /\ UNCHANGED <<snapshots, scoreScope, scoreShown, scoreFetch, scoreAsked>>
          /\ selected' \in {selected \ {f}, selected \cup {f}}
      BY <1>5 DEF Scores!Toggle
    <2>2. selected' \subseteq Findings
      BY <2>1 DEF ScoresNumbered
    <2> QED
      BY <2>1, <2>2, ScoresKept DEF ScoresNumbered
  <1>6. CASE Scores!Reset
    <2>1. UNCHANGED <<snapshots, scoreScope, scoreShown, scoreFetch, scoreAsked>> /\ selected' = {}
      BY <1>6 DEF Scores!Reset
    <2> QED
      BY <2>1, ScoresKept DEF ScoresNumbered
  <1>7. ASSUME NEW a \in scoreAsked, Scores!ServeScore(a)
        PROVE  ScoresNumbered' /\ ScoresOfScope'
    <2>1. /\ scoreAsked' = scoreAsked \ {a}
          /\ UNCHANGED <<scoreScope, scoreShown, scoreFetch, selected>>
          /\ \/ UNCHANGED snapshots
             \/ snapshots' = Append(snapshots, [scope |-> a.scope, without |-> a.without])
      BY <1>7 DEF Scores!ServeScore
    <2>2. scoreAsked' \subseteq ScoreRequest
      BY <2>1 DEF ScoresNumbered
    <2>3. CASE UNCHANGED snapshots
      BY <2>1, <2>2, <2>3, ScoresKept DEF ScoresNumbered
    <2>4. CASE snapshots' = Append(snapshots, [scope |-> a.scope, without |-> a.without])
      <3> DEFINE row == [scope |-> a.scope, without |-> a.without]
                 k == Len(snapshots) + 1
      <3>1. row \in ScoreRow
        <4>1. a \in ScoreRequest
          BY DEF ScoresNumbered
        <4> QED
          BY <4>1 DEF ScoreRequest, ScoreRow
      <3>2. row.scope = a.scope
        OBVIOUS
      <3>3. snapshots' = Append(snapshots, row)
        BY <2>4
      <3> HIDE DEF row
      <3>4. snapshots' \in Seq(ScoreRow)
        BY <3>1, <3>3 DEF ScoresNumbered
      <3>5. /\ DOMAIN snapshots = 1 .. Len(snapshots) /\ DOMAIN snapshots' = 1 .. k
            /\ Len(snapshots) \in Nat /\ snapshots'[k] = row
            /\ \A n \in DOMAIN snapshots : snapshots'[n] = snapshots[n]
        BY <3>1, <3>3 DEF ScoresNumbered
      <3>6. ASSUME NEW t \in Scopes, NEW n \in DOMAIN snapshots', snapshots'[n].scope = t
            PROVE  \E l \in DOMAIN snapshots' :
                     /\ snapshots'[l].scope = t
                     /\ \A m \in DOMAIN snapshots' : snapshots'[m].scope = t => m <= l
        <4>1. CASE t = row.scope
          <5>1. /\ k \in DOMAIN snapshots' /\ snapshots'[k].scope = t
                /\ \A m \in DOMAIN snapshots' : m <= k
            BY <3>5, <4>1
          <5> QED
            BY <5>1
        <4>2. CASE t # row.scope
          <5>1. n \in DOMAIN snapshots /\ snapshots[n].scope = t
            BY <3>5, <3>6, <4>2
          <5>2. PICK l \in DOMAIN snapshots :
                  /\ snapshots[l].scope = t
                  /\ \A m \in DOMAIN snapshots : snapshots[m].scope = t => m <= l
            BY <5>1 DEF ScoresNumbered
          <5>3. l \in DOMAIN snapshots' /\ snapshots'[l].scope = t
            BY <3>5, <5>2
          <5>4. \A m \in DOMAIN snapshots' : snapshots'[m].scope = t => m <= l
            BY <3>5, <4>2, <5>2
          <5> QED
            BY <5>3, <5>4
        <4> QED
          BY <4>1, <4>2
      <3>7. ScoresNumbered'
        BY <2>1, <2>2, <3>4, <3>6 DEF ScoresNumbered
      <3>8. \A n, s : StoredFor(n, s) =>
              (n = 0 \/ (n \in DOMAIN snapshots' /\ snapshots'[n].scope = s))
        BY <3>5 DEF StoredFor
      <3>9. ScoresOfScope'
        BY <2>1, <3>8 DEF ScoresOfScope, StoredFor
      <3> QED
        BY <3>7, <3>9
    <2> QED
      BY <2>1, <2>3, <2>4
  <1>8. CASE Scores!Leave
    <2>1. /\ UNCHANGED <<snapshots, scoreShown, scoreFetch>>
          /\ scoreScope' = AllScopes /\ selected' = {} /\ scoreAsked' = Scores!Dropped(scoreAsked)
      BY <1>8 DEF Scores!Leave
    <2>2. AllScopes \in Scopes
      BY ScoresLocatedAssumption DEF Scores!LocatedAssumption
    <2>3. scoreAsked' \subseteq ScoreRequest
      BY <2>1, DroppedRequests DEF ScoresNumbered
    <2> QED
      BY <2>1, <2>2, <2>3, ScoresKept
  <1>9. CASE Scores!Return
    <2>1. UNCHANGED <<snapshots, scoreScope, scoreShown, scoreFetch, scoreAsked, selected>>
      BY <1>9 DEF Scores!Return, Scores!studioVars
    <2> QED
      BY <2>1, ScoresKept DEF ScoresNumbered
  <1> QED
    BY <1>1, <1>2, <1>3, <1>4, <1>5, <1>6, <1>7, <1>8, <1>9 DEF Scores!Next

\* No step of the scores page, or of another page, disturbs it.
LEMMA ScoresStep == ScoresInv /\ [Next]_allVars => ScoresInv'
  <1> SUFFICES ASSUME ScoresInv, [Next]_allVars PROVE ScoresInv'
    OBVIOUS
  <1>1. CASE Scores!Next
    BY <1>1, ScoresNextStep
  <1>2. CASE UNCHANGED scoresVars
    BY <1>2 DEF scoresVars, ScoresInv, ScoresNumbered, ScoresOfScope, StoredFor
  <1> QED
    BY <1>1, <1>2 DEF Next, Follows, allVars

\* It holds when the pages open.
LEMMA ScoresInitial == Init => ScoresInv
  <1> SUFFICES ASSUME Init PROVE ScoresInv
    OBVIOUS
  <1>1. /\ snapshots = <<>> /\ scoreShown = [s \in Scopes |-> 0] /\ scoreScope = AllScopes
        /\ scoreFetch = {} /\ scoreAsked = {} /\ selected = {}
    BY DEF Init, Scores!PageInit
  <1>2. AllScopes \in Scopes
    BY ScoresLocatedAssumption DEF Scores!LocatedAssumption
  <1>3. ScoresNumbered
    BY <1>1, <1>2 DEF ScoresNumbered
  <1>4. ScoresOfScope
    BY <1>1 DEF ScoresOfScope, StoredFor
  <1> QED
    BY <1>3, <1>4 DEF ScoresInv

\* The score shown for a scope was computed for that scope, whatever scopes were
\* selected, computed and simulated while it was fetched, and whatever other pages are
\* open and visited.
THEOREM ScoreIsOfScopeAmongPages == Spec => []ScoreIsOfScope
  <1>1. ScoresInv => ScoreIsOfScope
    BY DEF ScoresInv, ScoresOfScope, StoredFor, ScoreIsOfScope, Scores!ScoreIsOfScope
  <1> QED
    BY ScoresInitial, <1>1, ScoresStep, PTL DEF Spec

-----------------------------------------------------------------------------
(* The consent center. *)

\* What is asked for a purpose.
Decision == {"grant", "revoke"}

\* The server's counts, and the requests under way.
ConsentTyped ==
  /\ consents \in [Purposes -> Nat] /\ decided \in [Purposes -> Decision \cup {"none"}]
  /\ asked \subseteq [decision : Decision, purpose : Purposes, seen : BOOLEAN]

\* For a purpose that is not unsure at most one request is under way, which asks for what
\* was decided last; with none under way the server has it, unless it has granted since.
Answered(p) ==
  /\ \A a \in asked : a.purpose = p => a.decision = decided[p]
  /\ \A a, b \in asked : a.purpose = p /\ b.purpose = p => a = b
  /\ (\A a \in asked : a.purpose # p) /\ p \notin regranted =>
       (consents[p] > 0 <=> decided[p] = "grant")

\* The inductive invariant of the consent center.
ConsentInv == ConsentTyped /\ \A p \in Purposes \ unsure : Answered(p)

\* A decision that is asked for.
LEMMA ConsentAsked ==
  ASSUME ConsentInv, NEW d \in Decision, NEW p \in Purposes, Consent!Ask(d, p)
  PROVE  ConsentInv'
  <1> DEFINE r == [decision |-> d, purpose |-> p, seen |-> TRUE]
  <1>1. /\ asked' = asked \cup {r} /\ decided' = [decided EXCEPT ![p] = d]
        /\ unsure' = (IF \E a \in asked : a.purpose = p THEN unsure \cup {p} ELSE unsure \ {p})
        /\ UNCHANGED <<consents, regranted>>
    BY DEF Consent!Ask
  <1>2. /\ r \in [decision : Decision, purpose : Purposes, seen : BOOLEAN]
        /\ r.decision = d /\ r.purpose = p
    OBVIOUS
  <1> HIDE DEF r
  <1>3. ConsentTyped'
    BY <1>1, <1>2 DEF ConsentInv, ConsentTyped
  <1>4. decided'[p] = d /\ \A q \in Purposes : q # p => decided'[q] = decided[q]
    BY <1>1 DEF ConsentInv, ConsentTyped
  <1>5. ASSUME NEW q \in Purposes \ unsure', q # p
        PROVE  Answered(q)'
    <2>1. q \in Purposes \ unsure
      BY <1>1, <1>5
    <2>2. Answered(q)
      BY <2>1 DEF ConsentInv
    <2>3. \A a \in asked' : a.purpose = q => a \in asked
      BY <1>1, <1>2, <1>5
    <2> QED
      BY <1>1, <1>4, <1>5, <2>2, <2>3 DEF Answered
  <1>6. ASSUME p \notin unsure'
        PROVE  Answered(p)'
    <2>1. \A a \in asked' : a.purpose = p => a = r
      BY <1>1, <1>2, <1>6
    <2>2. r \in asked'
      BY <1>1
    <2> QED
      BY <1>2, <1>4, <2>1, <2>2 DEF Answered
  <1> QED
    BY <1>3, <1>5, <1>6 DEF ConsentInv

\* A request that is served, or fails.
LEMMA ConsentServed ==
  ASSUME ConsentInv, NEW a \in asked, Consent!ServeConsent(a)
  PROVE  ConsentInv'
  <1> DEFINE p == a.purpose
  <1>1. /\ asked' = asked \ {a} /\ UNCHANGED decided
        /\ \/ /\ a.decision = "grant" /\ consents' = [consents EXCEPT ![p] = consents[p] + 1]
              /\ UNCHANGED unsure
           \/ /\ a.decision = "revoke" /\ consents' = [consents EXCEPT ![p] = 0]
              /\ UNCHANGED unsure
           \/ unsure' = unsure \cup {p} /\ UNCHANGED consents
        /\ regranted' \in {regranted, regranted \ {p}}
    BY DEF Consent!ServeConsent, Consent!Revoked
  <1>2. p \in Purposes /\ consents \in [Purposes -> Nat] /\ consents[p] \in Nat
    BY DEF ConsentInv, ConsentTyped
  <1> HIDE DEF p
  <1>3. ConsentTyped'
    BY <1>1, <1>2 DEF ConsentInv, ConsentTyped
  <1>4. \A q \in Purposes : q # p => /\ consents'[q] = consents[q]
                                     /\ q \in regranted => q \in regranted'
    BY <1>1, <1>2
  <1>5. unsure \subseteq unsure' /\ asked' \subseteq asked
    BY <1>1
  <1>6. ASSUME NEW q \in Purposes \ unsure', q # p
        PROVE  Answered(q)'
    <2>1. Answered(q)
      BY <1>5 DEF ConsentInv
    <2>2. \A b \in asked : b.purpose = q => b \in asked'
      BY <1>1, <1>6 DEF p
    <2> QED
      BY <1>1, <1>4, <1>5, <1>6, <2>1, <2>2 DEF Answered
  <1>7. ASSUME p \notin unsure'
        PROVE  Answered(p)'
    <2>1. Answered(p)
      BY <1>2, <1>5, <1>7 DEF ConsentInv
    <2>2. \A b \in asked' : b.purpose # p
      BY <1>1, <2>1 DEF Answered, p
    <2>3. decided[p] = a.decision
      BY <2>1 DEF Answered, p
    <2>4. consents'[p] > 0 <=> decided'[p] = "grant"
      <3>1. CASE a.decision = "grant" /\ consents' = [consents EXCEPT ![p] = consents[p] + 1]
        <4>1. consents'[p] = consents[p] + 1
          BY <1>2, <3>1
        <4> QED
          BY <1>1, <1>2, <2>3, <3>1, <4>1
      <3>2. CASE a.decision = "revoke" /\ consents' = [consents EXCEPT ![p] = 0]
        <4>1. consents'[p] = 0
          BY <1>2, <3>2
        <4> QED
          BY <1>1, <2>3, <3>2, <4>1
      <3> QED
        BY <1>1, <1>7, <3>1, <3>2
    <2> QED
      BY <2>2, <2>4 DEF Answered
  <1> QED
    BY <1>2, <1>3, <1>6, <1>7 DEF ConsentInv

\* The server grants a purpose by itself.
LEMMA ConsentEnsured ==
  ASSUME ConsentInv, NEW p \in SelfGranted,
         Consent!EnsureConsent(p) \/ Consent!CommitGrant(p)
  PROVE  ConsentInv'
  <1>1. /\ UNCHANGED <<asked, decided, unsure>> /\ p \in Purposes
        /\ \/ UNCHANGED <<consents, regranted>>
           \/ /\ consents' = [consents EXCEPT ![p] = consents[p] + 1]
              /\ regranted' = regranted \cup {p}
    BY ConsentSelfGrantedAssumption
    DEF Consent!EnsureConsent, Consent!CommitGrant, Consent!SelfGrantedAssumption
  <1>2. ConsentTyped'
    BY <1>1 DEF ConsentInv, ConsentTyped
  <1>3. \A q \in Purposes : q \notin regranted' =>
          q \notin regranted /\ consents'[q] = consents[q]
    BY <1>1 DEF ConsentInv, ConsentTyped
  <1>4. ASSUME NEW q \in Purposes \ unsure' PROVE Answered(q)'
    <2>1. Answered(q)
      BY <1>1 DEF ConsentInv
    <2> QED
      BY <1>1, <1>3, <2>1 DEF Answered
  <1> QED
    BY <1>2, <1>4 DEF ConsentInv

\* The page is left: its requests go on.
LEMMA ConsentLeft == ConsentInv /\ Consent!Leave => ConsentInv'
  <1> SUFFICES ASSUME ConsentInv, Consent!Leave PROVE ConsentInv'
    OBVIOUS
  <1> DEFINE gone(a) == [a EXCEPT !.seen = FALSE]
  <1>1. asked' = {gone(a) : a \in asked} /\ UNCHANGED <<consents, decided, unsure, regranted>>
    BY DEF Consent!Leave
  <1>2. ASSUME NEW a \in asked
        PROVE  /\ gone(a) \in [decision : Decision, purpose : Purposes, seen : BOOLEAN]
               /\ gone(a).purpose = a.purpose /\ gone(a).decision = a.decision
    <2>1. a \in [decision : Decision, purpose : Purposes, seen : BOOLEAN]
      BY DEF ConsentInv, ConsentTyped
    <2> QED
      BY <2>1, Zenon
  <1> HIDE DEF gone
  <1>3. ConsentTyped'
    BY <1>1, <1>2 DEF ConsentInv, ConsentTyped
  <1>4. ASSUME NEW p \in Purposes \ unsure' PROVE Answered(p)'
    <2>1. Answered(p)
      BY <1>1 DEF ConsentInv
    <2>2. \A b \in asked' : b.purpose = p => b.decision = decided'[p]
      BY <1>1, <1>2, <2>1 DEF Answered
    <2>3. \A b, c \in asked' : b.purpose = p /\ c.purpose = p => b = c
      BY <1>1, <1>2, <2>1 DEF Answered
    <2>4. (\A b \in asked' : b.purpose # p) => \A a \in asked : a.purpose # p
      BY <1>1, <1>2
    <2> QED
      BY <1>1, <2>1, <2>2, <2>3, <2>4 DEF Answered
  <1> QED
    BY <1>3, <1>4 DEF ConsentInv

\* No step of the consent center, or of another page, disturbs it.
LEMMA ConsentStep == ConsentInv /\ [Next]_allVars => ConsentInv'
  <1> SUFFICES ASSUME ConsentInv, [Next]_allVars PROVE ConsentInv'
    OBVIOUS
  <1>1. CASE Consent!Next
    <2>1. ASSUME NEW p \in Purposes, Consent!Grant(p) \/ Consent!Revoke(p)
          PROVE  ConsentInv'
      BY <2>1, ConsentAsked DEF Consent!Grant, Consent!Revoke, Decision
    <2>2. CASE Consent!FetchLedger \/ Consent!Return
      BY <2>2
      DEF Consent!FetchLedger, Consent!Return, ConsentInv, ConsentTyped, Answered
    <2> QED
      BY <1>1, <2>1, <2>2, ConsentServed, ConsentEnsured, ConsentLeft DEF Consent!Next
  <1>2. CASE UNCHANGED consentVars
    BY <1>2 DEF consentVars, ConsentInv, ConsentTyped, Answered
  <1> QED
    BY <1>1, <1>2 DEF Next, Follows, allVars

\* It holds when the pages open.
LEMMA ConsentInitial == Init => ConsentInv
BY DEF Init, Consent!PageInit, ConsentInv, ConsentTyped, Answered, Decision

\* When nothing is under way, each purpose is as it was last decided, also when it was
\* granted more than once, decided from an old ledger or granted by the server before,
\* whatever other pages are open and visited; unless the server has granted it since.
THEOREM LastDecisionHoldsAmongPages == Spec => []LastDecisionHolds
  <1>1. ConsentInv => LastDecisionHolds
    BY DEF ConsentInv, Answered, LastDecisionHolds, Consent!LastDecisionHolds
  <1> QED
    BY ConsentInitial, <1>1, ConsentStep, PTL DEF Spec

-----------------------------------------------------------------------------
(* The live card of the scans page. *)

\* What a scan is, and what is shown of it.
ScanStatus == {"absent", "queued", "running"} \cup Live!Ended
Card == [id : Nat, status : ScanStatus \cup {"none"}]
Stream == [of : Live!Scans, read : ScanStatus \cup {"none"}]

\* Scans are created in their order, and one that is awaited has room.
ScansNumbered ==
  /\ scan \in [Live!Scans -> ScanStatus]
  /\ \E n \in Nat : \A k \in Live!Scans : scan[k] = "absent" <=> k > n
  /\ creating # {} => \E k \in Live!Scans : scan[k] = "absent"

\* A scan that exists.
Existing(n) == n \in Live!Scans /\ scan[n] # "absent"

\* Card, effect, streams, cancellations and workers are about scans that exist; an open
\* stream is of the scan the effect ran for last, and what it has read of an end was so.
LiveFollows ==
  /\ live \in Card /\ streams \subseteq Stream
  /\ live = Live!NoCard \/ Existing(live.id)
  /\ effect.status # "none" => Existing(effect.id)
  /\ \A s \in streams :
       /\ Existing(s.of) /\ s.of = effect.id
       /\ s.read \in Live!Ended => Live!HasEnded(s.of)
  /\ \A n \in cancelling \cup taken : Existing(n)

\* The inductive invariant of the live card.
LiveInv == ScansNumbered /\ LiveFollows /\ Live!CardEndedIsEnded

\* What is created stays, and what has ended has ended.
ScansKept ==
  \A n \in Live!Scans : /\ scan[n] # "absent" => scan'[n] # "absent"
                        /\ Live!HasEnded(n) => Live!HasEnded(n)'

\* A step that changes scans only, and cancels no others, leaves card and streams right.
LEMMA LiveKept ==
  ASSUME LiveInv, ScansKept, ScansNumbered', cancelling' \subseteq cancelling,
         \A n \in taken' : n \in taken \/ Existing(n),
         UNCHANGED <<live, effect, streams, slipped>>
  PROVE  LiveInv'
  <1>1. \A n : Existing(n) => Existing(n)'
    BY DEF ScansKept, Existing, Live!Scans
  <1>2. LiveFollows'
    BY <1>1, Zenon DEF LiveInv, LiveFollows, ScansKept, Existing, Stream, Card
  <1>3. Live!CardEndedIsEnded'
    <2>1. Live!NoCard.status \notin Live!Ended
      BY DEF Live!NoCard, Live!Ended
    <2> QED
      BY <2>1 DEF LiveInv, LiveFollows, ScansKept, Existing, Live!CardEndedIsEnded
  <1> QED
    BY <1>2, <1>3 DEF LiveInv

\* A scan is created: the first that is absent.
LEMMA LiveCreated == LiveInv /\ Live!Created => LiveInv'
  <1> SUFFICES ASSUME LiveInv, Live!Created PROVE LiveInv'
    OBVIOUS
  <1> DEFINE first(k) == scan[k] = "absent" /\ \A m \in Live!Scans : m < k => scan[m] # "absent"
             new == CHOOSE k \in Live!Scans : first(k)
  <1>1. /\ creating # {} /\ creating' = {}
        /\ scan' = [scan EXCEPT ![new] = "queued"]
        /\ \/ live' = [id |-> new, status |-> "queued"] /\ slipped' = FALSE
           \/ UNCHANGED <<live, slipped>>
        /\ UNCHANGED <<taken, effect, streams, revived, cancelling>>
    BY DEF Live!Created
  <1>2. PICK l \in Nat : \A k \in Live!Scans : scan[k] = "absent" <=> k > l
    BY DEF LiveInv, ScansNumbered
  <1>3. l + 1 \in Live!Scans /\ first(l + 1)
    <2>1. PICK k \in Live!Scans : scan[k] = "absent"
      BY <1>1 DEF LiveInv, ScansNumbered
    <2>2. l + 1 \in Live!Scans
      BY <1>2, <2>1, LiveMaxScansAssumption DEF Live!Scans, Live!MaxScansAssumption
    <2> QED
      BY <1>2, <2>2, LiveMaxScansAssumption DEF Live!Scans, Live!MaxScansAssumption
  <1>4. new \in Live!Scans /\ first(new)
    BY <1>3
  <1>5. new = l + 1
    BY <1>2, <1>3, <1>4, LiveMaxScansAssumption DEF Live!Scans, Live!MaxScansAssumption
  <1>6. PICK n \in Live!Scans : n = new /\ n = l + 1 /\ scan[n] = "absent"
    BY <1>4, <1>5
  <1> HIDE DEF new, first
  <1>7. scan \in [Live!Scans -> ScanStatus]
    BY DEF LiveInv, ScansNumbered
  <1>8. scan'[n] = "queued" /\ \A k \in Live!Scans : k # n => scan'[k] = scan[k]
    BY <1>1, <1>6, <1>7
  <1>9. ScansNumbered'
    <2>1. \A k \in Live!Scans : scan'[k] = "absent" <=> k > l + 1
      BY <1>2, <1>6, <1>8, LiveMaxScansAssumption DEF Live!Scans, Live!MaxScansAssumption
    <2>2. scan' \in [Live!Scans -> ScanStatus]
      BY <1>1, <1>6, <1>7 DEF ScanStatus
    <2>3. l + 1 \in Nat
      OBVIOUS
    <2> QED
      BY <1>1, <2>1, <2>2, <2>3, Zenon DEF ScansNumbered, Live!Scans
  <1>10. ScansKept
    BY <1>1, <1>6, <1>8 DEF ScansKept, Live!HasEnded, Live!Ended
  <1>11. CASE UNCHANGED <<live, slipped>>
    BY <1>1, <1>9, <1>10, <1>11, LiveKept
  <1>12. CASE live' = [id |-> n, status |-> "queued"] /\ slipped' = FALSE
    <2>1. \A k : Existing(k) => Existing(k)'
      BY <1>10 DEF ScansKept, Existing, Live!Scans
    <2>2. live'.id = n /\ live'.status = "queued"
      BY <1>12
    <2>3. Existing(live.id)' /\ live' \in Card /\ live'.status \notin Live!Ended
      <3>1. n \in Nat /\ scan'[n] # "absent"
        BY <1>8 DEF Live!Scans
      <3>2. live' \in Card /\ "queued" \notin Live!Ended
        BY <1>12, <3>1 DEF Live!Ended, Card, ScanStatus
      <3> QED
        BY <2>2, <3>1, <3>2 DEF Existing, Live!Scans
    <2>4. \A s \in streams : Live!HasEnded(s.of) => Live!HasEnded(s.of)'
      BY <1>10 DEF ScansKept, LiveInv, LiveFollows, Existing
    <2>5. streams \subseteq Stream' /\ Card = Card'
      BY DEF LiveInv, LiveFollows, Stream, Live!Scans, Card
    <2>6. LiveFollows'
      BY <1>1, <2>1, <2>2, <2>3, <2>4, <2>5 DEF LiveInv, LiveFollows
    <2> QED
      BY <1>9, <2>3, <2>6 DEF LiveInv, Live!CardEndedIsEnded
  <1> QED
    BY <1>1, <1>6, <1>11, <1>12, Zenon

\* The worker and the cancellations.
LEMMA LiveWorked ==
  ASSUME LiveInv, NEW n \in Live!Scans,
         Live!Take(n) \/ Live!Start(n) \/ Live!Work(n) \/ Live!ServeCancel(n)
  PROVE  LiveInv'
  <1>1. scan \in [Live!Scans -> ScanStatus]
    BY DEF LiveInv, ScansNumbered
  <1>2. /\ UNCHANGED <<creating, live, effect, streams, slipped>>
        /\ cancelling' \subseteq cancelling
    BY DEF Live!Take, Live!Start, Live!Work, Live!ServeCancel
  <1>3. scan[n] # "absent"
    BY DEF Live!Take, Live!Start, Live!Work, Live!ServeCancel, LiveInv, LiveFollows, Existing
  <1>4. \A k \in taken' : k \in taken \/ Existing(k)
    BY <1>3 DEF Live!Take, Live!Start, Live!Work, Live!ServeCancel, Existing
  <1>5. \E st \in ScanStatus \ {"absent"} :
          /\ scan' = [scan EXCEPT ![n] = st]
          /\ scan[n] \in Live!Ended => st \in Live!Ended \/ n \in revived'
          /\ revived \subseteq revived'
    <2>1. CASE Live!Take(n)
      <3>1. scan' = [scan EXCEPT ![n] = "queued"] /\ revived' = revived
        BY <1>1, <2>1 DEF Live!Take
      <3> QED
        BY <2>1, <3>1 DEF Live!Take, Live!Ended, ScanStatus
    <2>2. CASE Live!Start(n)
      BY <2>2 DEF Live!Start, ScanStatus
    <2>3. CASE Live!Work(n)
      BY <2>3 DEF Live!Work, Live!Ended, ScanStatus
    <2>4. CASE Live!ServeCancel(n)
      <3>1. UNCHANGED revived /\ "cancelled" \in Live!Ended /\ "cancelled" \in ScanStatus
        BY <2>4 DEF Live!ServeCancel, Live!Ended, ScanStatus
      <3>2. \/ scan' = [scan EXCEPT ![n] = scan[n]] /\ scan[n] \in Live!Ended
            \/ scan' = [scan EXCEPT ![n] = "cancelled"]
        BY <2>4, Zenon DEF Live!ServeCancel
      <3>3. scan[n] \in ScanStatus \ {"absent"} /\ "cancelled" # "absent"
        BY <1>1, <1>3
      <3> QED
        BY <3>1, <3>2, <3>3, Zenon
    <2> QED
      BY <2>1, <2>2, <2>3, <2>4
  <1>6. PICK st \in ScanStatus \ {"absent"} :
          /\ scan' = [scan EXCEPT ![n] = st]
          /\ scan[n] \in Live!Ended => st \in Live!Ended \/ n \in revived'
          /\ revived \subseteq revived'
    BY <1>5, Zenon
  <1>7. /\ scan' \in [Live!Scans -> ScanStatus]
        /\ scan'[n] = st /\ st # "absent"
        /\ \A k \in Live!Scans : k # n => scan'[k] = scan[k]
    BY <1>1, <1>6
  <1>8. \A k \in Live!Scans : scan'[k] = "absent" <=> scan[k] = "absent"
    BY <1>3, <1>7
  <1>9. ScansNumbered'
    BY <1>2, <1>7, <1>8, Zenon DEF LiveInv, ScansNumbered, Live!Scans
  <1>10. ScansKept
    BY <1>6, <1>7, <1>8 DEF ScansKept, Live!HasEnded
  <1> QED
    BY <1>2, <1>4, <1>9, <1>10, LiveKept

\* The page: its effect and streams, its buttons and links.
LEMMA LiveShown ==
  ASSUME LiveInv,
         \/ Live!Effect \/ Live!Cancel
         \/ \E n \in Live!Scans : Live!OpenDetail(n)
         \/ \E s \in streams : Live!ServeStream(s) \/ Live!StreamEvent(s) \/ Live!StreamFails(s)
  PROVE  LiveInv'
  <1>1. ScansNumbered'
    <2>1. UNCHANGED scan /\ (creating' # {} => creating # {})
      BY DEF Live!Effect, Live!Cancel, Live!OpenDetail, Live!ServeStream, Live!StreamEvent,
             Live!StreamFails
    <2> QED
      BY <2>1, Zenon DEF LiveInv, ScansNumbered, Live!Scans
  <1>2. UNCHANGED <<scan, taken, revived>>
    BY DEF Live!Effect, Live!Cancel, Live!OpenDetail, Live!ServeStream, Live!StreamEvent,
           Live!StreamFails
  <1>3. \A n : Existing(n) <=> Existing(n)'
    BY <1>2 DEF Existing, Live!Scans
  <1> USE DEF Live!HasEnded
  <1>4. CASE Live!Effect
    <2>1. /\ effect' = live /\ UNCHANGED <<live, slipped, cancelling>>
          /\ \/ streams' = {}
             \/ streams' = {[of |-> live.id, read |-> "none"]} /\ live.status # "none"
      BY <1>4 DEF Live!Effect, Live!Cleaned, Live!Ended
    <2>2. live.status # "none" => Existing(live.id)
      BY DEF LiveInv, LiveFollows, Live!NoCard
    <2>3. \A s \in streams' :
            /\ Existing(s.of) /\ s.of = effect'.id /\ s \in Stream
            /\ s.read \notin Live!Ended
      BY <2>1, <2>2 DEF Live!Ended, Stream, Existing
    <2>4. LiveFollows'
      BY <1>2, <1>3, <2>1, <2>2, <2>3 DEF LiveInv, LiveFollows
    <2> QED
      BY <1>1, <1>2, <2>1, <2>4 DEF LiveInv, Live!CardEndedIsEnded
  <1>5. CASE Live!Cancel
    <2>1. /\ live # Live!NoCard /\ cancelling' = cancelling \cup {live.id}
          /\ UNCHANGED <<live, effect, streams, slipped>>
      BY <1>5 DEF Live!Cancel
    <2>2. LiveFollows'
      BY <1>2, <1>3, <2>1 DEF LiveInv, LiveFollows
    <2> QED
      BY <1>1, <1>2, <2>1, <2>2 DEF LiveInv, Live!CardEndedIsEnded
  <1>6. CASE \E n \in Live!Scans : Live!OpenDetail(n)
    <2>1. live' = Live!NoCard /\ effect' = Live!NoCard /\ streams' = {} /\ UNCHANGED cancelling
      BY <1>6 DEF Live!OpenDetail
    <2>2. Live!NoCard.status = "none" /\ "none" \notin Live!Ended /\ Live!NoCard \in Card
      BY DEF Live!NoCard, Live!NoScan, Live!Ended, Card
    <2>3. LiveFollows'
      BY <1>2, <1>3, <2>1, <2>2 DEF LiveInv, LiveFollows
    <2> QED
      BY <1>1, <2>1, <2>2, <2>3 DEF LiveInv, Live!CardEndedIsEnded
  <1>7. ASSUME NEW s \in streams, Live!ServeStream(s)
        PROVE  LiveInv'
    <2> DEFINE t == [s EXCEPT !.read = scan[s.of]]
    <2>1. streams' = (streams \ {s}) \cup {t} /\ UNCHANGED <<live, effect, slipped, cancelling>>
      BY <1>7 DEF Live!ServeStream
    <2>2. s \in Stream /\ scan[s.of] \in ScanStatus
      BY DEF LiveInv, LiveFollows, ScansNumbered, Existing
    <2>3. t.of = s.of /\ t.read = scan[s.of] /\ t \in Stream
      BY <2>2 DEF Stream
    <2> HIDE DEF t
    <2>4. LiveFollows'
      BY <1>2, <1>3, <2>1, <2>3 DEF LiveInv, LiveFollows
    <2> QED
      BY <1>1, <1>2, <2>1, <2>4 DEF LiveInv, Live!CardEndedIsEnded
  <1>8. ASSUME NEW s \in streams, Live!StreamEvent(s)
        PROVE  LiveInv'
    <2>1. /\ live # Live!NoCard /\ live' = [live EXCEPT !.status = s.read]
          /\ streams' = streams \ {s}
          /\ slipped' = (slipped \/ (s.of # live.id /\ effect.id # live.id))
          /\ UNCHANGED <<effect, cancelling>>
      BY <1>8 DEF Live!StreamEvent
    <2>2. Existing(live.id) /\ live \in Card /\ s \in Stream
      BY <2>1 DEF LiveInv, LiveFollows
    <2>3. live'.id = live.id /\ live'.status = s.read /\ live' \in Card
      BY <2>1, <2>2 DEF Card, Stream
    <2>4. s.of = effect.id /\ (s.read \in Live!Ended => Live!HasEnded(s.of))
      BY DEF LiveInv, LiveFollows
    <2>5. LiveFollows'
      <3>1. Existing(live.id)'
        BY <1>3, <2>2, <2>3
      <3>2. \A t \in streams' :
              /\ Existing(t.of) /\ t.of = effect'.id /\ t \in Stream
              /\ t.read \in Live!Ended => Live!HasEnded(t.of)'
        BY <1>2, <2>1 DEF LiveInv, LiveFollows
      <3>3. effect'.status # "none" => Existing(effect'.id)
        BY <2>1 DEF LiveInv, LiveFollows
      <3>4. \A n \in cancelling' \cup taken' : Existing(n)
        BY <1>2, <2>1 DEF LiveInv, LiveFollows
      <3>5. Stream' = Stream /\ Card' = Card
        BY DEF Stream, Card, Live!Scans
      <3> QED
        BY <1>3, <2>3, <3>1, <3>2, <3>3, <3>4, <3>5 DEF LiveFollows
    <2>6. Live!CardEndedIsEnded'
      <3>1. ~slipped' => s.of = live.id
        BY <2>1, <2>4, Zenon
      <3> QED
        BY <1>2, <2>3, <2>4, <3>1 DEF Live!CardEndedIsEnded
    <2> QED
      BY <1>1, <2>5, <2>6 DEF LiveInv
  <1>9. ASSUME NEW s \in streams, Live!StreamFails(s)
        PROVE  LiveInv'
    <2>1. streams' = streams \ {s} /\ UNCHANGED <<live, effect, slipped, cancelling>>
      BY <1>9 DEF Live!StreamFails
    <2>2. LiveFollows'
      BY <1>2, <1>3, <2>1 DEF LiveInv, LiveFollows
    <2> QED
      BY <1>1, <1>2, <2>1, <2>2 DEF LiveInv, Live!CardEndedIsEnded
  <1> QED
    BY <1>4, <1>5, <1>6, <1>7, <1>8, <1>9

\* No step of the scans page, or of another page, disturbs it.
LEMMA LiveStep == LiveInv /\ [Next]_allVars => LiveInv'
  <1> SUFFICES ASSUME LiveInv, [Next]_allVars PROVE LiveInv'
    OBVIOUS
  <1>1. CASE Live!Next
    <2>1. CASE Live!StartScan
      <3>1. /\ \E k \in Live!Scans : scan[k] = "absent"
            /\ UNCHANGED <<scan, taken, live, effect, streams, slipped, revived, cancelling>>
        BY <2>1 DEF Live!StartScan
      <3>2. ScansNumbered'
        BY <3>1, Zenon DEF LiveInv, ScansNumbered, Live!Scans
      <3> QED
        BY <3>1, <3>2, LiveKept DEF ScansKept, Live!HasEnded
    <2>2. CASE Live!Back \/ Live!Poll
      <3>1. UNCHANGED <<scan, taken, creating, live, effect, streams, slipped, revived,
                        cancelling>>
        BY <2>2 DEF Live!Back, Live!Poll
      <3>2. ScansNumbered'
        BY <3>1, Zenon DEF LiveInv, ScansNumbered, Live!Scans
      <3> QED
        BY <3>1, <3>2, LiveKept DEF ScansKept, Live!HasEnded
    <2> QED
      BY <1>1, <2>1, <2>2, LiveCreated, LiveWorked, LiveShown DEF Live!Next
  <1>2. CASE UNCHANGED liveVars
    <2>1. UNCHANGED <<scan, taken, creating, live, effect, streams, slipped, revived,
                        cancelling>>
      BY <1>2 DEF liveVars
    <2>2. ScansNumbered'
      BY <2>1, Zenon DEF LiveInv, ScansNumbered, Live!Scans
    <2> QED
      BY <2>1, <2>2, LiveKept DEF ScansKept, Live!HasEnded
  <1> QED
    BY <1>1, <1>2 DEF Next, Follows, allVars

\* It holds when the pages open.
LEMMA LiveInitial == Init => LiveInv
  <1> SUFFICES ASSUME Init PROVE LiveInv
    OBVIOUS
  <1>1. /\ scan = [n \in Live!Scans |-> "absent"] /\ creating = {} /\ live = Live!NoCard
        /\ effect = Live!NoCard /\ streams = {} /\ cancelling = {} /\ taken = {}
    BY DEF Init, Live!PageInit
  <1>2. \A k \in Live!Scans : scan[k] = "absent" <=> k > 0
    BY <1>1, LiveMaxScansAssumption DEF Live!Scans, Live!MaxScansAssumption
  <1>3. ScansNumbered
    BY <1>1, <1>2 DEF ScansNumbered, ScanStatus
  <1> QED
    BY <1>1, <1>3 DEF LiveInv, LiveFollows, Live!NoCard, Live!NoScan, Live!CardEndedIsEnded,
                        Live!Ended, Card

\* The card never shows a scan as ended that has not, although streams of several scans
\* write to it and workers overwrite ends, but for an event that slips in before the effect;
\* whatever other pages are open and visited.
THEOREM CardEndedIsEndedAmongPages == Spec => []CardEndedIsEnded
  <1>1. LiveInv => CardEndedIsEnded
    BY DEF LiveInv, CardEndedIsEnded
  <1> QED
    BY LiveInitial, <1>1, LiveStep, PTL DEF Spec

-----------------------------------------------------------------------------
(* The query cache. *)

\* The tables know the key and the prefix.
LEMMA PrefixInvalidates ==
  ASSUME NEW t \in Cache!KeyTables, query \in DOMAIN t,
         NEW u \in Cache!MutationTables, mutation \in DOMAIN u,
         NEW prefix \in u[mutation], Cache!IsPrefix(prefix, t[query])
  PROVE  Cache!IsInvalidated
  <1>1. t[query] \in Cache!QueryKey(query)
    BY DEF Cache!QueryKey
  <1>2. prefix \in Cache!Invalidated(mutation)
    BY DEF Cache!Invalidated
  <1> QED
    BY <1>1, <1>2 DEF Cache!IsInvalidated

\* A key begins with itself.
LEMMA KeyIsPrefix ==
  ASSUME NEW a, NEW b
  PROVE  Cache!IsPrefix(<<a, b>>, <<a, b>>)
  BY DEF Cache!IsPrefix

\* A mutation invalidates what it changes, but for what it leaves alone: the mutations of a
\* feature, the queries of that feature.
LEMMA ChangedIsInvalidated ==
  ASSUME Cache!Touches, ~Cache!LeftAlone(mutation, query)
  PROVE  Cache!IsInvalidated
  <1>1. PICK t \in Cache!ChangeTables : mutation \in DOMAIN t /\ query \in t[mutation]
    BY DEF Cache!Touches
  <1>2. \/ mutation = "useLogin" /\ query = "useMe"
        \/ /\ mutation \in {"useCreateIdentifier", "useConfirmVerify", "useDeleteIdentifier"}
           /\ query = "useIdentifiers"
        \/ mutation \in {"useCreateScan", "useCancelScan"} /\ query \in {"useScans", "useScan"}
        \/ mutation = "useComputeScore" /\ query \in {"useLatestScore", "useScoreHistory"}
        \/ /\ mutation \in {"useGeneratePlan", "useUpdateRecommendation"}
           /\ query = "useLatestPlan"
        \/ mutation \in {"useGrantConsent", "useRevokeConsent"} /\ query = "useConsent"
        \/ /\ mutation \in {"useStartBrokerOptOut", "useCancelRemediationJob", "useSolveCaptcha",
                             "useVerifyBrokers"}
           /\ query \in {"useRemediationJobs", "useRemediationJob", "useCaptchaQueue",
                          "useBrokerStates"}
        \/ mutation = "useUpdateFreezeItem" /\ query = "useFreezeChecklist"
        \/ /\ mutation \in {"useCreateKnowRequest", "useCreateComplaint", "useMarkRequestSent"}
           /\ query = "useGeneratedRequests"
        \/ mutation = "useRebuildGraph" /\ query = "useIdentityGraph"
    <2>1. CASE t = Cache!SessionChanges
      BY <1>1, <2>1 DEF Cache!SessionChanges, Cache!LeftAlone, Cache!Log
    <2>2. CASE t = Cache!IdentifierChanges
      BY <1>1, <2>2 DEF Cache!IdentifierChanges, Cache!LeftAlone, Cache!Log
    <2>3. CASE t = Cache!VerificationChanges
      BY <1>1, <2>3 DEF Cache!VerificationChanges, Cache!LeftAlone, Cache!Log
    <2>4. CASE t = Cache!ScanChanges
      BY <1>1, <2>4 DEF Cache!ScanChanges, Cache!LeftAlone, Cache!Log
    <2>5. CASE t = Cache!ScoreChanges
      BY <1>1, <2>5 DEF Cache!ScoreChanges, Cache!LeftAlone, Cache!Log, Cache!ScoreKeys
    <2>6. CASE t = Cache!PlanChanges
      BY <1>1, <2>6 DEF Cache!PlanChanges, Cache!LeftAlone, Cache!Log
    <2>7. CASE t = Cache!PrivacyChanges
      BY <1>1, <2>7 DEF Cache!PrivacyChanges, Cache!LeftAlone, Cache!Log
    <2>8. CASE t = Cache!RemediationChanges
      BY <1>1, <2>8 DEF Cache!RemediationChanges, Cache!LeftAlone, Cache!Log
    <2>9. CASE t = Cache!PaperworkChanges
      BY <1>1, <2>9 DEF Cache!PaperworkChanges, Cache!LeftAlone, Cache!Log
    <2>10. CASE t = Cache!GraphChanges
      BY <1>1, <2>10 DEF Cache!GraphChanges, Cache!LeftAlone, Cache!Log
    <2> QED
      BY <2>1, <2>2, <2>3, <2>4, <2>5, <2>6, <2>7, <2>8, <2>9, <2>10 DEF Cache!ChangeTables
  <1>3. CASE mutation = "useLogin" /\ query = "useMe"
    <2>1. query \in DOMAIN Cache!SessionKeys /\ Cache!SessionKeys[query] = <<"me">>
      BY <1>3 DEF Cache!SessionKeys
    <2>2. /\ mutation \in DOMAIN Cache!SessionMutations
          /\ Cache!SessionMutations[mutation] = {<<"me">>}
      BY <1>3 DEF Cache!SessionMutations
    <2>3. Cache!IsPrefix(<<"me">>, Cache!SessionKeys[query])
      BY <2>1 DEF Cache!IsPrefix
    <2> QED
      BY <2>1, <2>2, <2>3, PrefixInvalidates DEF Cache!KeyTables, Cache!MutationTables
  <1>4. CASE /\ mutation \in {"useCreateIdentifier", "useConfirmVerify", "useDeleteIdentifier"}
            /\ query = "useIdentifiers"
    <2>1. query \in DOMAIN Cache!IdentifierKeys /\ Cache!IdentifierKeys[query] = <<"identifiers">>
      BY <1>4 DEF Cache!IdentifierKeys
    <2>2. /\ mutation \in DOMAIN Cache!IdentifierMutations
          /\ Cache!IdentifierMutations[mutation] = {<<"identifiers">>}
      BY <1>4 DEF Cache!IdentifierMutations
    <2>3. Cache!IsPrefix(<<"identifiers">>, Cache!IdentifierKeys[query])
      BY <2>1 DEF Cache!IsPrefix
    <2> QED
      BY <2>1, <2>2, <2>3, PrefixInvalidates DEF Cache!KeyTables, Cache!MutationTables
  <1>5. CASE mutation \in {"useCreateScan", "useCancelScan"} /\ query \in {"useScans", "useScan"}
    <2>1. /\ query \in DOMAIN Cache!ScanKeys
          /\ Cache!ScanKeys[query] \in {<<"scans">>, <<"scans", "id">>}
      BY <1>5 DEF Cache!ScanKeys
    <2>2. mutation \in DOMAIN Cache!ScanMutations /\ Cache!ScanMutations[mutation] = {<<"scans">>}
      BY <1>5 DEF Cache!ScanMutations
    <2>3. Cache!IsPrefix(<<"scans">>, Cache!ScanKeys[query])
      BY <2>1 DEF Cache!IsPrefix
    <2> QED
      BY <2>1, <2>2, <2>3, PrefixInvalidates DEF Cache!KeyTables, Cache!MutationTables
  <1>6. CASE mutation = "useComputeScore" /\ query \in {"useLatestScore", "useScoreHistory"}
    <2>1. /\ query \in DOMAIN Cache!ScoreKeys
          /\ Cache!ScoreKeys[query] \in {<<"scores", "latest", "all">>, <<"scores", "history",
                                         "all">>}
      BY <1>6 DEF Cache!ScoreKeys
    <2>2. /\ mutation \in DOMAIN Cache!ScoreMutations
          /\ Cache!ScoreMutations[mutation] = {<<"scores">>}
      BY <1>6 DEF Cache!ScoreMutations
    <2>3. Cache!IsPrefix(<<"scores">>, Cache!ScoreKeys[query])
      BY <2>1 DEF Cache!IsPrefix
    <2> QED
      BY <2>1, <2>2, <2>3, PrefixInvalidates DEF Cache!KeyTables, Cache!MutationTables
  <1>7. CASE /\ mutation \in {"useGeneratePlan", "useUpdateRecommendation"}
            /\ query = "useLatestPlan"
    <2>1. /\ query \in DOMAIN Cache!PlanKeys
          /\ Cache!PlanKeys[query] \in {<<"recommendations", "latest", "all">>}
      BY <1>7 DEF Cache!PlanKeys
    <2>2. /\ mutation \in DOMAIN Cache!PlanMutations
          /\ Cache!PlanMutations[mutation] = {<<"recommendations">>}
      BY <1>7 DEF Cache!PlanMutations
    <2>3. Cache!IsPrefix(<<"recommendations">>, Cache!PlanKeys[query])
      BY <2>1 DEF Cache!IsPrefix
    <2> QED
      BY <2>1, <2>2, <2>3, PrefixInvalidates DEF Cache!KeyTables, Cache!MutationTables
  <1>8. CASE mutation \in {"useGrantConsent", "useRevokeConsent"} /\ query = "useConsent"
    <2>1. /\ query \in DOMAIN Cache!PrivacyKeys
          /\ Cache!PrivacyKeys[query] = <<"privacy", "consent">>
      BY <1>8 DEF Cache!PrivacyKeys
    <2>2. /\ mutation \in DOMAIN Cache!PrivacyMutations
          /\ Cache!PrivacyMutations[mutation] = {<<"privacy", "consent">>}
      BY <1>8 DEF Cache!PrivacyMutations
    <2>3. Cache!IsPrefix(<<"privacy", "consent">>, Cache!PrivacyKeys[query])
      BY <2>1, KeyIsPrefix
    <2> QED
      BY <2>1, <2>2, <2>3, PrefixInvalidates DEF Cache!KeyTables, Cache!MutationTables
  <1>9. CASE /\ mutation \in {"useStartBrokerOptOut", "useCancelRemediationJob", "useSolveCaptcha",
                           "useVerifyBrokers"}
            /\ query \in {"useRemediationJobs", "useRemediationJob", "useCaptchaQueue",
                        "useBrokerStates"}
    <2>1. /\ query \in DOMAIN Cache!RemediationKeys
          /\ Cache!RemediationKeys[query] \in {<<"remediation", "jobs">>, <<"remediation", "jobs",
                                               "id">>, <<"remediation", "captcha">>,
                                               <<"remediation", "state">>}
      BY <1>9 DEF Cache!RemediationKeys
    <2>2. /\ mutation \in DOMAIN Cache!RemediationMutations
          /\ Cache!RemediationMutations[mutation] = {<<"remediation">>}
      BY <1>9 DEF Cache!RemediationMutations
    <2>3. Cache!IsPrefix(<<"remediation">>, Cache!RemediationKeys[query])
      BY <2>1 DEF Cache!IsPrefix
    <2> QED
      BY <2>1, <2>2, <2>3, PrefixInvalidates DEF Cache!KeyTables, Cache!MutationTables
  <1>10. CASE mutation = "useUpdateFreezeItem" /\ query = "useFreezeChecklist"
    <2>1. /\ query \in DOMAIN Cache!PaperworkKeys
          /\ Cache!PaperworkKeys[query] = <<"remediation", "freeze">>
      BY <1>10 DEF Cache!PaperworkKeys
    <2>2. /\ mutation \in DOMAIN Cache!PaperworkMutations
          /\ Cache!PaperworkMutations[mutation] = {<<"remediation", "freeze">>}
      BY <1>10 DEF Cache!PaperworkMutations
    <2>3. Cache!IsPrefix(<<"remediation", "freeze">>, Cache!PaperworkKeys[query])
      BY <2>1, KeyIsPrefix
    <2> QED
      BY <2>1, <2>2, <2>3, PrefixInvalidates DEF Cache!KeyTables, Cache!MutationTables
  <1>11. CASE /\ mutation \in {"useCreateKnowRequest", "useCreateComplaint", "useMarkRequestSent"}
            /\ query = "useGeneratedRequests"
    <2>1. /\ query \in DOMAIN Cache!PaperworkKeys
          /\ Cache!PaperworkKeys[query] = <<"remediation", "requests">>
      BY <1>11 DEF Cache!PaperworkKeys
    <2>2. /\ mutation \in DOMAIN Cache!PaperworkMutations
          /\ Cache!PaperworkMutations[mutation] = {<<"remediation", "requests">>}
      BY <1>11 DEF Cache!PaperworkMutations
    <2>3. Cache!IsPrefix(<<"remediation", "requests">>, Cache!PaperworkKeys[query])
      BY <2>1, KeyIsPrefix
    <2> QED
      BY <2>1, <2>2, <2>3, PrefixInvalidates DEF Cache!KeyTables, Cache!MutationTables
  <1>12. CASE mutation = "useRebuildGraph" /\ query = "useIdentityGraph"
    <2>1. query \in DOMAIN Cache!GraphKeys /\ Cache!GraphKeys[query] = <<"identity", "graph">>
      BY <1>12 DEF Cache!GraphKeys
    <2>2. /\ mutation \in DOMAIN Cache!GraphMutations
          /\ Cache!GraphMutations[mutation] = {<<"identity">>}
      BY <1>12 DEF Cache!GraphMutations
    <2>3. Cache!IsPrefix(<<"identity">>, Cache!GraphKeys[query])
      BY <2>1 DEF Cache!IsPrefix
    <2> QED
      BY <2>1, <2>2, <2>3, PrefixInvalidates DEF Cache!KeyTables, Cache!MutationTables
  <1> QED
    BY <1>2, <1>3, <1>4, <1>5, <1>6, <1>7, <1>8, <1>9, <1>10, <1>11, <1>12

\* Versions are numbers, which no data is not; and only the page that is followed moves.
CacheTyped ==
  /\ version \in Nat /\ answer \in Nat /\ cached \in Nat \cup {NoData}
  /\ isInvalidated \in BOOLEAN /\ missed \in BOOLEAN
  /\ isInvalidated => cached # NoData /\ home = "cache"

\* A change that the server has made and the page has not been told of.
Untold == request = "served" /\ Cache!Touches

\* What is cached, or on its way, is current, or is going to be fetched again.
CacheCurrent ==
  missed \/ Cache!LeftAlone(mutation, query) \/
    /\ fetching = "read" => answer = version \/ Untold
    /\ cached # NoData => cached = version \/ isInvalidated \/ fetching # Cache!Idle \/ Untold
    /\ Cache!Open /\ isInvalidated => fetching # Cache!Idle

\* The inductive invariant of the cache.
CacheInv == CacheTyped /\ CacheCurrent

\* The steps of the page.
LEMMA CacheNextStep == CacheInv /\ home = "cache" /\ UNCHANGED home /\ Cache!Next => CacheInv'
  <1> SUFFICES ASSUME CacheTyped, CacheCurrent, home = "cache", home' = home, Cache!Next
               PROVE  CacheTyped' /\ CacheCurrent'
    BY DEF CacheInv
  <1>1. query' = query /\ mutation' = mutation
    BY DEF Cache!Next, Cache!Mount, Cache!Unmount, Cache!Age, Cache!Collect, Cache!Tick,
           Cache!ServeFetch, Cache!Fetched, Cache!FetchFails, Cache!Mutate,
           Cache!ServeMutation, Cache!Succeeded, Cache!Failed
  <1>2. /\ Cache!Touches' = Cache!Touches
        /\ Cache!LeftAlone(mutation, query)' = Cache!LeftAlone(mutation, query)
    BY <1>1 DEF Cache!Touches, Cache!LeftAlone
  <1>3. CASE Cache!Mount \/ Cache!Tick
    <2>1. CASE fetching' = Cache!Sent /\ missed' = FALSE
      <3>1. UNCHANGED <<version, cached, isInvalidated, answer>>
        BY <1>3 DEF Cache!Mount, Cache!Tick, Cache!cacheVars
      <3> QED
        BY <2>1, <3>1, Zenon DEF Cache!Idle, Cache!Sent, CacheTyped, CacheCurrent
    <2>2. CASE UNCHANGED <<fetching, missed>> /\ Cache!Mount
      BY <1>2, <2>2
      DEF Cache!Mount, Cache!StartFetch, Cache!cacheVars, Cache!Idle, Cache!Sent, CacheTyped,
          CacheCurrent, Untold
    <2> QED
      BY <1>3, <2>1, <2>2, Zenon DEF Cache!Mount, Cache!Tick, Cache!StartFetch
  <1>4. CASE Cache!Unmount \/ Cache!Age \/ Cache!Mutate
    BY <1>2, <1>4
    DEF Cache!Unmount, Cache!Age, Cache!Mutate, Cache!cacheVars, Cache!Idle, Cache!Sent,
        Cache!Open, CacheTyped, CacheCurrent, Untold
  <1>5. CASE Cache!Collect
    BY <1>2, <1>5, Zenon DEF Cache!Collect, Cache!Idle, CacheTyped, CacheCurrent
  <1>6. CASE Cache!ServeFetch
    BY <1>2, <1>6 DEF Cache!ServeFetch, Cache!cacheVars, Cache!Idle, CacheTyped, CacheCurrent
  <1>7. CASE Cache!Fetched
    BY <1>2, <1>7, Zenon DEF Cache!Fetched, Cache!Idle, CacheTyped, CacheCurrent, Untold
  <1>8. CASE Cache!FetchFails \/ Cache!Failed
    <2>1. missed' = TRUE /\ UNCHANGED <<version, cached, isInvalidated, answer>>
      BY <1>8 DEF Cache!FetchFails, Cache!Failed, Cache!cacheVars
    <2> QED
      BY <2>1 DEF CacheTyped, CacheCurrent
  <1>9. CASE Cache!ServeMutation
    BY <1>2, <1>9
    DEF Cache!ServeMutation, Cache!cacheVars, Cache!Sent, Cache!Open, CacheTyped, CacheCurrent,
        Untold
  <1>10. CASE Cache!Succeeded
    <2>1. /\ request = "served" /\ request' = Cache!Idle
          /\ UNCHANGED <<route, version, cached, answer>>
      BY <1>10 DEF Cache!Succeeded
    <2>2. CASE ~Cache!IsInvalidated
      <3>1. UNCHANGED <<isInvalidated, fetching, missed>>
        BY <1>10, <2>2 DEF Cache!Succeeded
      <3>2. ~Cache!Touches \/ Cache!LeftAlone(mutation, query)
        BY <2>2, ChangedIsInvalidated
      <3> QED
        BY <1>2, <2>1, <3>1, <3>2 DEF CacheTyped, CacheCurrent, Untold, Cache!Open
    <2>3. CASE Cache!IsInvalidated
      <3>1. isInvalidated' = (cached # NoData)
        BY <1>10, <2>3 DEF Cache!Succeeded
      <3>2. CacheTyped'
        BY <1>10, <2>1, <2>3, <3>1, Zenon DEF Cache!Succeeded, Cache!StartFetch, CacheTyped
      <3>3. CASE Cache!MustRefetch
        <4>1. fetching' = Cache!Sent
          BY <1>10, <2>3, <3>3 DEF Cache!Succeeded, Cache!StartFetch
        <4> QED
          BY <3>2, <4>1 DEF CacheCurrent, Cache!Sent, Cache!Idle
      <3>4. CASE ~Cache!MustRefetch
        <4>1. /\ missed' = (missed \/ (fetching # Cache!Idle /\ (cached = NoData \/ ~Cache!Active)))
              /\ UNCHANGED fetching
          BY <1>10, <2>3, <3>4 DEF Cache!Succeeded
        <4>2. ~missed' => ~Cache!Open /\ fetching = Cache!Idle
          BY <3>4, <4>1, Zenon DEF Cache!MustRefetch, Cache!Active
        <4> QED
          BY <2>1, <3>1, <3>2, <4>1, <4>2, Zenon DEF CacheCurrent, Cache!Idle, Cache!Open
      <3> QED
        BY <3>3, <3>4
    <2> QED
      BY <2>2, <2>3
  <1> QED
    BY <1>3, <1>4, <1>5, <1>6, <1>7, <1>8, <1>9, <1>10 DEF Cache!Next

\* No step of the cache, or of another page, disturbs it.
LEMMA CacheStep == CacheInv /\ [Next]_allVars => CacheInv'
  <1> SUFFICES ASSUME CacheInv, [Next]_allVars PROVE CacheInv'
    OBVIOUS
  <1>1. CASE home = "cache" /\ UNCHANGED home /\ Cache!Next
    BY <1>1, CacheNextStep
  <1>2. CASE UNCHANGED <<home, cacheVars>> /\ (home # "cache" \/ UNCHANGED route)
    <2>1. UNCHANGED <<query, mutation, version, cached, isInvalidated, fetching, answer,
                      request, missed>>
      BY <1>2 DEF cacheVars
    <2>2. CacheTyped'
      BY <1>2, <2>1 DEF CacheInv, CacheTyped
    <2>3. CacheCurrent'
      BY <1>2, <2>1
      DEF CacheInv, CacheTyped, CacheCurrent, Untold, Cache!Touches, Cache!LeftAlone, Cache!Open
    <2> QED
      BY <2>2, <2>3 DEF CacheInv
  <1> QED
    BY <1>1, <1>2 DEF Next, Follows, allVars

\* It holds when the pages open.
LEMMA CacheInitial == Init => CacheInv
  <1> SUFFICES ASSUME Init PROVE CacheInv
    OBVIOUS
  <1>1. /\ version = 0 /\ answer = 0 /\ cached = NoData /\ isInvalidated = FALSE
        /\ missed = FALSE /\ fetching = Cache!Idle
    BY DEF Init, Cache!PageInit
  <1> QED
    BY <1>1, Zenon DEF Cache!Idle, CacheInv, CacheTyped, CacheCurrent

\* Once nothing is under way, a page shows the data as it is after the user's own changes,
\* for every query and mutation of the tables but the pairs of LeftAlone, and whatever of
\* fetch, click, answer and change of page overtook each other.
THEOREM SettledPageIsCurrentAmongPages == Spec => []SettledPageIsCurrent
  <1>1. CacheInv => SettledPageIsCurrent
    BY DEF CacheInv, CacheTyped, CacheCurrent, Untold, SettledPageIsCurrent,
           Cache!SettledPageIsCurrent, Cache!Idle
  <1> QED
    BY CacheInitial, <1>1, CacheStep, PTL DEF Spec

-----------------------------------------------------------------------------
(* The types of the pages' variables. *)

\* The telemetry's variables keep their types.
LEMMA TelemetryTyped == Telemetry!TypeOK /\ Telemetry!Next => Telemetry!TypeOK'
  <1> SUFFICES ASSUME Telemetry!TypeOK, Telemetry!Next PROVE Telemetry!TypeOK'
    OBVIOUS
  <1> DEFINE answered == {"none", "pending", "solved", "skipped"}
             known == Telemetry!JobStatus \cup {Telemetry!Absent}
  <1>1. /\ job \in [Jobs -> known] /\ captcha \in [Jobs -> answered]
        /\ shown \in [status : [Jobs -> known], captcha : SUBSET Jobs]
        /\ click \in {Telemetry!NoClick} \cup ({"cancel", "manual_done", "skip"} \X Jobs)
    BY DEF Telemetry!TypeOK
  <1>2. {"pending", "running", "completed", "partial", "timed_out", "cancelled",
         "waiting_captcha"} \subseteq known
    BY DEF Telemetry!JobStatus, Telemetry!ActiveJob, Telemetry!WaitingJob,
           Telemetry!TerminalJob
  <1> HIDE DEF known, answered
  <1>3. {"pending", "solved", "skipped"} \subseteq answered
    BY DEF answered
  <1>4. CASE Telemetry!Poll
    BY <1>1, <1>4
    DEF Telemetry!Poll, Telemetry!Answer, Telemetry!TypeOK, known, answered
  <1>5. CASE Telemetry!Serve
    <2>1. click' = Telemetry!NoClick /\ UNCHANGED shown
      BY <1>5 DEF Telemetry!Serve
    <2>2. click[2] \in Jobs
      BY <1>1, <1>5 DEF Telemetry!Serve
    <2>3. CASE Telemetry!CancelJob(click[2])
      <3>1. job' \in [Jobs -> known] /\ UNCHANGED captcha
        BY <1>1, <1>2, <2>2, <2>3 DEF Telemetry!CancelJob
      <3> QED
        BY <1>1, <2>1, <3>1 DEF Telemetry!TypeOK, known, answered
    <2>4. CASE Telemetry!SkipCaptcha(click[2])
      <3>1. captcha' \in [Jobs -> answered] /\ UNCHANGED job
        BY <1>1, <1>3, <2>2, <2>4 DEF Telemetry!SkipCaptcha
      <3> QED
        BY <1>1, <2>1, <3>1 DEF Telemetry!TypeOK, known, answered
    <2>5. CASE Telemetry!SolveCaptcha(click[2])
      <3>1. job' \in [Jobs -> known] /\ captcha' \in [Jobs -> answered]
        BY <1>1, <1>2, <1>3, <2>2, <2>5 DEF Telemetry!SolveCaptcha
      <3> QED
        BY <1>1, <2>1, <3>1 DEF Telemetry!TypeOK, known, answered
    <2> QED
      BY <1>5, <2>3, <2>4, <2>5 DEF Telemetry!Serve
  <1>6. CASE Telemetry!Leave \/ Telemetry!Return
    BY <1>6 DEF Telemetry!Leave, Telemetry!Return, Telemetry!telemetryVars, Telemetry!TypeOK
  <1>7. ASSUME NEW j \in Jobs, Telemetry!Create(j) \/ Telemetry!Work(j)
        PROVE  Telemetry!TypeOK'
    <2>1. job' \in [Jobs -> known] /\ UNCHANGED <<captcha, shown, click>>
      BY <1>1, <1>2, <1>7 DEF Telemetry!Create, Telemetry!Work
    <2> QED
      BY <1>1, <2>1 DEF Telemetry!TypeOK, known, answered
  <1>8. ASSUME NEW j \in Jobs, Telemetry!AskCaptcha(j)
        PROVE  Telemetry!TypeOK'
    <2>1. job' \in [Jobs -> known] /\ captcha' \in [Jobs -> answered]
          /\ UNCHANGED <<shown, click>>
      BY <1>1, <1>2, <1>3, <1>8 DEF Telemetry!AskCaptcha
    <2> QED
      BY <1>1, <2>1 DEF Telemetry!TypeOK, known, answered
  <1>9. ASSUME NEW j \in Jobs, NEW kind \in {"cancel", "manual_done", "skip"},
               Telemetry!Click(kind, j)
        PROVE  Telemetry!TypeOK'
    <2>1. click' = <<kind, j>> /\ UNCHANGED <<job, captcha, shown>>
      BY <1>9 DEF Telemetry!Click
    <2> QED
      BY <1>1, <2>1 DEF Telemetry!TypeOK, known, answered
  <1> QED
    BY <1>4, <1>5, <1>6, <1>7, <1>8, <1>9 DEF Telemetry!Next

\* The drafts' variables keep their types.
LEMMA LegalTyped == Legal!TypeOK /\ Legal!Next => Legal!TypeOK'
  <1> SUFFICES ASSUME Legal!TypeOK, Legal!Next PROVE Legal!TypeOK'
    OBVIOUS
  <1>1. ASSUME NEW kind \in {"know", "complaint"}, Legal!Generate(kind) \/ Legal!Generated(kind)
        PROVE  Legal!TypeOK'
    <2>1. generating' \subseteq {"know", "complaint"}
      BY <1>1, Zenon DEF Legal!Generate, Legal!Generated, Legal!TypeOK
    <2>2. drafts' \in [Drafts -> {"none", "draft", "sent_marked"}]
      BY <1>1 DEF Legal!Generate, Legal!Generated, Legal!TypeOK
    <2> QED
      BY <1>1, <2>1, <2>2 DEF Legal!Generate, Legal!Generated, Legal!TypeOK
  <1>2. ASSUME NEW d \in Drafts, Legal!MarkSent(d) \/ Legal!ServeMark(d)
        PROVE  Legal!TypeOK'
    BY <1>2, Zenon DEF Legal!MarkSent, Legal!ServeMark, Legal!TypeOK
  <1>3. CASE Legal!Fill \/ Legal!FetchDrafts \/ Legal!Leave \/ Legal!Return
    BY <1>3, Zenon DEF Legal!Fill, Legal!FetchDrafts, Legal!Leave, Legal!Return, Legal!TypeOK
  <1> QED
    BY <1>1, <1>2, <1>3 DEF Legal!Next

\* The privacy page's variables keep their types.
LEMMA PrivacyTyped == Privacy!TypeOK /\ Privacy!Next => Privacy!TypeOK'
  <1> SUFFICES ASSUME Privacy!TypeOK, Privacy!Next PROVE Privacy!TypeOK'
    OBVIOUS
  <1>1. CASE Privacy!StartExport \/ Privacy!ExportAnswered
    BY <1>1
    DEF Privacy!StartExport, Privacy!ExportAnswered, Privacy!deletionVars, Privacy!TypeOK
  <1>2. CASE Privacy!FetchPackage \/ \E x \in Privacy!Exports : Privacy!PackageArrives(x)
    <2>1. package' \in [Privacy!Exports -> {"none", "fetching", "ready"}]
      BY <1>2 DEF Privacy!FetchPackage, Privacy!PackageArrives, Privacy!TypeOK
    <2> QED
      BY <1>2, <2>1
      DEF Privacy!FetchPackage, Privacy!PackageArrives, Privacy!deletionVars, Privacy!TypeOK
  <1>3. CASE Privacy!Download
    BY <1>3 DEF Privacy!Download, Privacy!PackageShown, Privacy!deletionVars, Privacy!TypeOK
  <1>4. CASE Privacy!TypePhrase \/ Privacy!OpenDialog \/ Privacy!AbortDialog
             \/ Privacy!ConfirmDeletion
    BY <1>4, Zenon
    DEF Privacy!TypePhrase, Privacy!OpenDialog, Privacy!AbortDialog, Privacy!ConfirmDeletion,
        Privacy!exportVars, Privacy!TypeOK
  <1>5. CASE Privacy!DeletionAnswered
    <2>1. deletions' \in 0 .. MaxDeletions /\ showDeleteModal' \in BOOLEAN
      <3>1. CASE UNCHANGED <<deletions, showDeleteModal>>
        BY <3>1 DEF Privacy!TypeOK
      <3>2. CASE deletions < MaxDeletions /\ deletions' = deletions + 1 /\ showDeleteModal' = FALSE
        <4>1. deletions \in 0 .. MaxDeletions /\ MaxDeletions \in Nat
          BY PrivacyBoundsAssumption DEF Privacy!BoundsAssumption, Privacy!TypeOK
        <4>2. deletions' \in 0 .. MaxDeletions
          BY <3>2, <4>1
        <4>3. showDeleteModal' \in BOOLEAN
          BY <3>2, Zenon
        <4> QED
          BY <4>2, <4>3
      <3> QED
        BY <1>5, <3>1, <3>2, Zenon DEF Privacy!DeletionAnswered, Privacy!Schedules
    <2> QED
      BY <1>5, <2>1 DEF Privacy!DeletionAnswered, Privacy!exportVars, Privacy!TypeOK
  <1>6. CASE Privacy!Leave
    BY <1>6 DEF Privacy!Leave, Privacy!exportVars, Privacy!deletionVars, Privacy!TypeOK
  <1>7. CASE Privacy!Return
    <2>1. Privacy!Idle \in [at : {"idle", "pending", "success", "error"},
                            id : Privacy!Exports \cup {Privacy!NoExport}]
      BY DEF Privacy!Idle
    <2> QED
      BY <1>7, <2>1, Zenon DEF Privacy!Return, Privacy!TypeOK
  <1> QED
    BY <1>1, <1>2, <1>3, <1>4, <1>5, <1>6, <1>7 DEF Privacy!Next

\* The consent center's variables keep their types.
LEMMA ConsentTypes == Consent!TypeOK /\ Consent!Next => Consent!TypeOK'
  <1> SUFFICES ASSUME Consent!TypeOK, Consent!Next PROVE Consent!TypeOK'
    OBVIOUS
  <1>1. ASSUME NEW p \in Purposes, NEW d \in {"grant", "revoke"}, Consent!Ask(d, p)
        PROVE  Consent!TypeOK'
    <2>1. decided' \in [Purposes -> {"none", "grant", "revoke"}]
      BY <1>1 DEF Consent!Ask, Consent!TypeOK
    <2>2. asked' \subseteq
            [decision : {"grant", "revoke"}, purpose : Purposes, seen : BOOLEAN]
      <3>1. asked' = asked \cup {[decision |-> d, purpose |-> p, seen |-> TRUE]}
        BY <1>1 DEF Consent!Ask
      <3>2. [decision |-> d, purpose |-> p, seen |-> TRUE] \in
              [decision : {"grant", "revoke"}, purpose : Purposes, seen : BOOLEAN]
        OBVIOUS
      <3> QED
        BY <3>1, <3>2, Zenon DEF Consent!TypeOK
    <2> QED
      BY <1>1, <2>1, <2>2 DEF Consent!Ask, Consent!TypeOK
  <1>2. ASSUME NEW a \in asked, Consent!ServeConsent(a)
        PROVE  Consent!TypeOK'
    <2>1. a.purpose \in Purposes
      BY DEF Consent!TypeOK
    <2>2. /\ consents' \in [Purposes -> 0 .. MaxConsents] /\ unsure' \subseteq Purposes
          /\ regranted' \subseteq regranted
      BY <1>2, <2>1, ConsentMaxConsentsAssumption
      DEF Consent!ServeConsent, Consent!Revoked, Consent!TypeOK, Consent!MaxConsentsAssumption
    <2> QED
      BY <1>2, <2>2 DEF Consent!ServeConsent, Consent!TypeOK
  <1>3. CASE Consent!FetchLedger \/ Consent!Return
    BY <1>3 DEF Consent!FetchLedger, Consent!Return, Consent!TypeOK
  <1>4. CASE Consent!Leave
    <2>1. \A a \in [decision : {"grant", "revoke"}, purpose : Purposes, seen : BOOLEAN] :
            [a EXCEPT !.seen = FALSE] \in
              [decision : {"grant", "revoke"}, purpose : Purposes, seen : BOOLEAN]
      BY Zenon
    <2>2. asked' \subseteq
            [decision : {"grant", "revoke"}, purpose : Purposes, seen : BOOLEAN]
      BY <1>4, <2>1 DEF Consent!Leave, Consent!TypeOK
    <2> QED
      BY <1>4, <2>2 DEF Consent!Leave, Consent!TypeOK
  <1>5. ASSUME NEW p \in SelfGranted, Consent!EnsureConsent(p) \/ Consent!CommitGrant(p)
        PROVE  Consent!TypeOK'
    <2>1. p \in Purposes
      BY ConsentSelfGrantedAssumption DEF Consent!SelfGrantedAssumption
    <2>2. consents' \in [Purposes -> 0 .. MaxConsents]
      BY <1>5, <2>1, ConsentMaxConsentsAssumption
      DEF Consent!EnsureConsent, Consent!CommitGrant, Consent!TypeOK,
          Consent!MaxConsentsAssumption
    <2> QED
      BY <1>5, <2>2 DEF Consent!EnsureConsent, Consent!CommitGrant, Consent!TypeOK
  <1> QED
    BY <1>1, <1>2, <1>3, <1>4, <1>5 DEF Consent!Next, Consent!Grant, Consent!Revoke

\* The form's variables keep their types, and its requests can be counted.
LEMMA FormTyped ==
  ASSUME Form!TypeOK, IsFiniteSet(requests), Form!Next
  PROVE  Form!TypeOK' /\ IsFiniteSet(requests')
  <1>1. CASE Form!ServeCreate
    <2>1. PICK layer \in create, ok \in BOOLEAN :
            requests' = requests \cup {[n |-> Form!Cardinality(requests), layer |-> layer,
                                        ok |-> ok]}
      BY <1>1, Zenon DEF Form!ServeCreate
    <2>2. Cardinality(requests) \in Nat /\ Form!Cardinality(requests) = Cardinality(requests)
      BY FS_CardinalityType, Zenon DEF Form!Cardinality, Cardinality
    <2>3. Form!Cardinality(requests) \in 0 .. MaxRequests
      BY <1>1, <2>2, FormMaxRequestsAssumption
      DEF Form!ServeCreate, Form!MaxRequestsAssumption
    <2>4. requests' \subseteq [n : 0 .. MaxRequests, layer : Form!Layers, ok : BOOLEAN]
      BY <2>1, <2>3 DEF Form!TypeOK
    <2>5. IsFiniteSet(requests')
      BY <2>1, FS_AddElement, Zenon
    <2>6. notice' \in {"none", "granted", "error"}
      BY <1>1 DEF Form!ServeCreate, Form!TypeOK
    <2> QED
      BY <1>1, <2>4, <2>5, <2>6 DEF Form!ServeCreate, Form!TypeOK
  <1>2. CASE \E layer \in Form!Layers : Form!ChooseLayer(layer)
    BY <1>2 DEF Form!ChooseLayer, Form!serverVars, Form!TypeOK
  <1>3. CASE Form!ChooseIdentifier \/ Form!FetchConsents
    BY <1>3, Zenon
    DEF Form!ChooseIdentifier, Form!FetchConsents, Form!serverVars, Form!formVars, Form!TypeOK
  <1>4. CASE Form!GrantAmberConsent
    BY <1>4
    DEF Form!GrantAmberConsent, Form!ConsentPurpose, Form!ConsentPurposes, Form!Layers,
        Form!serverVars, Form!formVars, Form!TypeOK
  <1>5. CASE Form!Granted
    BY <1>5 DEF Form!Granted, Form!TypeOK
  <1>6. CASE Form!StartScan
    BY <1>6 DEF Form!StartScan, Form!serverVars, Form!TypeOK
  <1>7. CASE Form!Elsewhere
    <2>1. anyVerified' \in BOOLEAN /\ granted' \subseteq Form!ConsentPurposes
          /\ everGranted' \subseteq Form!ConsentPurposes
      BY <1>7, Zenon DEF Form!Elsewhere, Form!TypeOK
    <2> QED
      BY <1>7, <2>1 DEF Form!Elsewhere, Form!formVars, Form!TypeOK
  <1>8. CASE Form!Leave \/ Form!Return
    BY <1>8, Zenon
    DEF Form!Leave, Form!Return, Form!Layers, Form!serverVars, Form!formVars, Form!TypeOK
  <1> QED
    BY <1>1, <1>2, <1>3, <1>4, <1>5, <1>6, <1>7, <1>8 DEF Form!Next

\* What remains of a sequence without its n-th element: those before keep their place,
\* those after come one place forward.
Remains(r, s, n) ==
  /\ \A m \in DOMAIN s : m < n => m \in DOMAIN r /\ r[m] = s[m]
  /\ \A m \in DOMAIN s : m > n => m - 1 \in DOMAIN r /\ r[m - 1] = s[m]

\* An element is taken out of a sequence by joining what comes before and after it.
LEMMA WithoutOne ==
  ASSUME NEW S, NEW s \in Seq(S), NEW n \in DOMAIN s
  PROVE  \A r : r = SubSeq(s, 1, n - 1) \o SubSeq(s, n + 1, Len(s)) =>
           r \in Seq(S) /\ Remains(r, s, n)
  <1> DEFINE front == SubSeq(s, 1, n - 1)
             back == SubSeq(s, n + 1, Len(s))
             r == front \o back
  <1> HIDE DEF r
  <1> SUFFICES /\ r \in Seq(S)
               /\ \A m \in DOMAIN s : m < n => m \in DOMAIN r /\ r[m] = s[m]
               /\ \A m \in DOMAIN s : m > n => m - 1 \in DOMAIN r /\ r[m - 1] = s[m]
    BY Zenon DEF r, Remains
  <1>1. n \in 1 .. Len(s) /\ Len(s) \in Nat /\ DOMAIN s = 1 .. Len(s)
    OBVIOUS
  <1>2. /\ front \in Seq(S) /\ Len(front) = n - 1
        /\ \A m \in 1 .. n - 1 : front[m] = s[m]
    <2>1. \A i \in 1 .. n - 1 : s[i] \in S
      BY <1>1
    <2>2. /\ front \in Seq(S) /\ Len(front) = (IF 1 <= n - 1 THEN (n - 1) - 1 + 1 ELSE 0)
          /\ \A i \in 1 .. (n - 1) - 1 + 1 : front[i] = s[1 + i - 1]
      BY <1>1, <2>1, SubSeqProperties
    <2> QED
      BY <1>1, <2>2
  <1>3. /\ back \in Seq(S) /\ Len(back) = Len(s) - n
        /\ \A m \in 1 .. Len(s) - n : back[m] = s[n + m]
    <2>1. \A i \in n + 1 .. Len(s) : s[i] \in S
      BY <1>1
    <2>2. /\ back \in Seq(S)
          /\ Len(back) = (IF n + 1 <= Len(s) THEN Len(s) - (n + 1) + 1 ELSE 0)
          /\ \A i \in 1 .. Len(s) - (n + 1) + 1 : back[i] = s[(n + 1) + i - 1]
      BY <1>1, <2>1, SubSeqProperties
    <2> QED
      BY <1>1, <2>2
  <1>4. r = front \o back
    BY DEF r
  <1> HIDE DEF front, back
  <1>5. /\ r \in Seq(S) /\ Len(r) = Len(front) + Len(back)
        /\ \A m \in 1 .. Len(front) + Len(back) :
             r[m] = IF m <= Len(front) THEN front[m] ELSE back[m - Len(front)]
    <2>1. /\ front \o back \in Seq(S) /\ Len(front \o back) = Len(front) + Len(back)
          /\ \A m \in 1 .. Len(front) + Len(back) :
               (front \o back)[m] = IF m <= Len(front) THEN front[m] ELSE back[m - Len(front)]
      BY <1>2, <1>3, ConcatProperties, Zenon
    <2> QED
      BY <1>4, <2>1
  <1>6. DOMAIN r = 1 .. Len(s) - 1
    <2>1. Len(front) + Len(back) = Len(s) - 1
      BY <1>1, <1>2, <1>3
    <2>2. DOMAIN r = 1 .. Len(r)
      BY <1>5
    <2> QED
      BY <1>5, <2>1, <2>2
  <1>7. ASSUME NEW m \in DOMAIN s, m < n
        PROVE  m \in DOMAIN r /\ r[m] = s[m]
    <2>1. m \in 1 .. n - 1 /\ m \in 1 .. Len(s) - 1 /\ m <= n - 1
      BY <1>1, <1>7
    <2>2. r[m] = front[m]
      BY <1>1, <1>2, <1>3, <1>5, <2>1
    <2> QED
      BY <1>2, <1>6, <2>1, <2>2
  <1>8. ASSUME NEW m \in DOMAIN s, m > n
        PROVE  m - 1 \in DOMAIN r /\ r[m - 1] = s[m]
    <2>1. /\ m - n \in 1 .. Len(s) - n /\ m - 1 \in 1 .. Len(s) - 1 /\ ~(m - 1 <= n - 1)
          /\ (m - 1) - (n - 1) = m - n /\ n + (m - n) = m
      BY <1>1, <1>8
    <2>2. r[m - 1] = back[m - n]
      <3>1. /\ m - 1 \in 1 .. Len(front) + Len(back) /\ ~(m - 1 <= Len(front))
            /\ (m - 1) - Len(front) = m - n
        <4>1. Len(front) = n - 1 /\ Len(back) = Len(s) - n
          BY <1>2, <1>3
        <4>2. m \in Int /\ n \in Int /\ Len(s) \in Int
          BY <1>1
        <4> QED
          BY <2>1, <4>1, <4>2
      <3>2. r[m - 1] = back[(m - 1) - Len(front)]
        BY <1>5, <3>1
      <3> QED
        BY <3>1, <3>2
    <2>3. back[m - n] = s[m]
      BY <1>3, <2>1
    <2> QED
      BY <1>6, <2>1, <2>2, <2>3
  <1> QED
    BY <1>5, <1>7, <1>8

\* The variables of the review queue and of the timeline keep their types: what is waited
\* for is among what was posted.
LEMMA TemporalTyped == Temporal!TypeOK /\ Temporal!Next => Temporal!TypeOK'
  <1> SUFFICES ASSUME Temporal!TypeOK, Temporal!Next PROVE Temporal!TypeOK'
    OBVIOUS
  <1> DEFINE requested == [kind : Temporal!Kinds, id : SampleReviews]
             fields == PlainFields \cup DateFields
             ReviewOK == /\ statusFilter \in {"", "pending"} /\ openCard \subseteq SampleReviews
                         /\ choices \in [SampleReviews -> Temporal!Resolutions \cup
                                                            {Temporal!NoChoice}]
                         /\ blockedMessage \in BOOLEAN
             PostedOK == /\ posted \in Seq(requested) /\ newestWaits \in [Temporal!Kinds -> BOOLEAN]
                         /\ \A k \in Temporal!Kinds : newestWaits[k] =>
                              \E n \in DOMAIN posted : posted[n].kind = k
             TimelineOK == /\ timelineFilters \subseteq fields
                           /\ cursor \in BOOLEAN
                           /\ showAdvanced \in BOOLEAN /\ expandedEvents \subseteq SampleEvents
  <1>0. ReviewOK /\ PostedOK /\ TimelineOK
    BY Zenon DEF Temporal!TypeOK
  <1>q. ReviewOK' /\ PostedOK' /\ TimelineOK' => Temporal!TypeOK'
    BY Zenon DEF Temporal!TypeOK
  <1>1. ASSUME NEW i \in SampleReviews, NEW kind \in Temporal!Kinds, Temporal!Post(kind, i)
        PROVE  Temporal!TypeOK'
    <2>1. /\ posted' = Append(posted, [kind |-> kind, id |-> i])
          /\ newestWaits' = [newestWaits EXCEPT ![kind] = TRUE]
          /\ UNCHANGED <<statusFilter, choices, openCard, blockedMessage, timelineFilters, cursor,
                         showAdvanced, expandedEvents>>
      BY <1>1 DEF Temporal!Post, Temporal!timelineVars
    <2>2. ReviewOK' /\ TimelineOK'
      BY <1>0, <2>1, Zenon
    <2>3. posted \in Seq(requested) /\ [kind |-> kind, id |-> i] \in requested
      BY <1>0, Zenon
    <2> HIDE DEF requested
    <2>4. /\ posted' \in Seq(requested) /\ Len(posted') = Len(posted) + 1
          /\ \A m \in DOMAIN posted : m \in DOMAIN posted' /\ posted'[m] = posted[m]
          /\ Len(posted) + 1 \in DOMAIN posted'
          /\ posted'[Len(posted) + 1] = [kind |-> kind, id |-> i]
      BY <2>1, <2>3
    <2>5. newestWaits' \in [Temporal!Kinds -> BOOLEAN]
      BY <1>0, <2>1, Zenon
    <2>6. ASSUME NEW k \in Temporal!Kinds, newestWaits'[k]
          PROVE  \E m \in DOMAIN posted' : posted'[m].kind = k
      <3>1. CASE k = kind
        <4>1. posted'[Len(posted) + 1].kind = k
          BY <2>4, <3>1
        <4> QED
          BY <2>4, <4>1
      <3>2. CASE k # kind
        <4>1. newestWaits[k]
          BY <1>0, <2>1, <2>6, <3>2, Zenon
        <4>2. PICK m \in DOMAIN posted : posted[m].kind = k
          BY <1>0, <4>1, Zenon
        <4> QED
          BY <2>4, <4>2
      <3> QED
        BY <3>1, <3>2
    <2> QED
      BY <1>q, <2>2, <2>4, <2>5, <2>6, Zenon
  <1>2. ASSUME NEW n \in DOMAIN posted, Temporal!Refuse(n)
        PROVE  Temporal!TypeOK'
    <2> DEFINE kind == posted[n].kind
    <2>1. /\ posted' = Temporal!RemoveAt(posted, n)
          /\ newestWaits' = [newestWaits EXCEPT ![kind] = @ /\ Temporal!NewestRemains(n)]
          /\ blockedMessage' = (blockedMessage \/ (Temporal!OpenReview /\ kind = "revalidate"))
          /\ UNCHANGED <<statusFilter, choices, openCard, timelineFilters, cursor, showAdvanced,
                         expandedEvents>>
      BY <1>2 DEF Temporal!Refuse, Temporal!timelineVars
    <2>2. ReviewOK' /\ TimelineOK'
      <3>1. (blockedMessage \/ (Temporal!OpenReview /\ kind = "revalidate")) \in BOOLEAN
        OBVIOUS
      <3>2. blockedMessage' \in BOOLEAN
        BY <2>1, <3>1
      <3> QED
        BY <1>0, <2>1, <3>2, Zenon
    <2> HIDE DEF requested
    <2>3. posted \in Seq(requested)
      BY <1>0, Zenon
    <2>r. posted[n] \in requested
      BY <2>3
    <2>k. kind \in Temporal!Kinds
      BY <2>r DEF requested
    <2>4. /\ posted' \in Seq(requested)
          /\ \A m \in DOMAIN posted : m < n => m \in DOMAIN posted' /\ posted'[m] = posted[m]
          /\ \A m \in DOMAIN posted :
               m > n => m - 1 \in DOMAIN posted' /\ posted'[m - 1] = posted[m]
      <3>1. posted' = SubSeq(posted, 1, n - 1) \o SubSeq(posted, n + 1, Len(posted))
        BY <2>1 DEF Temporal!RemoveAt
      <3>2. posted' \in Seq(requested) /\ Remains(posted', posted, n)
        BY <2>3, <3>1, WithoutOne, Zenon
      <3> QED
        BY <3>2 DEF Remains
    <2>5. newestWaits' \in [Temporal!Kinds -> BOOLEAN]
      <3>1. (newestWaits[kind] /\ Temporal!NewestRemains(n)) \in BOOLEAN
        OBVIOUS
      <3> QED
        BY <1>0, <2>1, <2>k, <3>1, Zenon
    <2>6. ASSUME NEW k \in Temporal!Kinds, newestWaits'[k]
          PROVE  \E m \in DOMAIN posted' : posted'[m].kind = k
      <3>1. PICK m \in DOMAIN posted : posted[m].kind = k /\ m # n
        <4>1. CASE k = kind
          <5>1. Temporal!NewestRemains(n)
            BY <1>0, <2>1, <2>6, <4>1, Zenon
          <5>2. PICK m \in DOMAIN posted : m > n /\ posted[m].kind = kind
            BY <5>1 DEF Temporal!NewestRemains
          <5> QED
            BY <2>3, <4>1, <5>2
        <4>2. CASE k # kind
          <5>1. newestWaits[k]
            BY <1>0, <2>1, <2>6, <4>2, Zenon
          <5>2. PICK m \in DOMAIN posted : posted[m].kind = k
            BY <1>0, <5>1, Zenon
          <5> QED
            BY <4>2, <5>2
        <4> QED
          BY <4>1, <4>2
      <3>2. m < n \/ m > n
        BY <2>3, <3>1
      <3> QED
        BY <2>4, <3>1, <3>2
    <2> QED
      BY <1>q, <2>2, <2>4, <2>5, <2>6, Zenon
  <1>3. CASE \/ \E status \in {"", "pending"} : Temporal!SetStatusFilter(status)
             \/ \E i \in SampleReviews :
                  \/ Temporal!ExpandReview(i)
                  \/ \E resolution \in Temporal!Resolutions :
                       Temporal!SelectResolution(i, resolution)
             \/ Temporal!DismissMessage \/ Temporal!LeaveReview
    <2>1. UNCHANGED <<posted, newestWaits, timelineFilters, cursor, showAdvanced, expandedEvents>>
      BY <1>3, Zenon
      DEF Temporal!SetStatusFilter, Temporal!ExpandReview, Temporal!SelectResolution,
          Temporal!DismissMessage, Temporal!LeaveReview, Temporal!timelineVars
    <2>2. ReviewOK'
      BY <1>0, <1>3, Zenon
      DEF Temporal!SetStatusFilter, Temporal!ExpandReview, Temporal!SelectResolution,
          Temporal!DismissMessage, Temporal!LeaveReview
    <2>3. PostedOK' /\ TimelineOK'
      BY <1>0, <2>1, Zenon
    <2> QED
      BY <1>q, <2>2, <2>3, Zenon
  <1>4. CASE \/ \E field \in PlainFields \cup DateFields : Temporal!SetField(field)
             \/ Temporal!ResetFilters \/ Temporal!ToggleAdvanced \/ Temporal!NextPage
             \/ Temporal!FirstPage \/ Temporal!LeaveTimeline \/ Temporal!Return
             \/ \E e \in SampleEvents : Temporal!ExpandEvent(e)
    <2>1. UNCHANGED <<statusFilter, choices, openCard, posted, newestWaits, blockedMessage>>
      BY <1>4, Zenon
      DEF Temporal!SetField, Temporal!ResetFilters, Temporal!ToggleAdvanced, Temporal!NextPage,
          Temporal!FirstPage, Temporal!LeaveTimeline, Temporal!Return, Temporal!ExpandEvent,
          Temporal!reviewVars
    <2>2. TimelineOK'
      BY <1>0, <1>4, Zenon
      DEF Temporal!SetField, Temporal!ResetFilters, Temporal!ToggleAdvanced, Temporal!NextPage,
          Temporal!FirstPage, Temporal!LeaveTimeline, Temporal!Return, Temporal!ExpandEvent,
          Temporal!FiltersSet, Temporal!timelineVars
    <2>3. ReviewOK' /\ PostedOK'
      BY <1>0, <2>1, Zenon
    <2> QED
      BY <1>q, <2>2, <2>3, Zenon
  <1> QED
    BY <1>1, <1>2, <1>3, <1>4, Zenon DEF Temporal!Next

\* A set of positions of a list that is not empty has at least one member.
LEMMA PositionsCount ==
  ASSUME rawFindings \in Seq(Findings), NEW S \in SUBSET DOMAIN rawFindings, S # {}
  PROVE  Triage!Cardinality(S) \in Nat \ {0}
  <1>1. Triage!Cardinality(S) = Cardinality(S)
    BY DEF Triage!Cardinality, Cardinality
  <1>2. DOMAIN rawFindings = 1 .. Len(rawFindings) /\ Len(rawFindings) \in Nat
    OBVIOUS
  <1>3. IsFiniteSet(DOMAIN rawFindings)
    BY <1>2, FS_Interval
  <1>4. IsFiniteSet(S)
    BY <1>3, FS_Subset
  <1> QED
    BY <1>1, <1>4, FS_CardinalityType, FS_EmptySet

\* The variables of the findings page keep their types.
LEMMA TriageTyped == Triage!TypeOK /\ Triage!Next => Triage!TypeOK'
  <1> SUFFICES ASSUME Triage!TypeOK, Triage!Next PROVE Triage!TypeOK'
    OBVIOUS
  <1> DEFINE ListsOK == observed \in Seq(Findings) /\ rawFindings \in Seq(Findings)
             FiltersOK == /\ searchQuery \in BOOLEAN /\ selectedSeverity \in BOOLEAN
                          /\ selectedLayer \in BOOLEAN
             RowOK == selectedIndex \in Nat \ {0} /\ expandedId \in Findings \cup {NoFinding}
             TabsOK == /\ activeTab \in {"findings", "candidates"}
                       /\ demoCandidateStatus \in {"unreviewed", "confirmed", "dismissed"}
  <1>1. ListsOK /\ FiltersOK /\ RowOK /\ TabsOK
    BY DEF Triage!TypeOK
  <1>2. ListsOK' /\ FiltersOK' /\ RowOK' /\ TabsOK' => Triage!TypeOK'
    BY DEF Triage!TypeOK
  <1>3. /\ Triage!FilteredFindings \subseteq DOMAIN rawFindings
        /\ \A i \in Triage!FilteredFindings : rawFindings[i] \in Findings /\ i \in Nat
    <2>1. Triage!FilteredFindings \subseteq DOMAIN rawFindings
      BY DEF Triage!FilteredFindings
    <2>2. \A i \in DOMAIN rawFindings : rawFindings[i] \in Findings /\ i \in Nat
      <3>1. rawFindings \in Seq(Findings)
        BY <1>1
      <3> QED
        BY <3>1
    <2> QED
      BY <2>1, <2>2
  <1> HIDE DEF ListsOK, FiltersOK, RowOK, TabsOK
  <1>4. CASE Triage!SetFilter \/ Triage!ResetFilters
    <2>1. UNCHANGED <<observed, rawFindings, selectedIndex, expandedId, activeTab,
                      demoCandidateStatus>>
      BY <1>4 DEF Triage!SetFilter, Triage!ResetFilters, Triage!lists, Triage!rowVars
    <2>2. FiltersOK'
      BY <1>1, <1>4, Zenon DEF FiltersOK, Triage!SetFilter, Triage!ResetFilters
    <2> QED
      BY <1>1, <1>2, <2>1, <2>2 DEF ListsOK, RowOK, TabsOK
  <1>5. CASE \/ Triage!KeyDown \/ Triage!KeyUp \/ Triage!KeyInspect \/ Triage!KeyEscape
             \/ \E i \in Triage!FilteredFindings : Triage!Click(i)
    <2>1. UNCHANGED <<observed, rawFindings, searchQuery, selectedSeverity, selectedLayer,
                      activeTab, demoCandidateStatus>>
      BY <1>5
      DEF Triage!KeyDown, Triage!KeyUp, Triage!KeyInspect, Triage!KeyEscape, Triage!Click,
          Triage!lists, Triage!filters
    <2>2. RowOK'
      <3>1. CASE Triage!KeyDown
        <4> DEFINE last == IF Triage!FilteredFindings = {} THEN 1
                           ELSE Triage!Cardinality(Triage!FilteredFindings)
        <4>1. last \in Nat \ {0}
          BY <1>1, <1>3, PositionsCount DEF ListsOK
        <4>2. /\ selectedIndex' = IF selectedIndex < last THEN selectedIndex + 1 ELSE last
              /\ UNCHANGED expandedId
          BY <3>1 DEF Triage!KeyDown
        <4> HIDE DEF last
        <4> QED
          BY <1>1, <4>1, <4>2 DEF RowOK
      <3>2. CASE Triage!KeyUp
        BY <1>1, <3>2 DEF RowOK, Triage!KeyUp
      <3>3. CASE Triage!KeyInspect
        BY <1>1, <1>3, <3>3 DEF RowOK, Triage!KeyInspect, Triage!Toggled
      <3>4. CASE Triage!KeyEscape
        BY <1>1, <3>4 DEF RowOK, Triage!KeyEscape
      <3>5. ASSUME NEW i \in Triage!FilteredFindings, Triage!Click(i)
            PROVE  RowOK'
        <4> DEFINE above == {k \in Triage!FilteredFindings : k <= i}
        <4>1. Triage!Cardinality(above) \in Nat \ {0}
          <5>1. i \in above
            BY <1>3
          <5>2. above \in SUBSET DOMAIN rawFindings /\ above # {}
            BY <1>3, <5>1
          <5> HIDE DEF above
          <5> QED
            BY <1>1, <5>2, PositionsCount DEF ListsOK
        <4>2. \/ selectedIndex' = Triage!Cardinality(above) /\ UNCHANGED expandedId
              \/ /\ expandedId' =
                      IF expandedId = rawFindings[i] THEN NoFinding ELSE rawFindings[i]
                 /\ UNCHANGED selectedIndex
          BY <3>5 DEF Triage!Click, Triage!Row, Triage!Toggled
        <4> HIDE DEF above
        <4> QED
          BY <1>1, <1>3, <4>1, <4>2 DEF RowOK
      <3> QED
        BY <1>5, <3>1, <3>2, <3>3, <3>4, <3>5
    <2> QED
      BY <1>1, <1>2, <2>1, <2>2 DEF ListsOK, FiltersOK, TabsOK
  <1>6. CASE Triage!SwitchTab \/ \E status \in {"confirmed", "dismissed"} : Triage!Triage(status)
    <2>1. UNCHANGED <<observed, rawFindings, searchQuery, selectedSeverity, selectedLayer,
                      selectedIndex, expandedId>>
      BY <1>6 DEF Triage!SwitchTab, Triage!Triage, Triage!lists, Triage!filters, Triage!rowVars
    <2>2. TabsOK'
      BY <1>1, <1>6 DEF TabsOK, Triage!SwitchTab, Triage!Triage
    <2> QED
      BY <1>1, <1>2, <2>1, <2>2 DEF ListsOK, FiltersOK, RowOK
  <1>7. ASSUME NEW f \in Findings, Triage!Observe(f)
        PROVE  Triage!TypeOK'
    <2>1. UNCHANGED <<rawFindings, searchQuery, selectedSeverity, selectedLayer, selectedIndex,
                      expandedId, activeTab, demoCandidateStatus>>
      BY <1>7 DEF Triage!Observe, Triage!filters, Triage!rowVars
    <2>2. PICK rest \in Seq(Findings) : observed' = <<f>> \o rest
      <3>1. observed \in Seq(Findings)
        BY <1>1 DEF ListsOK
      <3>2. \A i \in DOMAIN observed : Triage!RemoveAt(observed, i) \in Seq(Findings)
        BY <3>1, WithoutOne DEF Triage!RemoveAt
      <3> QED
        BY <1>7, <3>1, <3>2, Zenon DEF Triage!Observe
    <2>3. <<f>> \in Seq(Findings)
      OBVIOUS
    <2>4. <<f>> \o rest \in Seq(Findings)
      BY <2>3, ConcatProperties
    <2>5. ListsOK'
      BY <1>1, <2>1, <2>2, <2>4 DEF ListsOK
    <2> QED
      BY <1>1, <1>2, <2>1, <2>5 DEF FiltersOK, RowOK, TabsOK
  <1>8. CASE Triage!FetchFindings
    <2>1. UNCHANGED <<observed, searchQuery, selectedSeverity, selectedLayer, selectedIndex,
                      expandedId, activeTab, demoCandidateStatus>> /\ rawFindings' = observed
      BY <1>8 DEF Triage!FetchFindings, Triage!filters, Triage!rowVars
    <2> QED
      BY <1>1, <1>2, <2>1 DEF ListsOK, FiltersOK, RowOK, TabsOK
  <1>9. CASE Triage!Leave
    <2>1. UNCHANGED <<observed, rawFindings, searchQuery, selectedSeverity, selectedLayer,
                      selectedIndex, expandedId, activeTab, demoCandidateStatus>>
      BY <1>9 DEF Triage!Leave, Triage!lists, Triage!filters, Triage!rowVars
    <2> QED
      BY <1>1, <1>2, <2>1 DEF ListsOK, FiltersOK, RowOK, TabsOK
  <1>10. CASE Triage!Return
    <2>1. /\ searchQuery' = FALSE /\ selectedSeverity' = FALSE /\ selectedLayer' = FALSE
          /\ selectedIndex' = 1 /\ expandedId' = NoFinding
          /\ activeTab' = "findings" /\ demoCandidateStatus' = "unreviewed"
          /\ UNCHANGED <<observed, rawFindings>>
      BY <1>10 DEF Triage!Return, Triage!lists
    <2>2. FiltersOK'
      BY <2>1, Zenon DEF FiltersOK
    <2>3. ListsOK' /\ RowOK' /\ TabsOK'
      BY <1>1, <2>1 DEF ListsOK, RowOK, TabsOK
    <2> QED
      BY <1>2, <2>2, <2>3
  <1> QED
    BY <1>4, <1>5, <1>6, <1>7, <1>8, <1>9, <1>10 DEF Triage!Next

\* No more plans are generated than there may be.
PlanBounded == Len(plans) <= MaxPlans

\* With it the invariant of the recommendations page gives the types of its variables.
LEMMA PlanTypes == PlanInv /\ PlanBounded => Plan!TypeOK
  <1> SUFFICES ASSUME PlanNumbered, PlanMarked, PlanBounded PROVE Plan!TypeOK
    BY DEF PlanInv
  <1>1. \A n : n = 0 \/ n \in DOMAIN plans => n \in 0 .. MaxPlans
    <2>1. DOMAIN plans = 1 .. Len(plans) /\ Len(plans) \in Nat
      BY DEF PlanNumbered
    <2> QED
      BY <2>1, PlanMaxPlansAssumption DEF PlanBounded, Plan!MaxPlansAssumption
  <1>2. \A c \in [n : Nat, status : [Recs -> Plan!RecStatus]] :
          c.n \in 0 .. MaxPlans => c \in Plan!PlanCopy
    BY DEF Plan!PlanCopy
  <1>3. planShown \in [PlanScopes -> Plan!PlanCopy]
    <2>1. \A s \in PlanScopes : planShown[s] \in Plan!PlanCopy
      BY <1>1, <1>2 DEF PlanNumbered
    <2> QED
      BY <2>1 DEF PlanNumbered
  <1>4. planFetch \subseteq [scope : PlanScopes, plan : Plan!PlanCopy]
    <2>1. ASSUME NEW f \in planFetch
          PROVE  f \in [scope : PlanScopes, plan : Plan!PlanCopy]
      <3>1. /\ f \in [scope : PlanScopes, plan : [n : Nat, status : [Recs -> Plan!RecStatus]]]
            /\ f.plan.n \in 0 .. MaxPlans
        BY <1>1 DEF PlanNumbered
      <3>2. f.plan \in Plan!PlanCopy
        BY <1>2, <3>1
      <3> QED
        BY <3>1, <3>2
    <2> QED
      BY <2>1
  <1>5. update \in [Plan!Visits -> [n : 0 .. MaxPlans, rec : Recs, status : Plan!RecStatus]]
    <2>1. ASSUME NEW v \in Plan!Visits
          PROVE  update[v] \in [n : 0 .. MaxPlans, rec : Recs, status : Plan!RecStatus]
      <3>1. update[v] \in PlanUpdate /\ update[v].n \in 0 .. MaxPlans
        BY <1>1 DEF PlanMarked
      <3> QED
        BY <3>1 DEF PlanUpdate
    <2> QED
      BY <2>1 DEF PlanMarked
  <1>6. plans \in Seq([scope : PlanScopes, status : [Recs -> Plan!RecStatus]])
    BY DEF PlanNumbered, PlanRow
  <1>7. scopeId \in PlanScopes /\ generate \in [Plan!Visits -> SUBSET PlanScopes]
    BY DEF PlanNumbered
  <1> QED
    BY <1>3, <1>4, <1>5, <1>6, <1>7 DEF Plan!TypeOK, PlanBounded

\* The steps of the recommendations page keep to the bound.
LEMMA PlanBoundStep == PlanInv /\ PlanBounded /\ Plan!Next => PlanBounded'
  <1> SUFFICES ASSUME PlanNumbered, PlanMarked, PlanBounded, Plan!Next PROVE PlanBounded'
    BY DEF PlanInv
  <1>1. CASE UNCHANGED plans
    BY <1>1 DEF PlanBounded
  <1>2. ASSUME NEW v \in Plan!Visits, Plan!ServeGenerate(v)
        PROVE  PlanBounded'
    <2>1. \/ UNCHANGED plans
          \/ /\ Len(plans) < MaxPlans
             /\ \E s \in generate[v] :
                  plans' = Append(plans, [scope |-> s, status |-> [r \in Recs |-> "open"]])
      BY <1>2, Zenon DEF Plan!ServeGenerate
    <2>2. ASSUME NEW row, Len(plans) < MaxPlans, plans' = Append(plans, row)
          PROVE  PlanBounded'
      <3>1. Len(plans) \in Nat /\ Len(plans') = Len(plans) + 1
        BY <2>2 DEF PlanNumbered
      <3> QED
        BY <2>2, <3>1, PlanMaxPlansAssumption DEF PlanBounded, Plan!MaxPlansAssumption
    <2> QED
      BY <1>1, <2>1, <2>2, Zenon
  <1>3. ASSUME NEW v \in Plan!Visits, Plan!ServeUpdate(v)
        PROVE  PlanBounded'
    <2>1. CASE plans' = Plan!Updated(update[v])
      <3>1. DOMAIN plans' = DOMAIN plans /\ DOMAIN plans = 1 .. Len(plans) /\ Len(plans) \in Nat
        BY <2>1 DEF PlanNumbered, Plan!Updated
      <3>2. PlanNumbered'
        BY PlanNextStep DEF PlanInv
      <3>3. DOMAIN plans' = 1 .. Len(plans') /\ Len(plans') \in Nat
        BY <3>2 DEF PlanNumbered
      <3> QED
        BY <3>1, <3>3 DEF PlanBounded
    <2> QED
      BY <1>1, <1>3, <2>1 DEF Plan!ServeUpdate
  <1> QED
    BY <1>1, <1>2, <1>3
    DEF Plan!Next, Plan!SelectScope, Plan!Fetch, Plan!Receive, Plan!Generate,
        Plan!GenerateFirst, Plan!Mark, Plan!Leave, Plan!Return

\* No more scores are stored than there may be; a simulated score is one of them.
ScoresBounded ==
  /\ Len(snapshots) <= MaxSnapshots
  /\ result \in 0 .. MaxSnapshots /\ briefing \subseteq Scopes

\* With it the invariant of the scores page gives the types of its variables.
LEMMA ScoresTypes == ScoresInv /\ ScoresBounded => Scores!TypeOK
  <1> SUFFICES ASSUME ScoresNumbered, ScoresOfScope, ScoresBounded PROVE Scores!TypeOK
    BY DEF ScoresInv
  <1>1. \A n, s : StoredFor(n, s) => n \in 0 .. MaxSnapshots
    <2>1. DOMAIN snapshots = 1 .. Len(snapshots) /\ Len(snapshots) \in Nat
      BY DEF ScoresNumbered
    <2> QED
      BY <2>1, ScoresMaxSnapshotsAssumption
      DEF StoredFor, ScoresBounded, Scores!MaxSnapshotsAssumption
  <1>2. scoreShown \in [Scopes -> 0 .. MaxSnapshots]
    BY <1>1 DEF ScoresOfScope
  <1>3. scoreFetch \subseteq [scope : Scopes, n : 0 .. MaxSnapshots]
    BY <1>1 DEF ScoresOfScope
  <1>4. snapshots \in Seq([scope : Scopes, without : SUBSET Findings])
    BY DEF ScoresNumbered, ScoreRow
  <1>5. /\ scoreScope \in Scopes /\ selected \subseteq Findings
        /\ scoreAsked \subseteq [kind : {"manual", "whatif", "briefing"}, scope : Scopes,
                                 without : SUBSET Findings, seen : BOOLEAN]
    BY DEF ScoresNumbered, ScoreRequest
  <1> QED
    BY <1>2, <1>3, <1>4, <1>5 DEF Scores!TypeOK, ScoresBounded

\* The steps of the scores page keep to the bound.
LEMMA ScoresBoundStep == ScoresInv /\ ScoresBounded /\ Scores!Next => ScoresBounded'
  <1> SUFFICES ASSUME ScoresNumbered, ScoresBounded, Scores!Next PROVE ScoresBounded'
    BY DEF ScoresInv
  <1>0. MaxSnapshots \in Nat /\ 0 \in 0 .. MaxSnapshots
    BY ScoresMaxSnapshotsAssumption DEF Scores!MaxSnapshotsAssumption
  <1>1. ASSUME UNCHANGED snapshots, result' \in {0, result}, briefing' \in {{}, briefing}
        PROVE  ScoresBounded'
    BY <1>0, <1>1 DEF ScoresBounded
  <1>2. ASSUME NEW a \in scoreAsked, Scores!ServeScore(a)
        PROVE  ScoresBounded'
    <2>1. a.scope \in Scopes
      BY DEF ScoresNumbered, ScoreRequest
    <2>2. CASE UNCHANGED <<snapshots, result>>
      <3>1. briefing' \in {{a.scope}, briefing}
        BY <1>2 DEF Scores!ServeScore
      <3> QED
        BY <2>1, <2>2, <3>1 DEF ScoresBounded
    <2>3. ASSUME NEW row, Len(snapshots) < MaxSnapshots, snapshots' = Append(snapshots, row),
                 result' \in {Len(snapshots'), result}, UNCHANGED briefing
          PROVE  ScoresBounded'
      <3>1. Len(snapshots) \in Nat /\ Len(snapshots') = Len(snapshots) + 1
        BY <2>3 DEF ScoresNumbered
      <3> QED
        BY <1>0, <2>3, <3>1 DEF ScoresBounded
    <2> QED
      BY <1>2, <2>2, <2>3 DEF Scores!ServeScore
  <1>3. ASSUME ~\E a \in scoreAsked : Scores!ServeScore(a)
        PROVE  UNCHANGED snapshots /\ result' \in {0, result} /\ briefing' \in {{}, briefing}
    BY <1>3
    DEF Scores!Next, Scores!SelectScore, Scores!FetchScore, Scores!ReceiveScore,
        Scores!Recompute, Scores!Toggle, Scores!Simulate, Scores!Reset, Scores!Generate,
        Scores!Leave, Scores!Return, Scores!studioVars
  <1> QED
    BY <1>1, <1>2, <1>3

\* An interval from 1 tells its end.
LEMMA SameInterval ==
  ASSUME NEW m \in Nat, NEW n \in Nat, 1 .. m = 1 .. n
  PROVE  m = n
  <1>1. m = 0 \/ m \in 1 .. n
    OBVIOUS
  <1>2. n = 0 \/ n \in 1 .. m
    OBVIOUS
  <1> QED
    BY <1>1, <1>2

\* No more challenges are issued than there may be, and the one that is confirmed is one of
\* them, also when it has been answered.
IdentifiersBounded ==
  /\ Len(issued) <= MaxChallenges
  /\ confirming.ch \in 0 .. Len(issued)
  /\ listed \in [Ids -> {"absent", "unverified", "verified"}] /\ deleting \subseteq Ids

\* With it the invariant of the identifiers page gives the types of its variables.
LEMMA IdentifiersTypes == IdentifiersInv /\ IdentifiersBounded => Identifiers!TypeOK
  <1> SUFFICES ASSUME IdentifiersProofs!Known, IdentifiersBounded PROVE Identifiers!TypeOK
    BY DEF IdentifiersInv
  <1>1. Len(issued) \in Nat /\ \A n \in 0 .. Len(issued) : n \in 0 .. MaxChallenges
    BY IdentifiersMaxChallengesAssumption
    DEF IdentifiersProofs!Known, IdentifiersBounded, Identifiers!MaxChallengesAssumption
  <1>2. /\ \A s \in starting : s.got \in 0 .. MaxChallenges
        /\ challenge.ch \in 0 .. MaxChallenges /\ code \in 0 .. MaxChallenges
        /\ confirming.ch \in 0 .. MaxChallenges /\ confirming.code \in 0 .. MaxChallenges
    BY <1>1
    DEF IdentifiersProofs!Known, IdentifiersProofs!IsRead, IdentifiersProofs!Challenges,
        IdentifiersProofs!NoChallenge, IdentifiersProofs!NoCard, IdentifiersBounded
  <1>3. /\ starting \subseteq [ident : Ids, got : 0 .. MaxChallenges]
        /\ confirming \in [at : {"idle", "sent", "done", "refused"},
                           ident : Ids \cup {"none"}, ch : 0 .. MaxChallenges,
                           code : 0 .. MaxChallenges]
    BY <1>2 DEF IdentifiersProofs!Known, IdentifiersProofs!Confirmation
  <1>5. challenge \in [ident : Ids \cup {"none"}, ch : 0 .. MaxChallenges]
    BY <1>2 DEF IdentifiersProofs!Known, IdentifiersProofs!NoCard
  <1>4. /\ ids \in [Ids -> {"absent", "unverified", "verified"}]
        /\ issued \in Seq([ident : Ids, state : {"live", "used", "expired", "gone"},
                        exposed : BOOLEAN])
    BY DEF IdentifiersProofs!Known, IdentifiersProofs!Challenge
  <1> QED
    BY <1>2, <1>3, <1>4, <1>5 DEF Identifiers!TypeOK, IdentifiersBounded

\* The steps of the identifiers page keep to the bound.
LEMMA IdentifiersBoundStep ==
  IdentifiersInv /\ IdentifiersInv' /\ IdentifiersBounded /\ Identifiers!Next =>
    IdentifiersBounded'
  <1> SUFFICES ASSUME IdentifiersProofs!Known, IdentifiersProofs!Known', IdentifiersBounded,
                      Identifiers!Next
               PROVE  IdentifiersBounded'
    BY DEF IdentifiersInv
  <1>1. /\ DOMAIN issued = 1 .. Len(issued) /\ Len(issued) \in Nat
        /\ DOMAIN issued' = 1 .. Len(issued') /\ Len(issued') \in Nat
        /\ challenge.ch \in 0 .. Len(issued) /\ 0 \in 0 .. Len(issued)
    BY DEF IdentifiersProofs!Known, IdentifiersProofs!Challenges,
           IdentifiersProofs!NoChallenge, IdentifiersProofs!NoCard
  <1>2. confirming'.ch \in {confirming.ch, challenge.ch, 0}
    <2>1. confirming \in IdentifiersProofs!Confirmation
      BY DEF IdentifiersProofs!Known
    <2>2. CASE Identifiers!Confirm
      BY <2>2 DEF Identifiers!Confirm
    <2>3. CASE Identifiers!ServeConfirm
      <3>1. \E at \in {"done", "refused"} : confirming' = [confirming EXCEPT !.at = at]
        BY <2>3 DEF Identifiers!ServeConfirm
      <3> QED
        BY <2>1, <3>1 DEF IdentifiersProofs!Confirmation
    <2>4. CASE Identifiers!Confirmed
      BY <2>4 DEF Identifiers!Confirmed, Identifiers!NoConfirm, Identifiers!NoChallenge
    <2> QED
      BY <2>2, <2>3, <2>4, Zenon
      DEF Identifiers!Next, Identifiers!Add, Identifiers!StartVerify, Identifiers!Delete,
          Identifiers!ServeDelete, Identifiers!ServeStart, Identifiers!Started,
          Identifiers!TypeCode, Identifiers!Lapse, Identifiers!FetchList,
          Identifiers!CancelCard, Identifiers!Leave, Identifiers!Return
  <1>3. /\ listed' \in [Ids -> {"absent", "unverified", "verified"}]
        /\ deleting' \subseteq Ids
    BY Zenon DEF IdentifiersBounded, IdentifiersProofs!Known,
           Identifiers!Next, Identifiers!Add, Identifiers!StartVerify, Identifiers!Delete,
           Identifiers!ServeDelete, Identifiers!ServeStart, Identifiers!Started,
           Identifiers!TypeCode, Identifiers!Lapse, Identifiers!FetchList,
           Identifiers!CancelCard, Identifiers!Confirm, Identifiers!ServeConfirm,
           Identifiers!Confirmed, Identifiers!Leave, Identifiers!Return
  <1>4. ASSUME Len(issued') = Len(issued)
        PROVE  IdentifiersBounded'
    BY <1>1, <1>2, <1>3, <1>4 DEF IdentifiersBounded
  <1>5. CASE UNCHANGED issued
    BY <1>4, <1>5
  <1>6. ASSUME NEW s \in starting, Identifiers!ServeStart(s)
        PROVE  IdentifiersBounded'
    <2>1. ASSUME NEW row, issued' = Append(issued, row), Len(issued) < MaxChallenges
          PROVE  IdentifiersBounded'
      <3>1. Len(issued') = Len(issued) + 1
        BY <2>1 DEF IdentifiersProofs!Known
      <3>2. Len(issued') <= MaxChallenges /\ confirming'.ch \in 0 .. Len(issued')
        BY <1>1, <1>2, <2>1, <3>1, IdentifiersMaxChallengesAssumption
        DEF IdentifiersBounded, Identifiers!MaxChallengesAssumption
      <3> QED
        BY <1>3, <3>2 DEF IdentifiersBounded
    <2> QED
      BY <1>5, <1>6, <2>1 DEF Identifiers!ServeStart
  <1>7. ASSUME \/ Identifiers!ServeConfirm
               \/ \E i \in Ids : Identifiers!ServeDelete(i)
               \/ \E c \in Identifiers!Challenges : Identifiers!Lapse(c)
        PROVE  IdentifiersBounded'
    <2>1. DOMAIN issued' = DOMAIN issued
      <3>1. CASE Identifiers!ServeConfirm
        <4>1. issued' = issued \/ issued' = [issued EXCEPT ![confirming.ch].state = "used"]
          BY <3>1 DEF Identifiers!ServeConfirm
        <4> QED
          BY <1>1, <4>1, Zenon
      <3>2. CASE \E i \in Ids : Identifiers!ServeDelete(i)
        BY <1>1, <3>2
        DEF Identifiers!ServeDelete, Identifiers!Orphaned, Identifiers!Challenges
      <3>3. CASE \E c \in Identifiers!Challenges : Identifiers!Lapse(c)
        <4>1. PICK c \in Identifiers!Challenges :
                issued' = [issued EXCEPT ![c].state = "expired"]
          BY <3>3, Zenon DEF Identifiers!Lapse
        <4> QED
          BY <1>1, <4>1
      <3> QED
        BY <1>7, <3>1, <3>2, <3>3
    <2>2. Len(issued') = Len(issued)
      <3>1. /\ Len(issued) \in Nat /\ Len(issued') \in Nat
            /\ 1 .. Len(issued) = 1 .. Len(issued')
        BY <1>1, <2>1, Zenon
      <3> QED
        BY <3>1, SameInterval
    <2> QED
      BY <1>4, <2>2
  <1> QED
    BY <1>5, <1>6, <1>7
    DEF Identifiers!Next, Identifiers!Add, Identifiers!StartVerify, Identifiers!Delete,
        Identifiers!Started, Identifiers!TypeCode, Identifiers!FetchList,
        Identifiers!CancelCard, Identifiers!Confirm, Identifiers!Confirmed,
        Identifiers!Leave, Identifiers!Return

\* What a card or a detail page may show.
ShownCard == [id : Live!Scans \cup {Live!NoScan}, status : ScanStatus \cup {"none"}]

\* What the page keeps besides; an open detail page is about a scan.
LiveTyped ==
  /\ creating \subseteq {"here", "gone"} /\ slipped \in BOOLEAN
  /\ revived \subseteq Live!Scans
  /\ effect \in ShownCard /\ detail \in ShownCard
  /\ home = "live" /\ route = "detail" => detail.id \in Live!Scans

\* The card shows nothing, or one of the scans.
LEMMA LiveShowsAScan == LiveInv => live \in ShownCard
  <1> SUFFICES ASSUME LiveInv PROVE live \in ShownCard
    OBVIOUS
  <1>1. live \in Card /\ (live = Live!NoCard \/ live.id \in Live!Scans)
    BY DEF LiveInv, LiveFollows, Existing
  <1> QED
    BY <1>1 DEF Card, ShownCard, Live!NoCard

\* With it the invariant of the live card gives the types of its variables.
LEMMA LiveTypes == LiveInv /\ LiveTyped => Live!TypeOK
  <1> SUFFICES ASSUME LiveInv, LiveTyped PROVE Live!TypeOK
    OBVIOUS
  <1>1. scan \in [Live!Scans -> {"absent", "queued", "running"} \cup Live!Ended]
    BY DEF LiveInv, ScansNumbered, ScanStatus
  <1>2. cancelling \subseteq Live!Scans /\ taken \subseteq Live!Scans /\ streams \subseteq Stream
    BY DEF LiveInv, LiveFollows, Existing
  <1>3. ScanStatus \cup {"none"} = {"none", "absent", "queued", "running"} \cup Live!Ended
    BY DEF ScanStatus
  <1>4. {"absent", "queued", "running"} \cup Live!Ended \subseteq
          ({"none", "absent", "queued", "running"} \cup Live!Ended) \ {"none"}
    BY DEF Live!Ended
  <1>5. scan \in [Live!Scans ->
                    ({"none", "absent", "queued", "running"} \cup Live!Ended) \ {"none"}]
    BY <1>1, <1>4
  <1> QED
    BY <1>2, <1>3, <1>5, LiveShowsAScan DEF Live!TypeOK, LiveTyped, ShownCard, Stream

\* The steps of the page keep it.
LEMMA LiveTypedStep ==
  ASSUME LiveInv, LiveTyped, home = "live", UNCHANGED home, Live!Next
  PROVE  LiveTyped'
  <1>1. Live!NoCard \in ShownCard /\ Live!NoCard = Live!NoCard'
    BY DEF Live!NoCard, ShownCard
  <1>2. ShownCard' = ShownCard
    BY DEF ShownCard, ScanStatus, Live!Scans
  <1>3. CASE Live!StartScan \/ Live!Cancel
    BY <1>2, <1>3, Zenon DEF Live!StartScan, Live!Cancel, LiveTyped
  <1>4. CASE Live!Created
    <2>1. creating' = {} /\ UNCHANGED <<route, effect, revived, detail>>
      BY <1>4 DEF Live!Created
    <2>2. slipped' = FALSE \/ slipped' = slipped
      BY <1>4 DEF Live!Created
    <2> QED
      BY <1>2, <2>1, <2>2, Zenon DEF LiveTyped
  <1>5. CASE Live!Effect
    <2>1. effect' = live /\ UNCHANGED <<route, creating, slipped, revived, detail>>
      BY <1>5 DEF Live!Effect
    <2> QED
      BY <1>2, <2>1, LiveShowsAScan DEF LiveTyped
  <1>6. CASE Live!Back
    <2>1. route' = "scans" /\ detail' = Live!NoCard
          /\ UNCHANGED <<creating, effect, slipped, revived>>
      BY <1>6 DEF Live!Back
    <2> QED
      BY <1>1, <1>2, <2>1 DEF LiveTyped
  <1>7. CASE Live!Poll
    <2>1. route = "detail" /\ detail' = [detail EXCEPT !.status = scan[detail.id]]
          /\ UNCHANGED <<route, creating, effect, slipped, revived>>
      BY <1>7 DEF Live!Poll
    <2>2. scan[detail.id] \in ScanStatus
      BY <2>1 DEF LiveTyped, LiveInv, ScansNumbered
    <2>3. detail' \in ShownCard /\ detail'.id = detail.id
      BY <2>1, <2>2 DEF LiveTyped, ShownCard
    <2> QED
      BY <1>2, <2>1, <2>3 DEF LiveTyped
  <1>8. ASSUME NEW n \in Live!Scans,
               Live!Take(n) \/ Live!Start(n) \/ Live!Work(n) \/ Live!ServeCancel(n)
        PROVE  LiveTyped'
    <2>1. revived' = revived \/ revived' = revived \cup {n}
      BY <1>8 DEF Live!Take, Live!Start, Live!Work, Live!ServeCancel
    <2>2. revived' \subseteq Live!Scans /\ Live!Scans' = Live!Scans
      BY <2>1 DEF LiveTyped, Live!Scans
    <2>3. UNCHANGED <<route, creating, effect, slipped, detail>>
      BY <1>8 DEF Live!Take, Live!Start, Live!Work, Live!ServeCancel
    <2> QED
      BY <1>2, <2>2, <2>3 DEF LiveTyped
  <1>9. ASSUME NEW n \in Live!Scans, Live!OpenDetail(n)
        PROVE  LiveTyped'
    <2>1. /\ detail' = [id |-> n, status |-> "none"] /\ effect' = Live!NoCard
          /\ slipped' = FALSE /\ creating' = {"gone" : c \in creating}
          /\ UNCHANGED revived
      BY <1>9 DEF Live!OpenDetail
    <2>2. detail' \in ShownCard /\ detail'.id \in Live!Scans
      BY <2>1 DEF ShownCard
    <2> QED
      BY <1>1, <1>2, <2>1, <2>2, Zenon DEF LiveTyped, Live!Scans
  <1>10. ASSUME NEW s \in streams, Live!ServeStream(s) \/ Live!StreamFails(s)
         PROVE  LiveTyped'
    BY <1>2, <1>10 DEF Live!ServeStream, Live!StreamFails, LiveTyped
  <1>11. ASSUME NEW s \in streams, Live!StreamEvent(s)
         PROVE  LiveTyped'
    <2>1. UNCHANGED <<route, creating, effect, revived, detail>>
          /\ slipped' = (slipped \/ (s.of # live.id /\ effect.id # live.id))
      BY <1>11 DEF Live!StreamEvent
    <2>2. (slipped \/ (s.of # live.id /\ effect.id # live.id)) \in BOOLEAN
      OBVIOUS
    <2>3. slipped' \in BOOLEAN
      BY <2>1, <2>2
    <2> QED
      BY <1>2, <2>1, <2>3 DEF LiveTyped
  <1> QED
    BY <1>3, <1>4, <1>5, <1>6, <1>7, <1>8, <1>9, <1>10, <1>11 DEF Live!Next

\* The versions stay below their bound: a mutation that is sent has one left.
CacheBounded ==
  /\ query \in Cache!Queries /\ mutation \in Cache!Mutations /\ isStale \in BOOLEAN
  /\ fetching \in {Cache!Idle, Cache!Sent, "read"}
  /\ request \in {Cache!Idle, Cache!Sent, "served"}
  /\ version \in 0 .. MaxVersion /\ answer \in 0 .. MaxVersion
  /\ cached \in (0 .. MaxVersion) \cup {NoData}
  /\ request = Cache!Sent => version < MaxVersion

\* With it the invariant of the cache gives the types of its variables.
LEMMA CacheTypes == CacheInv /\ CacheBounded => Cache!TypeOK
BY DEF CacheInv, CacheTyped, CacheBounded, Cache!TypeOK

\* The steps of the cache keep it.
LEMMA CacheBoundStep ==
  ASSUME CacheBounded, Cache!Next
  PROVE  CacheBounded'
  <1>1. query' = query /\ mutation' = mutation
    BY DEF Cache!Next, Cache!Mount, Cache!Unmount, Cache!Age, Cache!Collect, Cache!Tick,
           Cache!ServeFetch, Cache!Fetched, Cache!FetchFails, Cache!Mutate,
           Cache!ServeMutation, Cache!Succeeded, Cache!Failed
  <1>2. query' \in Cache!Queries /\ mutation' \in Cache!Mutations
    BY <1>1 DEF CacheBounded
  <1>3. Cache!Idle = "idle" /\ Cache!Sent = "sent"
    BY DEF Cache!Idle, Cache!Sent
  <1>4. CASE \/ Cache!Mount \/ Cache!Tick \/ Cache!Unmount \/ Cache!Age \/ Cache!Collect
             \/ Cache!ServeFetch \/ Cache!Fetched \/ Cache!FetchFails
    <2>1. UNCHANGED <<version, request>>
      BY <1>4
      DEF Cache!Mount, Cache!Tick, Cache!Unmount, Cache!Age, Cache!Collect, Cache!ServeFetch,
          Cache!Fetched, Cache!FetchFails
    <2>2. /\ isStale' \in {isStale, TRUE, FALSE}
          /\ fetching' \in {fetching, Cache!Idle, Cache!Sent, "read"}
          /\ answer' \in {answer, version} /\ cached' \in {cached, answer, NoData}
      BY <1>4, Zenon
      DEF Cache!Mount, Cache!Tick, Cache!Unmount, Cache!Age, Cache!Collect, Cache!ServeFetch,
          Cache!Fetched, Cache!FetchFails, Cache!StartFetch, Cache!cacheVars
    <2> QED
      BY <1>2, <2>1, <2>2, Zenon DEF CacheBounded
  <1>5. CASE Cache!Mutate
    BY <1>2, <1>5 DEF Cache!Mutate, Cache!cacheVars, CacheBounded
  <1>6. CASE Cache!ServeMutation
    <2>1. /\ version' \in {version, version + 1} /\ version < MaxVersion /\ request' = "served"
          /\ UNCHANGED <<isStale, fetching, answer, cached>>
      BY <1>6 DEF Cache!ServeMutation, Cache!cacheVars, CacheBounded
    <2>2. version' \in 0 .. MaxVersion
      BY <2>1, CacheMaxVersionAssumption DEF CacheBounded, Cache!MaxVersionAssumption
    <2> QED
      BY <1>2, <1>3, <2>1, <2>2 DEF CacheBounded
  <1>7. CASE Cache!Succeeded \/ Cache!Failed
    <2>1. /\ request' = Cache!Idle /\ fetching' \in {fetching, Cache!Sent}
          /\ UNCHANGED <<isStale, version, answer, cached>>
      BY <1>7 DEF Cache!Succeeded, Cache!Failed, Cache!StartFetch, Cache!cacheVars
    <2> QED
      BY <1>2, <1>3, <2>1 DEF CacheBounded
  <1> QED
    BY <1>4, <1>5, <1>6, <1>7 DEF Cache!Next

-----------------------------------------------------------------------------
(* The composition's type invariant: that of each page, under the steps of all. *)

\* The remediation studio.
LEMMA StudioTypesHold == Spec => []Studio!TypeOK
  <1>1. StudioInv => Studio!TypeOK
    BY DEF StudioInv, StudioProofs!TypeOK, Studio!TypeOK
  <1> QED
    BY StudioInitial, <1>1, StudioStep, PTL DEF Spec

\* The telemetry of the removal jobs.
LEMMA TelemetryTypesHold == Spec => []Telemetry!TypeOK
  <1>1. Init => Telemetry!TypeOK
    BY DEF Init, Telemetry!PageInit, Telemetry!TypeOK
  <1>2. Telemetry!TypeOK /\ [Next]_allVars => Telemetry!TypeOK'
    <2>1. Telemetry!TypeOK /\ UNCHANGED telemetryVars => Telemetry!TypeOK'
      BY DEF telemetryVars, Telemetry!TypeOK
    <2> QED
      BY <2>1, TelemetryTyped DEF Next, Follows, allVars
  <1> QED
    BY <1>1, <1>2, PTL DEF Spec

\* The freeze checklist.
LEMMA FreezeTypesHold == Spec => []Freeze!TypeOK
  <1>1. FreezeInv => Freeze!TypeOK
    BY DEF FreezeInv, FreezeProofs!TypeOK, Freeze!TypeOK, FreezeProofs!FreezeStatus,
           Freeze!FreezeStatus
  <1> QED
    BY FreezeInitial, <1>1, FreezeStep, PTL DEF Spec

\* The legal drafts.
LEMMA LegalTypesHold == Spec => []Legal!TypeOK
  <1>1. Init => Legal!TypeOK
    BY Zenon DEF Init, Legal!PageInit, Legal!TypeOK
  <1>2. Legal!TypeOK /\ [Next]_allVars => Legal!TypeOK'
    <2>1. Legal!TypeOK /\ UNCHANGED legalVars => Legal!TypeOK'
      BY DEF legalVars, Legal!TypeOK
    <2> QED
      BY <2>1, LegalTyped DEF Next, Follows, allVars
  <1> QED
    BY <1>1, <1>2, PTL DEF Spec

\* The privacy center.
LEMMA PrivacyTypesHold == Spec => []Privacy!TypeOK
  <1>1. Init => Privacy!TypeOK
    <2> SUFFICES ASSUME Init PROVE Privacy!TypeOK
      OBVIOUS
    <2>1. /\ createExport = Privacy!Idle /\ package = [x \in Privacy!Exports |-> "none"]
          /\ exports = {} /\ downloaded = Privacy!NoExport
          /\ deletion = "idle" /\ deletions = 0
      BY DEF Init, Privacy!PageInit
    <2>2. phraseTyped \in BOOLEAN /\ showDeleteModal \in BOOLEAN
      BY Zenon DEF Init, Privacy!PageInit
    <2>3. deletions \in 0 .. MaxDeletions
      BY <2>1, PrivacyBoundsAssumption DEF Privacy!BoundsAssumption
    <2> QED
      BY <2>1, <2>2, <2>3 DEF Privacy!TypeOK, Privacy!Idle
  <1>2. Privacy!TypeOK /\ [Next]_allVars => Privacy!TypeOK'
    <2>1. Privacy!TypeOK /\ UNCHANGED privacyVars => Privacy!TypeOK'
      BY DEF privacyVars, Privacy!TypeOK, Privacy!Exports
    <2> QED
      BY <2>1, PrivacyTyped DEF Next, Follows, allVars
  <1> QED
    BY <1>1, <1>2, PTL DEF Spec

\* The consent center.
LEMMA ConsentTypesHold == Spec => []Consent!TypeOK
  <1>1. Init => Consent!TypeOK
    BY ConsentMaxConsentsAssumption
    DEF Init, Consent!PageInit, Consent!TypeOK, Consent!MaxConsentsAssumption
  <1>2. Consent!TypeOK /\ [Next]_allVars => Consent!TypeOK'
    <2>1. Consent!TypeOK /\ UNCHANGED consentVars => Consent!TypeOK'
      BY DEF consentVars, Consent!TypeOK
    <2> QED
      BY <2>1, ConsentTypes DEF Next, Follows, allVars
  <1> QED
    BY <1>1, <1>2, PTL DEF Spec

\* The identifiers page.
LEMMA IdentifiersTypesHold == Spec => []Identifiers!TypeOK
  <1>1. Init => IdentifiersBounded
    <2> SUFFICES ASSUME Init PROVE IdentifiersBounded
      OBVIOUS
    <2>1. /\ issued = <<>> /\ listed = [i \in Ids |-> "absent"] /\ deleting = {}
          /\ confirming.ch = 0
      BY DEF Init, Identifiers!PageInit, Identifiers!NoConfirm, Identifiers!NoChallenge
    <2>2. Len(issued) = 0
      BY <2>1
    <2> QED
      BY <2>1, <2>2, IdentifiersMaxChallengesAssumption
      DEF IdentifiersBounded, Identifiers!MaxChallengesAssumption
  <1>2. IdentifiersInv /\ IdentifiersBounded /\ IdentifiersInv' /\ [Next]_allVars =>
          IdentifiersBounded'
    <2>1. IdentifiersBounded /\ UNCHANGED identifiersVars => IdentifiersBounded'
      BY DEF identifiersVars, IdentifiersBounded
    <2> QED
      BY <2>1, IdentifiersBoundStep DEF Next, Follows, allVars
  <1> QED
    BY IdentifiersInitial, IdentifiersStep, IdentifiersTypes, <1>1, <1>2, PTL DEF Spec

\* The findings page.
LEMMA TriageTypesHold == Spec => []Triage!TypeOK
  <1>1. Init => Triage!TypeOK
    <2> SUFFICES ASSUME Init PROVE Triage!TypeOK
      OBVIOUS
    <2>1. /\ observed = <<>> /\ rawFindings = <<>>
          /\ selectedIndex = 1 /\ expandedId = NoFinding
          /\ activeTab = "findings" /\ demoCandidateStatus = "unreviewed"
      BY DEF Init, Triage!PageInit
    <2>2. searchQuery \in BOOLEAN /\ selectedSeverity \in BOOLEAN /\ selectedLayer \in BOOLEAN
      BY Zenon DEF Init, Triage!PageInit
    <2> QED
      BY <2>1, <2>2 DEF Triage!TypeOK
  <1>2. Triage!TypeOK /\ [Next]_allVars => Triage!TypeOK'
    <2>1. Triage!TypeOK /\ UNCHANGED triageVars => Triage!TypeOK'
      BY DEF triageVars, Triage!TypeOK
    <2> QED
      BY <2>1, TriageTyped DEF Next, Follows, allVars
  <1> QED
    BY <1>1, <1>2, PTL DEF Spec

\* The recommendations page.
LEMMA PlanTypesHold == Spec => []Plan!TypeOK
  <1>1. Init => PlanBounded
    <2> SUFFICES ASSUME Init PROVE PlanBounded
      OBVIOUS
    <2>1. plans = <<>>
      BY DEF Init, Plan!PageInit
    <2>2. Len(plans) = 0
      BY <2>1
    <2> QED
      BY <2>2, PlanMaxPlansAssumption DEF PlanBounded, Plan!MaxPlansAssumption
  <1>2. PlanInv /\ PlanBounded /\ [Next]_allVars => PlanBounded'
    <2>1. PlanBounded /\ UNCHANGED planVars => PlanBounded'
      BY DEF planVars, PlanBounded
    <2> QED
      BY <2>1, PlanBoundStep DEF Next, Follows, allVars
  <1> QED
    BY PlanInitial, PlanStep, PlanTypes, <1>1, <1>2, PTL DEF Spec

\* The scan form.
LEMMA FormTypesHold == Spec => []Form!TypeOK
  <1> DEFINE Inv == Form!TypeOK /\ IsFiniteSet(requests)
  <1>1. Init => Inv
    <2> SUFFICES ASSUME Init PROVE Inv
      OBVIOUS
    <2>1. requests = {} /\ Form!TypeOK
      BY Zenon DEF Init, Form!PageInit, Form!TypeOK, Form!Layers
    <2> QED
      BY <2>1, FS_EmptySet
  <1>2. Inv /\ [Next]_allVars => Inv'
    <2>1. Inv /\ UNCHANGED formVars => Inv'
      BY DEF formVars, Form!TypeOK, Form!Layers
    <2> QED
      BY <2>1, FormTyped DEF Next, Follows, allVars
  <1>3. Inv => Form!TypeOK
    OBVIOUS
  <1> QED
    BY <1>1, <1>2, <1>3, PTL DEF Spec

\* The timeline and the review queue.
LEMMA TemporalTypesHold == Spec => []Temporal!TypeOK
  <1>1. Init => Temporal!TypeOK
    <2> SUFFICES ASSUME Init PROVE Temporal!TypeOK
      OBVIOUS
    <2>1. /\ statusFilter = "" /\ openCard = {} /\ timelineFilters = {} /\ expandedEvents = {}
          /\ choices = [i \in SampleReviews |-> Temporal!NoChoice] /\ posted = <<>>
      BY Zenon DEF Init, Temporal!PageInit
    <2>2. blockedMessage \in BOOLEAN /\ cursor \in BOOLEAN /\ showAdvanced \in BOOLEAN
      BY Zenon DEF Init, Temporal!PageInit
    <2>3. newestWaits = [k \in Temporal!Kinds |-> FALSE]
      BY Zenon DEF Init, Temporal!PageInit
    <2>4. posted \in Seq([kind : Temporal!Kinds, id : SampleReviews])
      <3> DEFINE requested == [kind : Temporal!Kinds, id : SampleReviews]
      <3> HIDE DEF requested
      <3>1. posted = <<>>
        BY <2>1, Zenon
      <3>2. posted \in Seq(requested)
        BY <3>1, EmptySeq
      <3> QED
        BY <3>2 DEF requested
    <2>5. /\ newestWaits \in [Temporal!Kinds -> BOOLEAN]
          /\ \A k \in Temporal!Kinds : ~newestWaits[k]
      BY <2>3
    <2> QED
      BY <2>1, <2>2, <2>4, <2>5, Zenon DEF Temporal!TypeOK
  <1>2. Temporal!TypeOK /\ [Next]_allVars => Temporal!TypeOK'
    <2>1. Temporal!TypeOK /\ UNCHANGED temporalVars => Temporal!TypeOK'
      BY Zenon DEF temporalVars, Temporal!TypeOK
    <2> QED
      BY <2>1, TemporalTyped DEF Next, Follows, allVars
  <1> QED
    BY <1>1, <1>2, PTL DEF Spec

\* The live card.
LEMMA LiveTypesHold == Spec => []Live!TypeOK
  <1>1. Init => LiveTyped
    <2> SUFFICES ASSUME Init PROVE LiveTyped
      OBVIOUS
    <2>1. /\ creating = {} /\ effect = Live!NoCard /\ slipped = FALSE /\ detail = Live!NoCard
          /\ revived = {}
          /\ home = "live" => route = "scans"
      BY DEF Init, Live!PageInit, Opening
    <2>2. Live!NoCard \in ShownCard
      BY DEF Live!NoCard, ShownCard
    <2> QED
      BY <2>1, <2>2, Zenon DEF LiveTyped
  <1>2. LiveInv /\ LiveTyped /\ [Next]_allVars => LiveTyped'
    <2> SUFFICES ASSUME LiveInv, LiveTyped, [Next]_allVars PROVE LiveTyped'
      OBVIOUS
    <2>1. CASE home = "live" /\ UNCHANGED home /\ Live!Next
      BY <2>1, LiveTypedStep
    <2>2. CASE UNCHANGED <<home, liveVars>> /\ (home # "live" \/ UNCHANGED route)
      BY <2>2 DEF liveVars, LiveTyped, ShownCard, ScanStatus, Live!Scans
    <2> QED
      BY <2>1, <2>2 DEF Next, Follows, allVars
  <1> QED
    BY LiveInitial, LiveStep, LiveTypes, <1>1, <1>2, PTL DEF Spec

\* The query cache.
LEMMA CacheTypesHold == Spec => []Cache!TypeOK
  <1>1. Init => CacheBounded
    <2> SUFFICES ASSUME Init PROVE CacheBounded
      OBVIOUS
    <2>1. "useMe" \in Cache!Queries
      BY DEF Cache!Queries, Cache!KeyTables, Cache!SessionKeys
    <2>2. "useLogin" \in Cache!Mutations
      BY DEF Cache!Mutations, Cache!MutationTables, Cache!SessionMutations
    <2>3. query \in Cache!Queries /\ mutation \in Cache!Mutations
      BY <2>1, <2>2 DEF Init
    <2>4. /\ version = 0 /\ answer = 0 /\ cached = NoData /\ isStale = TRUE
          /\ fetching = Cache!Idle /\ request = Cache!Idle
      BY DEF Init, Cache!PageInit
    <2> QED
      BY <2>3, <2>4, CacheMaxVersionAssumption
      DEF CacheBounded, Cache!MaxVersionAssumption, Cache!Idle, Cache!Sent
  <1>2. CacheBounded /\ [Next]_allVars => CacheBounded'
    <2>1. CacheBounded /\ UNCHANGED cacheVars => CacheBounded'
      BY DEF cacheVars, CacheBounded
    <2> QED
      BY <2>1, CacheBoundStep DEF Next, Follows, allVars
  <1> QED
    BY CacheInitial, CacheStep, CacheTypes, <1>1, <1>2, PTL DEF Spec

\* The scores page.
LEMMA ScoresTypesHold == Spec => []Scores!TypeOK
  <1>1. Init => ScoresBounded
    <2> SUFFICES ASSUME Init PROVE ScoresBounded
      OBVIOUS
    <2>1. snapshots = <<>> /\ result = 0 /\ briefing = {}
      BY DEF Init, Scores!PageInit
    <2>2. Len(snapshots) = 0
      BY <2>1
    <2> QED
      BY <2>1, <2>2, ScoresMaxSnapshotsAssumption
      DEF ScoresBounded, Scores!MaxSnapshotsAssumption
  <1>2. ScoresInv /\ ScoresBounded /\ [Next]_allVars => ScoresBounded'
    <2>1. ScoresBounded /\ UNCHANGED scoresVars => ScoresBounded'
      BY DEF scoresVars, ScoresBounded
    <2> QED
      BY <2>1, ScoresBoundStep DEF Next, Follows, allVars
  <1> QED
    BY ScoresInitial, ScoresStep, ScoresTypes, <1>1, <1>2, PTL DEF Spec

\* The variables of every page have their types, and the bounds of the lists are kept,
\* whichever page is followed.
THEOREM TypesHoldAmongPages == Spec => []TypeOK
  <1>1. /\ Studio!TypeOK /\ Telemetry!TypeOK /\ Freeze!TypeOK /\ Legal!TypeOK /\ Privacy!TypeOK
        /\ Consent!TypeOK /\ Identifiers!TypeOK /\ Triage!TypeOK /\ Plan!TypeOK /\ Form!TypeOK
        /\ Live!TypeOK /\ Cache!TypeOK /\ Temporal!TypeOK /\ Scores!TypeOK
        => TypeOK
    BY DEF TypeOK
  <1> QED
    BY StudioTypesHold, TelemetryTypesHold, FreezeTypesHold, LegalTypesHold, PrivacyTypesHold,
       ConsentTypesHold, IdentifiersTypesHold, TriageTypesHold, PlanTypesHold, FormTypesHold,
       LiveTypesHold, CacheTypesHold, TemporalTypesHold, ScoresTypesHold, <1>1, PTL
=============================================================================

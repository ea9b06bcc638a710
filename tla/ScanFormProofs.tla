--------------------------- MODULE ScanFormProofs ---------------------------
(***************************************************************************)
(* Proof that every amber scan was consented to, for any layers and any     *)
(* number of requests, however old the ledger the page shows.               *)
(***************************************************************************)
EXTENDS ScanForm, TLAPS

\* What the page shows, and what it requests, was granted at some time.
Consented ==
  /\ layerScope \in Layers
  /\ granted \subseteq everGranted /\ consentShown \subseteq everGranted
  /\ \A layer \in create : layer # "surface" => layer \in everGranted

\* Every step keeps that and requests nothing that was not consented to.
LEMMA ConsentedStep ==
  ASSUME NoPurpose \notin AmberLayers
  PROVE  Consented /\ AmberScanWasConsented /\ [Next]_vars =>
           (Consented /\ AmberScanWasConsented)'
  <1> SUFFICES ASSUME Consented, AmberScanWasConsented, [Next]_vars
               PROVE  (Consented /\ AmberScanWasConsented)'
    OBVIOUS
  <1>1. CASE \E layer \in Layers : ChooseLayer(layer)
    BY <1>1 DEF ChooseLayer, serverVars, Consented, AmberScanWasConsented
  <1>2. CASE ChooseIdentifier \/ GrantAmberConsent \/ FetchConsents
    BY <1>2 DEF ChooseIdentifier, GrantAmberConsent, FetchConsents, serverVars, formVars,
       Consented, AmberScanWasConsented
  <1>3. CASE Granted
    BY <1>3 DEF Granted, Consented, AmberScanWasConsented
  <1>4. CASE StartScan
    <2>1. layerScope # "surface" => layerScope \in consentShown
      BY <1>4 DEF StartScan, HasConsent, ConsentPurpose, Layers, Consented
    <2> QED
      BY <1>4, <2>1 DEF StartScan, serverVars, Consented, AmberScanWasConsented
  <1>5. CASE ServeCreate
    <2>1. /\ create' = {} /\ UNCHANGED <<granted, everGranted, consentShown, layerScope>>
      BY <1>5 DEF ServeCreate
    <2>2. ASSUME NEW r \in requests', r \notin requests, r.ok, r.layer # "surface"
          PROVE  {ConsentPurpose(r.layer), ServerPurpose} \subseteq everGranted
      <3>1. PICK layer \in create :
              \/ Accepts(layer) /\ requests' = requests \cup
                   {[n |-> Cardinality(requests), layer |-> layer, ok |-> TRUE]}
              \/ requests' = requests \cup
                   {[n |-> Cardinality(requests), layer |-> layer, ok |-> FALSE]}
        BY <1>5 DEF ServeCreate
      <3>2. r.layer = layer /\ Accepts(layer)
        BY <2>2, <3>1
      <3> QED
        BY <2>2, <3>2 DEF Accepts, ConsentPurpose, Consented
    <2> QED
      BY <2>1, <2>2 DEF Consented, AmberScanWasConsented
  <1>6. CASE Elsewhere
    BY <1>6 DEF Elsewhere, formVars, Consented, AmberScanWasConsented
  <1>7. CASE Leave \/ Return \/ UNCHANGED vars
    BY <1>7 DEF Leave, Return, vars, serverVars, formVars, Layers, Consented,
       AmberScanWasConsented
  <1> QED
    BY <1>1, <1>2, <1>3, <1>4, <1>5, <1>6, <1>7 DEF Next

\* A scan of an amber layer runs only for a user who consented to that layer and to
\* amber discovery, whatever was revoked elsewhere since the page fetched the ledger.
THEOREM AmberConsentHolds ==
  ASSUME NoPurpose \notin AmberLayers
  PROVE  Spec => []AmberScanWasConsented
  <1>1. Init => Consented /\ AmberScanWasConsented
    BY DEF Init, PageInit, Layers, Consented, AmberScanWasConsented
  <1>2. Consented /\ AmberScanWasConsented /\ [Next]_vars =>
          (Consented /\ AmberScanWasConsented)'
    BY ConsentedStep
  <1> QED
    BY <1>1, <1>2, PTL DEF Spec
=============================================================================

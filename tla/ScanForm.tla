------------------------------ MODULE ScanForm ------------------------------
(***************************************************************************)
(* The form of the scans page (ScansPage.tsx, LayerScopeControl.tsx,        *)
(* layers-api.ts): an identifier and a layer are chosen, the layer's        *)
(* consent granted, and a scan requested, against the server's checks.      *)
(*                                                                          *)
(* The page asks for the consent of the layer; the server asks, for every   *)
(* amber layer, for a consent of its own that only the consent center of    *)
(* the privacy page can grant, by typing its name.                          *)
(***************************************************************************)
EXTENDS Naturals, FiniteSets

CONSTANTS
  AmberLayers,   \* the layers besides the surface
  MaxRequests    \* scans that are requested (bound)

AmberLayersAssumption == "surface" \notin AmberLayers
MaxRequestsAssumption == MaxRequests \in Nat

Layers == AmberLayers \cup {"surface"}
ServerPurpose == "amber_discovery"

VARIABLES
  route,         \* the page the tab shows
  granted,       \* server: the purposes with an active consent
  consentShown,  \* the purposes the page shows as granted
  anyVerified,   \* server: the identifier is verified
  layerScope, selectedIdentifier, notice,   \* the page's state
  granting,      \* the grant under way
  create,        \* the scan request under way
  requests,      \* server: the requests that were served
  everGranted    \* history: the purposes that were ever granted

formVars == <<layerScope, selectedIdentifier, notice>>
serverVars == <<granted, anyVerified, requests, everGranted>>
vars == <<route, serverVars, consentShown, formVars, granting, create>>

NoPurpose == "none"
ConsentPurposes == AmberLayers \cup {ServerPurpose}

\* consentPurpose: a purpose for each amber layer, named here as the layer is.
ConsentPurpose(layer) == IF layer = "surface" THEN NoPurpose ELSE layer

\* The page as it opens, with nothing on the server.
PageInit ==
  /\ granted = {} /\ consentShown = {} /\ anyVerified = TRUE
  /\ layerScope = "surface" /\ selectedIdentifier = FALSE /\ notice = "none"
  /\ granting = NoPurpose /\ create = {}
  /\ requests = {} /\ everGranted = {}

Init == route = "scans" /\ PageInit

Open == route = "scans"

\* Mutant of HasConsent: any consent opens the amber layers.
HasAnyConsent(layer) == layer = "surface" \/ consentShown # {}

\* hasConsent: by the ledger the page has, however old.
HasConsent(layer) == ConsentPurpose(layer) \in consentShown \cup {NoPurpose}

\* The layers are those of the server's catalogue.  (An over-approximation: GET /layers
\* calls a method that DiscoveryService does not define, so that in this version of the
\* code no layer is offered and the form stays on the surface.)
ChooseLayer(layer) ==
  /\ Open /\ layerScope' = layer
  /\ UNCHANGED <<route, serverVars, consentShown, selectedIdentifier, notice, granting, create>>

\* Verified identifiers are offered.
ChooseIdentifier ==
  /\ Open /\ (anyVerified \/ selectedIdentifier)
  /\ selectedIdentifier' = ~selectedIdentifier
  /\ UNCHANGED <<route, serverVars, consentShown, layerScope, notice, granting, create>>

\* grantAmberConsent: offered for an amber layer without consent.
GrantAmberConsent ==
  /\ Open /\ granting = NoPurpose
  /\ layerScope # "surface" /\ ~HasConsent(layerScope)
  /\ granting' = ConsentPurpose(layerScope)
  /\ UNCHANGED <<route, serverVars, consentShown, formVars, create>>

\* The consent is stored and announced on the page, or the request fails unseen.
Granted ==
  /\ granting # NoPurpose /\ granting' = NoPurpose
  /\ \/ /\ granted' = granted \cup {granting} /\ everGranted' = everGranted \cup {granting}
        /\ notice' = "granted"
     \/ UNCHANGED <<granted, everGranted, notice>>
  /\ UNCHANGED <<route, anyVerified, requests, consentShown, layerScope, selectedIdentifier,
                 create>>

FetchConsents ==
  /\ Open /\ consentShown' = granted
  /\ UNCHANGED <<route, serverVars, formVars, granting, create>>

\* startScan: "Start scan" waits for the scan before.
StartScan ==
  /\ Open /\ create = {}
  /\ selectedIdentifier /\ HasConsent(layerScope)
  /\ notice' = "none"
  /\ create' = {layerScope}
  /\ UNCHANGED <<route, serverVars, consentShown, layerScope, selectedIdentifier, granting>>

\* create_scan: a verified identifier (G1), for an amber layer the server's own
\* consent, and the quotas, which may refuse any request.
Accepts(layer) == anyVerified /\ (layer = "surface" \/ ServerPurpose \in granted)

ServeCreate ==
  /\ create # {} /\ create' = {}
  /\ Cardinality(requests) < MaxRequests
  /\ \E layer \in create :
       LET answer(ok) == [n |-> Cardinality(requests), layer |-> layer, ok |-> ok]
       IN \/ /\ Accepts(layer)
             /\ requests' = requests \cup {answer(TRUE)} /\ UNCHANGED notice
          \/ requests' = requests \cup {answer(FALSE)} /\ notice' = "error"
  /\ UNCHANGED <<route, granted, anyVerified, everGranted, consentShown, layerScope,
                 selectedIdentifier, granting>>

\* The consent center grants and revokes; an identifier is deleted elsewhere.
Elsewhere ==
  /\ \/ \E p \in ConsentPurposes :
          /\ granted' = (granted \ {p}) \cup ({p} \ granted)
          /\ everGranted' = everGranted \cup {p}
          /\ UNCHANGED anyVerified
     \/ anyVerified' = ~anyVerified /\ UNCHANGED <<granted, everGranted>>
  /\ UNCHANGED <<route, requests, consentShown, formVars, granting, create>>

\* (Bound: the page is left when its requests are answered.)
Leave ==
  /\ Open /\ granting = NoPurpose /\ create = {}
  /\ route' = "elsewhere"
  /\ UNCHANGED <<serverVars, consentShown, formVars, granting, create>>

Return ==
  /\ route = "elsewhere" /\ route' = "scans"
  /\ layerScope' = "surface" /\ selectedIdentifier' = FALSE /\ notice' = "none"
  /\ UNCHANGED <<serverVars, consentShown, granting, create>>

Next ==
  \/ \E layer \in Layers : ChooseLayer(layer)
  \/ ChooseIdentifier \/ GrantAmberConsent \/ Granted \/ FetchConsents
  \/ StartScan \/ ServeCreate \/ Elsewhere \/ Leave \/ Return

Spec == Init /\ [][Next]_vars

(***************************************************************************)
(* Properties.                                                             *)
(***************************************************************************)
TypeOK ==
  /\ granted \subseteq ConsentPurposes /\ consentShown \subseteq ConsentPurposes
  /\ everGranted \subseteq ConsentPurposes
  /\ anyVerified \in BOOLEAN /\ selectedIdentifier \in BOOLEAN
  /\ layerScope \in Layers /\ notice \in {"none", "granted", "error"}
  /\ granting \in ConsentPurposes \cup {NoPurpose} /\ create \subseteq Layers
  /\ requests \subseteq [n : 0..MaxRequests, layer : Layers, ok : BOOLEAN]

\* A scan of an amber layer runs only for a user who consented to that very layer
\* and to amber discovery, however old the ledger was from which it was started.
AmberScanWasConsented ==
  \A r \in requests :
    r.ok /\ r.layer # "surface" => {ConsentPurpose(r.layer), ServerPurpose} \subseteq everGranted

\* What the page asks for would be enough.  It is not: the consent the page asks for
\* and the one the server looks up have different names.
GrantedLayerIsAccepted ==
  \A layer \in Layers :
    anyVerified /\ ConsentPurpose(layer) \in granted \cup {NoPurpose} => Accepts(layer)
=============================================================================

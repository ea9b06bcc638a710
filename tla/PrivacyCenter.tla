---------------------------- MODULE PrivacyCenter ----------------------------
(***************************************************************************)
(* The first section of the privacy page (PrivacyPage.tsx, privacy/api.ts): *)
(* a data export is created, fetched and downloaded; the account's deletion *)
(* is requested with a phrase and a confirmation.  The consents are         *)
(* ConsentCenter; the audit and egress ledgers are only read.               *)
(***************************************************************************)
EXTENDS Naturals

CONSTANTS
  MaxExports,  \* exports that are created (bound)
  MaxDeletions \* deletion requests that are accepted (bound)

BoundsAssumption == MaxExports \in Nat /\ MaxDeletions \in Nat

Exports == 1..MaxExports
NoExport == 0

VARIABLES
  route,           \* the page the tab shows
  createExport,    \* the last export mutation of this visit: its state, its export
  package,         \* the query cache: what is known of each export's package
  exports,         \* server: the exports that exist
  downloaded,      \* the export of the last file that was saved
  phraseTyped, showDeleteModal,  \* the page: the phrase is exact; the dialog is open
  deletion,        \* the deletion request under way, and the phrase it carries
  deletions        \* server: the deletion requests on record

exportVars == <<createExport, package, exports, downloaded>>
deletionVars == <<phraseTyped, showDeleteModal, deletion, deletions>>
vars == <<route, exportVars, deletionVars>>

Idle == [at |-> "idle", id |-> NoExport]

\* The page as it opens, with nothing on the server.
PageInit ==
  /\ createExport = Idle /\ package = [x \in Exports |-> "none"]
  /\ exports = {} /\ downloaded = NoExport
  /\ phraseTyped = FALSE /\ showDeleteModal = FALSE
  /\ deletion = "idle" /\ deletions = 0

Init == route = "privacy" /\ PageInit

Open == route = "privacy"

(***************************************************************************)
(* Export.                                                                 *)
(***************************************************************************)
\* startExport; the button waits for the export before, whose data is dropped.
StartExport ==
  /\ Open /\ createExport.at # "pending"
  /\ createExport' = [at |-> "pending", id |-> NoExport]
  /\ UNCHANGED <<route, package, exports, downloaded, deletionVars>>

\* The export is compiled, or fails.  Its answer invalidates every package known.
ExportAnswered ==
  /\ createExport.at = "pending"
  /\ \/ \E x \in Exports \ exports :
          /\ exports' = exports \cup {x}
          /\ createExport' = [at |-> "success", id |-> x]
     \/ createExport' = [at |-> "error", id |-> NoExport] /\ UNCHANGED exports
  /\ UNCHANGED <<route, package, downloaded, deletionVars>>

\* useExportPackage: the package of the export on the screen is fetched.
FetchPackage ==
  /\ Open /\ createExport.id # NoExport /\ package[createExport.id] = "none"
  /\ package' = [package EXCEPT ![createExport.id] = "fetching"]
  /\ UNCHANGED <<route, createExport, exports, downloaded, deletionVars>>

\* A package arrives, of whatever export it was asked for, or fails to.
PackageArrives(x) ==
  /\ package[x] = "fetching"
  /\ package' \in {[package EXCEPT ![x] = "ready"], [package EXCEPT ![x] = "none"]}
  /\ UNCHANGED <<route, createExport, exports, downloaded, deletionVars>>

\* The query key holds the export's id: only its own package is offered.
PackageShown == {x \in Exports : x = createExport.id /\ package[x] = "ready"}

\* downloadExport.
Download ==
  /\ Open
  /\ \E x \in PackageShown : downloaded' = x
  /\ UNCHANGED <<route, createExport, package, exports, deletionVars>>

(***************************************************************************)
(* Deletion.                                                               *)
(***************************************************************************)
TypePhrase ==
  /\ Open /\ phraseTyped' = ~phraseTyped
  /\ UNCHANGED <<route, exportVars, showDeleteModal, deletion, deletions>>

\* The first button needs the exact phrase and no deletion under way.
OpenDialog ==
  /\ Open /\ phraseTyped /\ deletion = "idle"
  /\ showDeleteModal' = TRUE
  /\ UNCHANGED <<route, exportVars, phraseTyped, deletion, deletions>>

AbortDialog ==
  /\ Open /\ showDeleteModal /\ showDeleteModal' = FALSE
  /\ UNCHANGED <<route, exportVars, phraseTyped, deletion, deletions>>

\* executeDeletion sends the phrase as it is when the dialog is confirmed.
ConfirmDeletion ==
  /\ Open /\ showDeleteModal /\ deletion = "idle"
  /\ deletion' = IF phraseTyped THEN "exact" ELSE "wrong"
  /\ UNCHANGED <<route, exportVars, phraseTyped, showDeleteModal, deletions>>

\* request_deletion compares the phrase itself.
Schedules == deletion = "exact" /\ deletions < MaxDeletions

\* Scheduled, and the dialog closed; or refused or lost, and the dialog stays.
DeletionAnswered ==
  /\ deletion # "idle" /\ deletion' = "idle"
  /\ \/ /\ Schedules
        /\ deletions' = deletions + 1
        /\ showDeleteModal' = FALSE
     \/ UNCHANGED <<deletions, showDeleteModal>>
  /\ UNCHANGED <<route, exportVars, phraseTyped>>

(***************************************************************************)
(* Navigation.                                                             *)
(***************************************************************************)
Leave ==
  /\ Open /\ route' = "elsewhere"
  /\ UNCHANGED <<exportVars, deletionVars>>

\* A new visit has no export on the screen and no dialog; the cache is kept.
\* (Bound: the page is entered again when its mutations have been answered.)
Return ==
  /\ route = "elsewhere" /\ createExport.at # "pending" /\ deletion = "idle"
  /\ route' = "privacy"
  /\ createExport' = Idle /\ phraseTyped' = FALSE /\ showDeleteModal' = FALSE
  /\ UNCHANGED <<package, exports, downloaded, deletion, deletions>>

Next ==
  \/ StartExport \/ ExportAnswered \/ FetchPackage \/ Download
  \/ \E x \in Exports : PackageArrives(x)
  \/ TypePhrase \/ OpenDialog \/ AbortDialog \/ ConfirmDeletion \/ DeletionAnswered
  \/ Leave \/ Return

(***************************************************************************)
(* Properties.                                                             *)
(***************************************************************************)
TypeOK ==
  /\ createExport \in [at : {"idle", "pending", "success", "error"}, id : Exports \cup {NoExport}]
  /\ package \in [Exports -> {"none", "fetching", "ready"}]
  /\ exports \subseteq Exports /\ downloaded \in Exports \cup {NoExport}
  /\ phraseTyped \in BOOLEAN /\ showDeleteModal \in BOOLEAN
  /\ deletion \in {"idle", "exact", "wrong"} /\ deletions \in 0..MaxDeletions
=============================================================================

--------------------------- MODULE FreezeChecklist ---------------------------
(***************************************************************************)
(* The credit-freeze checklist of the remediation page (RemediationPage.tsx, *)
(* remediation/api.ts).  The status of each item is chosen from a select box *)
(* that shows the last answer of the list; a choice is sent at once, beside  *)
(* earlier ones, and may be refused or lost.                                 *)
(*                                                                           *)
(* The list was fetched when the page opens.  Its entry in the query cache   *)
(* follows the rules of ClientCache; here several changes of one list are    *)
(* under way at once.                                                        *)
(***************************************************************************)
EXTENDS Naturals

CONSTANTS
  Bureaus,         \* the items of the checklist
  FreezeChoices,   \* the statuses the user chooses (bound)
  MaxChanges       \* changes under way at once (bound)

FreezeStatus == {"todo", "in_progress", "done", "skipped"}

FreezeAssumption == MaxChanges \in Nat /\ FreezeChoices \subseteq FreezeStatus

VARIABLES
  route,          \* the page the tab shows
  freeze,         \* server: the status of each item
  changes,        \* the changes under way: number, item, status, stage
  freezeShown,    \* what the select boxes show
  freezeFetch,    \* the fetch of the list under way: its stage, what it read
  freezeInvalid,  \* the list shown is marked invalid
  freezeMissed    \* history: items changed without the page being told, see Miss

vars == <<route, freeze, changes, freezeShown, freezeFetch, freezeInvalid, freezeMissed>>

Fresh   == [b \in Bureaus |-> "todo"]
NoFetch == [stage |-> "none", data |-> Fresh]
Asked   == [stage |-> "asked", data |-> Fresh]

\* The page as it opens, with nothing done.
PageInit ==
  /\ freeze = Fresh /\ changes = {}
  /\ freezeShown = Fresh /\ freezeFetch = NoFetch /\ freezeInvalid = FALSE
  /\ freezeMissed = {}

Init == route = "remediation" /\ PageInit

Open == route = "remediation"

\* Another option is chosen; nothing waits for an earlier choice, of this item or
\* another, and the select box goes on showing what was fetched.
Choose(n, b, status) ==
  /\ Open /\ \A c \in changes : c[1] # n
  /\ status # freezeShown[b]
  /\ changes' = changes \cup {<<n, b, status, "sent">>}
  /\ UNCHANGED <<route, freeze, freezeShown, freezeFetch, freezeInvalid, freezeMissed>>

\* update_freeze.
Patched(c) == [freeze EXCEPT ![c[2]] = c[3]]

\* The changes reach the server in any order.
ServeChange(c) ==
  /\ c \in changes /\ c[4] = "sent"
  /\ freeze' = Patched(c)
  /\ changes' = (changes \ {c}) \cup {<<c[1], c[2], c[3], "served">>}
  /\ UNCHANGED <<route, freezeShown, freezeFetch, freezeInvalid, freezeMissed>>

\* Mutant of Refetched: a fetch that is under way is joined.
RefetchedOnce == IF Open /\ freezeFetch.stage = "none" THEN Asked ELSE freezeFetch

\* On the screen the list is fetched again, and a fetch under way given up for that.
Refetched == IF Open THEN Asked ELSE freezeFetch

\* Without its page a fetch goes on: what it has read it will set valid.
Miss(c) == freezeMissed \cup {c[2]}

\* onSuccess of the hook, for every change.
Changed(c) ==
  /\ c \in changes /\ c[4] = "served"
  /\ changes' = changes \ {c}
  /\ freezeInvalid' = TRUE
  /\ freezeFetch' = Refetched
  /\ freezeMissed' = IF ~Open /\ freezeFetch.stage = "read" THEN Miss(c) ELSE freezeMissed
  /\ UNCHANGED <<route, freeze, freezeShown>>

\* A change is refused, or its answer is lost: there is no onError, nothing is said
\* and nothing is fetched.
ChangeFails(c) ==
  /\ c \in changes /\ changes' = changes \ {c}
  /\ freezeMissed' = IF c[4] = "served" THEN Miss(c) ELSE freezeMissed
  /\ UNCHANGED <<route, freeze, freezeShown, freezeFetch, freezeInvalid>>

ServeFetch ==
  /\ freezeFetch.stage = "asked"
  /\ freezeFetch' = [stage |-> "read", data |-> freeze]
  /\ UNCHANGED <<route, freeze, changes, freezeShown, freezeInvalid, freezeMissed>>

Fetched ==
  /\ freezeFetch.stage = "read" /\ freezeFetch' = NoFetch
  /\ freezeShown' = freezeFetch.data /\ freezeInvalid' = FALSE
  /\ UNCHANGED <<route, freeze, changes, freezeMissed>>

FetchFails ==
  /\ freezeFetch.stage # "none" /\ freezeFetch' = NoFetch
  /\ UNCHANGED <<route, freeze, changes, freezeShown, freezeInvalid, freezeMissed>>

Leave ==
  /\ Open /\ route' = "elsewhere"
  /\ UNCHANGED <<freeze, changes, freezeShown, freezeFetch, freezeInvalid, freezeMissed>>

\* On return the list is fetched when it is invalid, and may be when it is old.
Return(old) ==
  /\ route = "elsewhere" /\ route' = "remediation"
  /\ freezeFetch' = IF freezeFetch.stage = "none" /\ (freezeInvalid \/ old) THEN Asked
                    ELSE freezeFetch
  /\ UNCHANGED <<freeze, changes, freezeShown, freezeInvalid, freezeMissed>>

Next ==
  \/ \E n \in 1..MaxChanges, b \in Bureaus, status \in FreezeChoices : Choose(n, b, status)
  \/ \E c \in changes : ServeChange(c) \/ Changed(c) \/ ChangeFails(c)
  \/ ServeFetch \/ Fetched \/ FetchFails
  \/ Leave \/ \E old \in BOOLEAN : Return(old)

Spec == Init /\ [][Next]_vars

(***************************************************************************)
(* Properties.                                                             *)
(***************************************************************************)
TypeOK ==
  /\ freeze \in [Bureaus -> FreezeStatus] /\ freezeShown \in [Bureaus -> FreezeStatus]
  /\ changes \subseteq (1..MaxChanges) \X Bureaus \X FreezeChoices \X {"sent", "served"}
  /\ freezeFetch \in [stage : {"none", "asked", "read"}, data : [Bureaus -> FreezeStatus]]
  /\ freezeInvalid \in BOOLEAN /\ freezeMissed \subseteq Bureaus

\* Once nothing is under way the select boxes show what the server has, whatever
\* changes of one item were refused or served in the other order, and whatever fetch
\* they overtook; unless the last fetch failed.  Excepted are the items of which an
\* answer was lost, or arrived while the fetch of a page that was left had read the
\* list already.
ChecklistShowsServer ==
  changes = {} /\ freezeFetch.stage = "none" /\ ~freezeInvalid
    => \A b \in Bureaus \ freezeMissed : freezeShown[b] = freeze[b]
=============================================================================

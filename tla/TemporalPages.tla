--------------------------- MODULE TemporalPages ---------------------------
(***************************************************************************)
(* The review queue and the identity timeline (features/temporal).          *)
(*                                                                          *)
(* Both ask the server under /temporal, where it serves nothing             *)
(* (backend/app/main.py:105 includes the router without that prefix): a     *)
(* list that is fetched falls back to the samples it started with, and what *)
(* is asked about an item is refused.  The samples are all there ever is.   *)
(***************************************************************************)
EXTENDS Naturals, SequencesExt

CONSTANTS
  SampleReviews,   \* the unresolved items the review queue makes up
  SampleEvents,    \* the events the timeline makes up
  PlainFields,     \* the fields of the timeline's filters that are always there ...
  DateFields,      \* ... and those that are hidden at first
  MaxPosted        \* requests under way (bound)

FieldsAssumption == PlainFields \cap DateFields = {} /\ MaxPosted \in Nat

VARIABLES
  route,              \* the page the tab shows
  statusFilter,       \* review queue: the filter set
  choices, openCard,  \* the resolution selected on each card; the card that is open
  posted, newestWaits,   \* requests under way, oldest first; whether the newest of
                         \* each kind is among them
  blockedMessage,     \* the message of a refused revalidation is shown
  timelineFilters,    \* timeline: the fields that are set
  cursor,             \* whether a further page is shown
  showAdvanced, expandedEvents    \* the date fields; the events that are open

reviewVars == <<statusFilter, choices, openCard, posted, newestWaits, blockedMessage>>
timelineVars == <<timelineFilters, cursor, showAdvanced, expandedEvents>>
vars == <<route, reviewVars, timelineVars>>

NoChoice == ""
Resolutions == {"THIS_IS_STILL_MINE", "THIS_IS_NOT_MINE"}
Kinds == {"resolve", "revalidate"}

\* Both pages as they open; samples are on the screen.
PageInit ==
  /\ statusFilter = "" /\ openCard = {} /\ blockedMessage = FALSE
  /\ choices = [i \in SampleReviews |-> NoChoice]
  /\ posted = <<>> /\ newestWaits = [k \in Kinds |-> FALSE]
  /\ timelineFilters = {} /\ cursor = FALSE
  /\ showAdvanced = FALSE /\ expandedEvents = {}

Init == route = "review" /\ PageInit

(***************************************************************************)
(* The review queue.                                                       *)
(***************************************************************************)
OpenReview == route = "review"

\* A filter is a query of its own, with the same samples: no card changes.
SetStatusFilter(status) ==
  /\ OpenReview /\ statusFilter' = status
  /\ UNCHANGED <<route, choices, openCard, posted, newestWaits, blockedMessage, timelineVars>>

\* A card's header opens its details and closes those of another; a selection stays.
ExpandReview(i) ==
  /\ OpenReview
  /\ openCard' = IF openCard = {i} THEN {} ELSE {i}
  /\ UNCHANGED <<route, statusFilter, choices, posted, newestWaits, blockedMessage,
                 timelineVars>>

SelectResolution(i, resolution) ==
  /\ OpenReview /\ openCard = {i}
  /\ choices' = [choices EXCEPT ![i] = resolution]
  /\ UNCHANGED <<route, statusFilter, openCard, posted, newestWaits, blockedMessage,
                 timelineVars>>

OfKind(kind) == SelectSeq(posted, LAMBDA p : p.kind = kind)

\* A card's button waits while the newest request of its kind is under way and its own.
Waits(kind, i) == newestWaits[kind] /\ Last(OfKind(kind)).id = i

\* "Confirm resolution" needs a selection, "Request revalidation" does not.
Post(kind, i) ==
  /\ OpenReview /\ openCard = {i}
  /\ kind = "resolve" => choices[i] # NoChoice
  /\ ~Waits(kind, i)
  /\ Len(posted) < MaxPosted    \* bound
  /\ posted' = Append(posted, [kind |-> kind, id |-> i])
  /\ newestWaits' = [newestWaits EXCEPT ![kind] = TRUE]
  /\ UNCHANGED <<route, statusFilter, choices, openCard, blockedMessage, timelineVars>>

\* Mutant of NewestRemains: requests are not told apart by kind.
AnotherRemains(n) == Len(posted) > 1

\* A request of the same kind was made after request n.
NewestRemains(n) ==
  \E m \in DOMAIN posted : m > n /\ posted[m].kind = posted[n].kind

\* The server refuses, whatever it is: without a word for a resolution, with the one
\* general message for a revalidation, as its reason is looked for in the wrong place.
Refuse(n) ==
  /\ n \in DOMAIN posted
  /\ newestWaits' = [newestWaits EXCEPT ![posted[n].kind] = @ /\ NewestRemains(n)]
  /\ blockedMessage' = (blockedMessage \/ (OpenReview /\ posted[n].kind = "revalidate"))
  /\ posted' = RemoveAt(posted, n)
  /\ UNCHANGED <<route, statusFilter, choices, openCard, timelineVars>>

DismissMessage ==
  /\ OpenReview /\ blockedMessage /\ blockedMessage' = FALSE
  /\ UNCHANGED <<route, statusFilter, choices, openCard, posted, newestWaits, timelineVars>>

\* The page is left for another and forgets.  (Bound: what it asked is answered.)
LeaveReview ==
  /\ OpenReview /\ posted = <<>> /\ route' \in {"timeline", "elsewhere"}
  /\ statusFilter' = "" /\ openCard' = {} /\ blockedMessage' = FALSE
  /\ choices' = [i \in SampleReviews |-> NoChoice]
  /\ UNCHANGED <<posted, newestWaits, timelineVars>>

(***************************************************************************)
(* The timeline.                                                           *)
(***************************************************************************)
OpenTimeline == route = "timeline"

\* New filters begin at their first page.
FiltersSet(fields) == timelineFilters' = fields /\ cursor' = FALSE

\* A field is set or emptied; those for dates are not always there.
SetField(field) ==
  /\ OpenTimeline
  /\ field \in DateFields => showAdvanced
  /\ FiltersSet(IF field \in timelineFilters THEN timelineFilters \ {field}
                ELSE timelineFilters \cup {field})
  /\ UNCHANGED <<route, showAdvanced, expandedEvents, reviewVars>>

\* "Reset" is there when a field is set, hidden or not.
ResetFilters ==
  /\ OpenTimeline /\ timelineFilters # {}
  /\ FiltersSet({})
  /\ UNCHANGED <<route, showAdvanced, expandedEvents, reviewVars>>

ToggleAdvanced ==
  /\ OpenTimeline /\ showAdvanced' = ~showAdvanced
  /\ UNCHANGED <<route, timelineFilters, cursor, expandedEvents, reviewVars>>

\* "Next Page": the samples always hand out a cursor.
NextPage ==
  /\ OpenTimeline /\ cursor' = TRUE
  /\ UNCHANGED <<route, timelineFilters, showAdvanced, expandedEvents, reviewVars>>

FirstPage ==
  /\ OpenTimeline /\ cursor
  /\ cursor' = FALSE
  /\ UNCHANGED <<route, timelineFilters, showAdvanced, expandedEvents, reviewVars>>

\* Any number of events can be open; filters and pages bring the same ones.
ExpandEvent(e) ==
  /\ OpenTimeline
  /\ expandedEvents' = IF e \in expandedEvents THEN expandedEvents \ {e}
                       ELSE expandedEvents \cup {e}
  /\ UNCHANGED <<route, timelineFilters, cursor, showAdvanced, reviewVars>>

LeaveTimeline ==
  /\ OpenTimeline /\ route' \in {"review", "elsewhere"}
  /\ timelineFilters' = {} /\ cursor' = FALSE
  /\ showAdvanced' = FALSE /\ expandedEvents' = {}
  /\ UNCHANGED reviewVars

Return ==
  /\ route = "elsewhere" /\ route' \in {"review", "timeline"}
  /\ UNCHANGED <<reviewVars, timelineVars>>

Next ==
  \/ \E status \in {"", "pending"} : SetStatusFilter(status)
  \/ \E i \in SampleReviews :
       \/ ExpandReview(i)
       \/ \E resolution \in Resolutions : SelectResolution(i, resolution)
       \/ \E kind \in Kinds : Post(kind, i)
  \/ \E n \in DOMAIN posted : Refuse(n)
  \/ DismissMessage \/ LeaveReview
  \/ \E field \in PlainFields \cup DateFields : SetField(field)
  \/ ResetFilters \/ ToggleAdvanced \/ NextPage \/ FirstPage
  \/ \E e \in SampleEvents : ExpandEvent(e)
  \/ LeaveTimeline \/ Return

(***************************************************************************)
(* Properties.                                                             *)
(***************************************************************************)
TypeOK ==
  /\ statusFilter \in {"", "pending"} /\ openCard \subseteq SampleReviews
  /\ choices \in [SampleReviews -> Resolutions \cup {NoChoice}]
  /\ posted \in Seq([kind : Kinds, id : SampleReviews])
  /\ newestWaits \in [Kinds -> BOOLEAN] /\ blockedMessage \in BOOLEAN
  /\ \A k \in Kinds : newestWaits[k] => \E n \in DOMAIN posted : posted[n].kind = k
  /\ timelineFilters \subseteq PlainFields \cup DateFields
  /\ cursor \in BOOLEAN
  /\ showAdvanced \in BOOLEAN /\ expandedEvents \subseteq SampleEvents

\* No item has two resolutions under way.  It can: a card waits for the newest request
\* of the page only, so confirming another card frees the first one's button.
ResolvedOnce ==
  \A m, n \in DOMAIN posted : m # n /\ posted[m].kind = "resolve" => posted[m] # posted[n]
=============================================================================

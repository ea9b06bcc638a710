------------------------------ MODULE LiveScan ------------------------------
(***************************************************************************)
(* The live card of the scans page with its event stream (ScansPage.tsx,    *)
(* lib/sse.ts) and the detail page of a scan (ScanDetailPage.tsx,           *)
(* scans/api.ts), against the server's scan row and stream.                 *)
(*                                                                          *)
(* The page opens a stream in an effect, which runs some time after the     *)
(* card has changed.  The server's stream reads the scan once: its session  *)
(* keeps the row it has loaded, so after its first event only heartbeats    *)
(* follow, and the stream is left out of the model from there on.           *)
(***************************************************************************)
EXTENDS Naturals

CONSTANT MaxScans   \* scans that are created (bound)

MaxScansAssumption == MaxScans \in Nat

Scans == 1..MaxScans
NoScan == 0
Ended == {"completed", "cancelled"}

VARIABLES
  route,         \* the page the tab shows
  scan,          \* server: the status of each scan
  taken,         \* server: the scans a worker has read as queued and not started yet
  creating,      \* the creation under way: whether the page that asked is still there
  live,          \* the page: the scan on the live card, and its status there
  effect,        \* the card as it was when the effect last ran
  streams,       \* the streams that have not delivered their event
  slipped,       \* history: an event reached the card of a newer scan before the effect
  revived,       \* history: the scans whose end a worker has overwritten
  cancelling,    \* cancellations under way
  detail         \* the detail page: the scan it is about, and its status there

vars == <<route, scan, taken, creating, live, effect, streams, slipped, revived, cancelling,
          detail>>

NoCard == [id |-> NoScan, status |-> "none"]

\* The page as it opens, with nothing on the server.
PageInit ==
  /\ scan = [n \in Scans |-> "absent"] /\ taken = {} /\ revived = {}
  /\ creating = {}
  /\ live = NoCard /\ effect = NoCard /\ streams = {} /\ slipped = FALSE
  /\ cancelling = {}
  /\ detail = NoCard

Init == route = "scans" /\ PageInit

Open == route = "scans"

StartScan ==
  /\ Open /\ creating = {}
  /\ \E n \in Scans : scan[n] = "absent"
  /\ creating' = {"here"}
  /\ UNCHANGED <<route, scan, taken, live, effect, streams, slipped, revived, cancelling, detail>>

\* The scan is created, and its card shown if the page is still there.  (The answer's
\* way back is left out: nothing else changes the card of a scan not yet shown.)
Created ==
  /\ creating # {} /\ creating' = {}
  /\ LET n == CHOOSE k \in Scans : scan[k] = "absent" /\ \A m \in Scans : m < k =>
                                     scan[m] # "absent"
     IN /\ scan' = [scan EXCEPT ![n] = "queued"]
        /\ IF creating = {"here"}
             THEN live' = [id |-> n, status |-> "queued"] /\ slipped' = FALSE
             ELSE UNCHANGED <<live, slipped>>
  /\ UNCHANGED <<route, taken, effect, streams, revived, cancelling, detail>>

\* execute_scan reads the scan and goes on unless it has ended, ...
\* (Bound: one worker; several deliveries of a scan are in ScanEngine.)
Take(n) ==
  /\ scan[n] = "queued" /\ n \notin taken /\ taken' = taken \cup {n}
  /\ UNCHANGED <<route, scan, creating, live, effect, streams, slipped, revived, cancelling,
                 detail>>

\* ... and commits what it has read as running, also over an end reached meanwhile.
Start(n) ==
  /\ n \in taken /\ taken' = taken \ {n}
  /\ scan' = [scan EXCEPT ![n] = "running"]
  /\ revived' = IF scan[n] \in Ended THEN revived \cup {n} ELSE revived
  /\ UNCHANGED <<route, creating, live, effect, streams, slipped, cancelling, detail>>

\* The worker, or the sweep after the deadline, ends the scan.  (All their statuses are
\* "completed" here.)
Work(n) ==
  /\ scan[n] \in {"queued", "running"} /\ scan' = [scan EXCEPT ![n] = "completed"]
  /\ UNCHANGED <<route, taken, creating, live, effect, streams, slipped, revived, cancelling,
                 detail>>

\* Mutant of Cleaned: the streams opened before are not aborted.
CleanedNot == streams

\* The effect's cleanup aborts its stream.
Cleaned == {}

\* The effect runs when the card shows another scan or status: it opens a stream
\* unless the status is final.
Effect ==
  /\ Open /\ effect # live /\ effect' = live
  /\ streams' = Cleaned \cup
       (IF live.status \in Ended \cup {"none"} THEN {}
        ELSE {[of |-> live.id, read |-> "none"]})
  /\ UNCHANGED <<route, scan, taken, creating, live, slipped, revived, cancelling, detail>>

\* The stream reads the scan.
ServeStream(s) ==
  /\ s \in streams /\ s.read = "none"
  /\ streams' = (streams \ {s}) \cup {[s EXCEPT !.read = scan[s.of]]}
  /\ UNCHANGED <<route, scan, taken, creating, live, effect, slipped, revived, cancelling, detail>>

\* onEvent: the status goes to the card that is shown, whichever scan it is about.
StreamEvent(s) ==
  /\ s \in streams /\ s.read # "none" /\ live # NoCard
  /\ live' = [live EXCEPT !.status = s.read]
  /\ streams' = streams \ {s}
  /\ slipped' = (slipped \/ (s.of # live.id /\ effect.id # live.id))
  /\ UNCHANGED <<route, scan, taken, creating, effect, revived, cancelling, detail>>

\* onError: a stream that fails is not opened again.
StreamFails(s) ==
  /\ s \in streams /\ streams' = streams \ {s}
  /\ UNCHANGED <<route, scan, taken, creating, live, effect, slipped, revived, cancelling, detail>>

\* "Cancel" on the card, while its status is not final; the answer changes the
\* lists, not the card.
Cancel ==
  /\ Open /\ live # NoCard /\ live.status \notin Ended
  /\ cancelling' = cancelling \cup {live.id}
  /\ UNCHANGED <<route, scan, taken, creating, live, effect, streams, slipped, revived,
                 detail>>

\* cancel_scan: a scan that has ended stays as it is.  (What cancellation and worker
\* overwrite from copies besides puts one end in the place of another.)
ServeCancel(n) ==
  /\ n \in cancelling /\ cancelling' = cancelling \ {n}
  /\ scan' = [scan EXCEPT ![n] = IF @ \in Ended THEN @ ELSE "cancelled"]
  /\ UNCHANGED <<route, taken, creating, live, effect, streams, slipped, revived, detail>>

\* A link of the card or of the history leads to a scan's page; the card is gone and
\* its stream aborted.
OpenDetail(n) ==
  /\ Open /\ scan[n] # "absent"
  /\ route' = "detail"
  /\ detail' = [id |-> n, status |-> "none"]
  /\ live' = NoCard /\ effect' = NoCard /\ streams' = {} /\ slipped' = FALSE
  /\ creating' = {"gone" : c \in creating}
  /\ UNCHANGED <<scan, taken, revived, cancelling>>

Back ==
  /\ route = "detail" /\ route' = "scans"
  /\ detail' = NoCard
  /\ UNCHANGED <<scan, taken, creating, live, effect, streams, slipped, revived, cancelling>>

\* Mutant of Refetches: polling waits for the scan to be running.
RefetchesRunning == detail.status = "running" \/ detail.status = "none"

\* useScan: every three seconds until a final status is shown.
Refetches == detail.status \notin Ended

Poll ==
  /\ route = "detail" /\ Refetches
  /\ detail' = [detail EXCEPT !.status = scan[detail.id]]
  /\ UNCHANGED <<route, scan, taken, creating, live, effect, streams, slipped, revived, cancelling>>

Next ==
  \/ StartScan \/ Created \/ Effect \/ Cancel \/ Back \/ Poll
  \/ \E n \in Scans : Take(n) \/ Start(n) \/ Work(n) \/ ServeCancel(n) \/ OpenDetail(n)
  \/ \E s \in streams : ServeStream(s) \/ StreamEvent(s) \/ StreamFails(s)

\* The open detail page polls.
Fairness == WF_vars(Poll)

(***************************************************************************)
(* Properties.                                                             *)
(***************************************************************************)
TypeOK ==
  LET status == {"none", "absent", "queued", "running"} \cup Ended
      card == [id : Scans \cup {NoScan}, status : status] IN
  /\ scan \in [Scans -> status \ {"none"}] /\ taken \subseteq Scans /\ revived \subseteq Scans
  /\ creating \subseteq {"here", "gone"} /\ cancelling \subseteq Scans
  /\ live \in card /\ effect \in card /\ detail \in card
  /\ streams \subseteq [of : Scans, read : status] /\ slipped \in BOOLEAN

\* The scan has ended, although it may run again.
HasEnded(n) == scan[n] \in Ended \/ n \in revived

\* The card never shows a scan as ended that has not, although streams of several
\* scans write to it; but for the event of an older scan that slips in between the
\* card's change and the effect that closes the older stream.  The scan still is as shown
\* unless a worker has written "running" over its end, which nothing tells the card.
CardEndedIsEnded == ~slipped /\ live.status \in Ended => HasEnded(live.id)

\* The open page of a scan that has ended shows it as under way, or nothing yet.
DetailLags ==
  route = "detail" /\ detail.status \notin Ended /\ scan[detail.id] \in Ended

\* A scan that has ended is shown as ended on its page, if the page stays open.
DetailShowsEnd == DetailLags ~> ~DetailLags

\* The card shows the end of its scan.  It does not: the stream repeats what it read
\* first, and nothing else updates the card.
CardShowsEnd ==
  \A n \in Scans : scan[n] \in Ended ~> (live.id # n \/ live.status \in Ended)
=============================================================================

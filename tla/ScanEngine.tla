----------------------------- MODULE ScanEngine -----------------------------
(***************************************************************************)
(* The discovery scan engine: API requests that create and cancel scans,   *)
(* Celery workers that execute them connector by connector, and the beat   *)
(* task that reconciles them.  The database rows are shared; every actor   *)
(* works on the copy of the rows its session loaded (sessions use          *)
(* expire_on_commit=False, so that only an explicit refresh replaces the   *)
(* attributes of a loaded row), and a commit writes only what the session  *)
(* changed.  There is no version column and no row lock is held from a     *)
(* read to the write that depends on it.  A scan and its runs are loaded   *)
(* in one step.                                                            *)
(*                                                                         *)
(* One user owns all the scans; quotas are per user.  A scan's deadline is *)
(* the flag expired.  Events names the environment events an instance      *)
(* allows.                                                                 *)
(***************************************************************************)
EXTENDS Naturals, FiniteSets, ScanStates

CONSTANTS
  Scans,            \* scan ids
  Connectors,       \* connector ids of the registry
  Workers,          \* Celery worker slots
  MaxActive,        \* scan_max_concurrent_per_user
  DailyQuota,       \* default_user_scan_quota_per_day
  Events            \* environment events that may happen

\* "race" a user has several create requests in flight; "lose" an enqueue is
\* lost; "cancel" users cancel; "deadline" time runs out; "lapse" an identifier
\* stops being verified; "crash" a worker process dies and its message is
\* redelivered; "fail" an exception ends a task, which acknowledges it;
\* "overlap" the broker redelivers a message whose worker still executes it;
\* "deep" users create deep scans.
AllEvents == {"race", "lose", "cancel", "deadline", "lapse", "crash", "fail",
              "overlap", "deep"}

ASSUME ScanEngineAssumption ==
  /\ MaxActive \in Nat
  /\ DailyQuota \in Nat
  /\ Events \subseteq AllEvents

NoScan      == "no scan"
NoConnector == "no connector"
NotSelected == "not selected"

ASSUME NoneAssumption == NoScan \notin Scans /\ NoConnector \notin Connectors

Outcome == {"succeeded", "skipped", "failed"}
Layer   == {"surface", "deep"}

VARIABLES
  \* rows of the scans and scan_connector_runs tables
  status, layer, run,
  \* the clock and the identifier each scan is about
  expired, verified,
  \* the create request of each scan, and the broker's queue
  request, queue,
  \* workers: control point, task, whether the task's message is still unacked,
  \* the session's copy of the rows, the runs still to visit, the current run
  pc, job, held, memStatus, memRun, todo, current, outcome,
  \* the session of a cancel request and of the reconcile task
  cancelling, cancelRun, sweep, sweepRun,
  \* the calls made, those that let the identifier out of the system, those that
  \* came back with anything but a skip, and what was recorded
  called, exposed, answered, ledger, cancelLogged, late, overrun

rows      == <<status, layer, run>>
world     == <<expired, verified>>
broker    == <<request, queue>>
sessions  == <<pc, job, held, memStatus, memRun, todo, current, outcome>>
sweepers  == <<cancelling, cancelRun, sweep, sweepRun>>
record    == <<called, exposed, answered, ledger, cancelLogged, late, overrun>>
vars      == <<rows, world, broker, sessions, sweepers, record>>

RunRow == RunStatus \cup {NotSelected}
NoRuns == [c \in Connectors |-> NotSelected]

Stage == {"idle", "loaded", "started", "loop", "checked", "calling", "called", "finalize"}

TypeOK ==
  /\ status \in [Scans -> ScanStatus \cup {"absent"}]
  /\ layer \in [Scans -> Layer]
  /\ run \in [Scans -> [Connectors -> RunRow]]
  /\ expired \in [Scans -> BOOLEAN]
  /\ verified \in [Scans -> BOOLEAN]
  /\ request \in [Scans -> {"idle", "admitted", "stored", "done"}]
  /\ queue \in [Scans -> Nat]
  /\ pc \in [Workers -> Stage]
  /\ job \in [Workers -> Scans \cup {NoScan}]
  /\ held \in [Workers -> BOOLEAN]
  /\ memStatus \in [Workers -> ScanStatus]
  /\ memRun \in [Workers -> [Connectors -> RunRow]]
  /\ todo \in [Workers -> SUBSET Connectors]
  /\ current \in [Workers -> Connectors \cup {NoConnector}]
  /\ outcome \in [Workers -> Outcome]
  /\ cancelling \in [Scans -> BOOLEAN]
  /\ cancelRun \in [Scans -> [Connectors -> RunRow]]
  /\ sweep \in SUBSET Scans
  /\ sweepRun \in [Scans -> [Connectors -> RunRow]]
  /\ called \in [Workers -> [Scans -> [Connectors -> Nat]]]
  /\ exposed \in [Scans -> SUBSET Connectors]
  /\ answered \in [Scans -> SUBSET Connectors]
  /\ ledger \in [Scans -> SUBSET Connectors]
  /\ cancelLogged \in [Scans -> BOOLEAN]
  /\ late \in [Workers -> Nat]
  /\ overrun \in [Workers -> Nat]

Init ==
  /\ status = [s \in Scans |-> "absent"]
  /\ layer = [s \in Scans |-> "surface"]
  /\ run = [s \in Scans |-> NoRuns]
  /\ expired = [s \in Scans |-> FALSE]
  /\ verified = [s \in Scans |-> TRUE]
  /\ request = [s \in Scans |-> "idle"]
  /\ queue = [s \in Scans |-> 0]
  /\ pc = [w \in Workers |-> "idle"]
  /\ job = [w \in Workers |-> NoScan]
  /\ held = [w \in Workers |-> FALSE]
  /\ memStatus = [w \in Workers |-> "pending"]
  /\ memRun = [w \in Workers |-> NoRuns]
  /\ todo = [w \in Workers |-> {}]
  /\ current = [w \in Workers |-> NoConnector]
  /\ outcome = [w \in Workers |-> "skipped"]
  /\ cancelling = [s \in Scans |-> FALSE]
  /\ cancelRun = [s \in Scans |-> NoRuns]
  /\ sweep = {}
  /\ sweepRun = [s \in Scans |-> NoRuns]
  /\ called = [w \in Workers |-> [s \in Scans |-> [c \in Connectors |-> 0]]]
  /\ exposed = [s \in Scans |-> {}]
  /\ answered = [s \in Scans |-> {}]
  /\ ledger = [s \in Scans |-> {}]
  /\ cancelLogged = [s \in Scans |-> FALSE]
  /\ late = [w \in Workers |-> 0]
  /\ overrun = [w \in Workers |-> 0]

-----------------------------------------------------------------------------
(* Creating a scan: checks, insert and commit, then the enqueue.           *)

\* Mutated form: queued scans are not counted.
RunningScans == {s \in Scans : status[s] = "running"}

ActiveScans  == {s \in Scans : status[s] \in ActiveScan}
CreatedScans == {s \in Scans : status[s] # "absent"}

\* create_scan up to the quota checks: nothing is written yet, and another
\* request may pass the same checks before this one inserts its row.
Admit(s) ==
  /\ request[s] = "idle"
  /\ "race" \notin Events => \A r \in Scans : request[r] # "admitted"
  /\ verified[s]
  /\ Cardinality(ActiveScans) < MaxActive
  /\ Cardinality(CreatedScans) < DailyQuota
  /\ request' = [request EXCEPT ![s] = "admitted"]
  /\ UNCHANGED <<rows, world, queue, sessions, sweepers, record>>

\* The scan and one PENDING run per selected connector are committed.  The
\* connectors are not filtered by the scan's layer.
Store(s, l, selected) ==
  /\ request[s] = "admitted"
  /\ selected # {}
  /\ l = "deep" => "deep" \in Events
  /\ status' = [status EXCEPT ![s] = "pending"]
  /\ layer' = [layer EXCEPT ![s] = l]
  /\ run' = [run EXCEPT ![s] =
               [c \in Connectors |-> IF c \in selected THEN "pending" ELSE NotSelected]]
  /\ request' = [request EXCEPT ![s] = "stored"]
  /\ UNCHANGED <<world, queue, sessions, sweepers, record>>

\* execute_scan_task.delay, after the commit.
Enqueue(s) ==
  /\ request[s] = "stored"
  /\ request' = [request EXCEPT ![s] = "done"]
  /\ queue' = [queue EXCEPT ![s] = @ + 1]
  /\ UNCHANGED <<rows, world, sessions, sweepers, record>>

\* The API process dies, or the broker refuses the message, after the commit.
LoseEnqueue(s) ==
  /\ "lose" \in Events
  /\ request[s] = "stored"
  /\ request' = [request EXCEPT ![s] = "done"]
  /\ UNCHANGED <<rows, world, queue, sessions, sweepers, record>>

-----------------------------------------------------------------------------
(* Runs a session rewrites when it ends a scan: the ones it saw unfinished.*)

\* Mutated form: only the runs in progress are closed.
CloseRunning(current_row, seen, final) ==
  [c \in Connectors |-> IF seen[c] = "running" THEN final ELSE current_row[c]]

Close(current_row, seen, final) ==
  [c \in Connectors |-> IF seen[c] \in UnfinishedRun THEN final ELSE current_row[c]]

\* cancel_scan reads the scan and its runs ...
CancelLoad(s) ==
  /\ "cancel" \in Events
  /\ ~cancelling[s]
  /\ status[s] \in ActiveScan
  /\ cancelling' = [cancelling EXCEPT ![s] = TRUE]
  /\ cancelRun' = [cancelRun EXCEPT ![s] = run[s]]
  /\ UNCHANGED <<rows, world, broker, sessions, sweep, sweepRun, record>>

\* ... and commits CANCELLED, with SKIPPED for the runs it saw unfinished.
CancelCommit(s) ==
  /\ cancelling[s]
  /\ status' = [status EXCEPT ![s] = "cancelled"]
  /\ run' = [run EXCEPT ![s] = Close(@, cancelRun[s], "skipped")]
  /\ cancelling' = [cancelling EXCEPT ![s] = FALSE]
  /\ cancelRun' = [cancelRun EXCEPT ![s] = NoRuns]
  /\ cancelLogged' = [cancelLogged EXCEPT ![s] = TRUE]
  /\ UNCHANGED <<layer, world, broker, sessions, sweep, sweepRun, called, exposed, answered,
                 ledger, late, overrun>>

\* Mutated form: only running scans are reconciled.
StaleRunningScans == {s \in Scans : status[s] = "running" /\ expired[s]}

\* reconcile selects pending and running scans past their deadline; the
\* deadline test guards the whole selection, so its re-enqueue branch for
\* PENDING scans is never taken.
StaleScans == {s \in Scans : status[s] \in ActiveScan /\ expired[s]}

SweepLoad ==
  /\ sweep = {}
  /\ StaleScans # {}
  /\ sweep' = StaleScans
  /\ sweepRun' = [s \in Scans |-> IF s \in StaleScans THEN run[s] ELSE NoRuns]
  /\ UNCHANGED <<rows, world, broker, sessions, cancelling, cancelRun, record>>

SweepCommit ==
  /\ sweep # {}
  /\ status' = [s \in Scans |-> IF s \in sweep THEN "timed_out" ELSE status[s]]
  /\ run' = [s \in Scans |->
               IF s \in sweep THEN Close(run[s], sweepRun[s], "timed_out") ELSE run[s]]
  /\ sweep' = {}
  /\ sweepRun' = [s \in Scans |-> NoRuns]
  /\ UNCHANGED <<layer, world, broker, sessions, cancelling, cancelRun, record>>

-----------------------------------------------------------------------------
(* A worker executing a scan.                                              *)

\* The task is over and its message acknowledged.
EndTask(w) ==
  /\ pc' = [pc EXCEPT ![w] = "idle"]
  /\ job' = [job EXCEPT ![w] = NoScan]
  /\ held' = [held EXCEPT ![w] = FALSE]
  /\ memStatus' = [memStatus EXCEPT ![w] = "pending"]
  /\ memRun' = [memRun EXCEPT ![w] = NoRuns]
  /\ todo' = [todo EXCEPT ![w] = {}]
  /\ current' = [current EXCEPT ![w] = NoConnector]
  /\ outcome' = [outcome EXCEPT ![w] = "skipped"]
  /\ late' = [late EXCEPT ![w] = 0]
  /\ overrun' = [overrun EXCEPT ![w] = 0]

\* execute_scan's first select; a terminal scan ends the task at once.
Take(w, s) ==
  /\ pc[w] = "idle"
  /\ queue[s] > 0
  /\ queue' = [queue EXCEPT ![s] = @ - 1]
  /\ IF status[s] \in TerminalScan
     THEN UNCHANGED <<pc, job, held, memStatus, memRun>>
     ELSE /\ pc' = [pc EXCEPT ![w] = "loaded"]
          /\ job' = [job EXCEPT ![w] = s]
          /\ held' = [held EXCEPT ![w] = TRUE]
          /\ memStatus' = [memStatus EXCEPT ![w] = status[s]]
          /\ memRun' = [memRun EXCEPT ![w] = run[s]]
  /\ UNCHANGED <<rows, world, request, todo, current, outcome, sweepers, record>>

\* Past the deadline: TIMED_OUT for the scan and the runs loaded unfinished.
StartExpired(w) ==
  /\ pc[w] = "loaded"
  /\ expired[job[w]]
  /\ status' = [status EXCEPT ![job[w]] = "timed_out"]
  /\ run' = [run EXCEPT ![job[w]] = Close(@, memRun[w], "timed_out")]
  /\ EndTask(w)
  /\ UNCHANGED <<layer, world, broker, sweepers, called, exposed, answered, ledger, cancelLogged>>

\* RUNNING is committed over whatever the row has become since it was loaded.
\* A redelivered task finds RUNNING already and writes no status.
Start(w) ==
  /\ pc[w] = "loaded"
  /\ ~expired[job[w]]
  /\ status' = IF memStatus[w] = "running" THEN status
               ELSE [status EXCEPT ![job[w]] = "running"]
  /\ memStatus' = [memStatus EXCEPT ![w] = "running"]
  /\ pc' = [pc EXCEPT ![w] = "started"]
  /\ UNCHANGED <<layer, run, world, broker, job, held, memRun, todo, current, outcome,
                 sweepers, record>>

\* The identifier is no longer verified: FAILED; the runs stay as they are.
RefuseUnverified(w) ==
  /\ pc[w] = "started"
  /\ ~verified[job[w]]
  /\ status' = [status EXCEPT ![job[w]] = "failed"]
  /\ EndTask(w)
  /\ UNCHANGED <<layer, run, world, broker, sweepers, called, exposed, answered, ledger,
                 cancelLogged>>

\* The consent check of a deep scan calls has_active_grant, which ConsentService
\* does not have: the AttributeError ends the task.
DeepConsentError(w) ==
  /\ pc[w] = "started"
  /\ verified[job[w]]
  /\ layer[job[w]] = "deep"
  /\ EndTask(w)
  /\ UNCHANGED <<rows, world, broker, sweepers, called, exposed, answered, ledger, cancelLogged>>

EnterLoop(w) ==
  /\ pc[w] = "started"
  /\ verified[job[w]]
  /\ layer[job[w]] = "surface"
  /\ todo' = [todo EXCEPT ![w] = {c \in Connectors : memRun[w][c] # NotSelected}]
  /\ pc' = [pc EXCEPT ![w] = "loop"]
  /\ UNCHANGED <<rows, world, broker, job, held, memStatus, memRun, current, outcome,
                 sweepers, record>>

\* Mutated form: the loop goes on with what it loaded.
KeepCopies(w) == UNCHANGED <<memStatus, memRun>>

\* session.refresh at the top of the loop: the scan's columns and, because the
\* relationship cascades refresh-expire and was loaded eagerly, its runs too.
Refresh(w) ==
  /\ memStatus' = [memStatus EXCEPT ![w] = status[job[w]]]
  /\ memRun' = [memRun EXCEPT ![w] = run[job[w]]]

\* Cancelled: leave the loop.
SeeCancelled(w) ==
  /\ pc[w] = "loop"
  /\ todo[w] # {}
  /\ Refresh(w)
  /\ memStatus'[w] = "cancelled"
  /\ pc' = [pc EXCEPT ![w] = "finalize"]
  /\ UNCHANGED <<rows, world, broker, job, held, todo, current, outcome, sweepers, record>>

\* Past the deadline: TIMED_OUT for the scan and for this run if it is pending;
\* the other runs are left alone.  Refused, and the task fails, when the row
\* holds a terminal status other than TIMED_OUT.
SeeExpired(w, c) ==
  /\ pc[w] = "loop"
  /\ c \in todo[w]
  /\ status[job[w]] # "cancelled"
  /\ expired[job[w]]
  /\ IF CanTransitionScan(status[job[w]], "timed_out")
     THEN /\ status' = [status EXCEPT ![job[w]] = "timed_out"]
          /\ run' = IF run[job[w]][c] = "pending"
                    THEN [run EXCEPT ![job[w]][c] = "timed_out"] ELSE run
     ELSE UNCHANGED <<status, run>>
  /\ EndTask(w)
  /\ UNCHANGED <<layer, world, broker, sweepers, called, exposed, answered, ledger, cancelLogged>>

\* Mutated form: the loop does not look at the clock.
ContinueAnyTime(w) == memStatus'[w] # "cancelled"

\* What the loop checks once it has refreshed its copies.
MayContinue(w) == memStatus'[w] # "cancelled" /\ ~expired[job[w]]

\* A run that is no longer PENDING is passed over.
PassOver(w, c) ==
  /\ pc[w] = "loop"
  /\ c \in todo[w]
  /\ Refresh(w)
  /\ MayContinue(w)
  /\ memRun'[w][c] # "pending"
  /\ todo' = [todo EXCEPT ![w] = @ \ {c}]
  /\ UNCHANGED <<rows, world, broker, pc, job, held, current, outcome, sweepers, record>>

\* Mutated form: runs that are not pending are executed again.
SelectAny(w, c) ==
  /\ pc[w] = "loop"
  /\ c \in todo[w]
  /\ Refresh(w)
  /\ MayContinue(w)
  /\ current' = [current EXCEPT ![w] = c]
  /\ pc' = [pc EXCEPT ![w] = "checked"]
  /\ UNCHANGED <<rows, world, broker, job, held, todo, outcome, sweepers, record>>

Select(w, c) ==
  /\ pc[w] = "loop"
  /\ c \in todo[w]
  /\ Refresh(w)
  /\ MayContinue(w)
  /\ memRun'[w][c] = "pending"
  /\ current' = [current EXCEPT ![w] = c]
  /\ pc' = [pc EXCEPT ![w] = "checked"]
  /\ UNCHANGED <<rows, world, broker, job, held, todo, outcome, sweepers, record>>

\* Mutated form: RUNNING is left to the commit of the result.
WriteRunLate(w, st) ==
  /\ run' = IF st = "running" THEN run ELSE [run EXCEPT ![job[w]][current[w]] = st]
  /\ memRun' = [memRun EXCEPT ![w][current[w]] = st]

\* Mutated form: the connector's own word for a failure is stored.
WriteRunRaw(w, st) ==
  /\ run' = [run EXCEPT ![job[w]][current[w]] = IF st = "failed" THEN "error" ELSE st]
  /\ memRun' = [memRun EXCEPT ![w][current[w]] = st]

\* set_run_status on the current run, committed.
WriteRun(w, st) ==
  /\ run' = [run EXCEPT ![job[w]][current[w]] = st]
  /\ memRun' = [memRun EXCEPT ![w][current[w]] = st]

NextRun(w) ==
  /\ todo' = [todo EXCEPT ![w] = @ \ {current[w]}]
  /\ current' = [current EXCEPT ![w] = NoConnector]
  /\ pc' = [pc EXCEPT ![w] = "loop"]

\* The connector is unknown or disabled.
SkipDisabled(w) ==
  /\ pc[w] = "checked"
  /\ WriteRun(w, "skipped")
  /\ NextRun(w)
  /\ UNCHANGED <<status, layer, world, broker, job, held, memStatus, outcome,
                 sweepers, record>>

\* RUNNING is committed before the connector is called.
Begin(w) ==
  /\ pc[w] = "checked"
  /\ WriteRun(w, "running")
  /\ pc' = [pc EXCEPT ![w] = "calling"]
  /\ late' = IF expired[job[w]] THEN [late EXCEPT ![w] = @ + 1] ELSE late
  /\ overrun' = IF status[job[w]] = "cancelled" THEN [overrun EXCEPT ![w] = @ + 1]
                ELSE overrun
  /\ UNCHANGED <<status, layer, world, broker, job, held, memStatus, todo, current, outcome,
                 sweepers, called, exposed, answered, ledger, cancelLogged>>

\* connector.run: outside any transaction.  Whether the identifier left does not
\* follow from the result: a cache hit succeeds and sends nothing, and a request
\* answered by 429 was sent, but RateLimitExceeded makes its result a skip.
CallConnector(w, o) ==
  /\ pc[w] = "calling"
  /\ outcome' = [outcome EXCEPT ![w] = o]
  /\ called' = [called EXCEPT ![w][job[w]][current[w]] = @ + 1]
  /\ exposed' \in {exposed, [exposed EXCEPT ![job[w]] = @ \cup {current[w]}]}
  /\ answered' = IF o = "skipped" THEN answered
                 ELSE [answered EXCEPT ![job[w]] = @ \cup {current[w]}]
  /\ pc' = [pc EXCEPT ![w] = "called"]
  /\ UNCHANGED <<rows, world, broker, job, held, memStatus, memRun, todo, current,
                 sweepers, ledger, cancelLogged, late, overrun>>

\* Mutated forms: only a call that succeeded is recorded, and every result is.
EgressOfSuccess(w) == IF outcome[w] = "succeeded" THEN {current[w]} ELSE {}
EgressOfAny(w)     == {current[w]}

\* record_egress: every result but a skip has its ledger row, sent or not.
RecordEgress(w) == IF outcome[w] = "skipped" THEN {} ELSE {current[w]}

\* The egress ledger row, the findings and the run's status, in one commit.
RecordResult(w) ==
  /\ pc[w] = "called"
  /\ WriteRun(w, outcome[w])
  /\ NextRun(w)
  /\ ledger' = [ledger EXCEPT ![job[w]] = @ \cup RecordEgress(w)]
  /\ outcome' = [outcome EXCEPT ![w] = "skipped"]
  /\ UNCHANGED <<status, layer, world, broker, job, held, memStatus, sweepers,
                 called, exposed, answered, cancelLogged, late, overrun>>

LeaveLoop(w) ==
  /\ pc[w] = "loop"
  /\ todo[w] = {}
  /\ pc' = [pc EXCEPT ![w] = "finalize"]
  /\ UNCHANGED <<rows, world, broker, job, held, memStatus, memRun, todo, current, outcome,
                 sweepers, record>>

\* Mutated form: failed runs do not count.
MemRunSuccesses(w) == {memRun[w][c] : c \in Connectors} \ {NotSelected, "failed"}

MemRunStatuses(w) == {memRun[w][c] : c \in Connectors} \ {NotSelected}

\* try_finalize decides on the session's copies: scan and runs as of the last
\* refresh, and as written by this task since.  It changes nothing while a run
\* looks unfinished, and raises when the transition is refused.
Finalize(w) ==
  LET derived == DeriveScanStatus(MemRunStatuses(w))
  IN /\ pc[w] = "finalize"
     /\ status' = IF /\ memStatus[w] \notin {"cancelled", "timed_out"}
                     /\ derived # "running"
                     /\ derived # memStatus[w]
                     /\ CanTransitionScan(memStatus[w], derived)
                  THEN [status EXCEPT ![job[w]] = derived] ELSE status
     /\ EndTask(w)
     /\ UNCHANGED <<layer, run, world, broker, sweepers, called, exposed, answered, ledger,
                 cancelLogged>>

-----------------------------------------------------------------------------
(* Faults and the passing of time.                                         *)

\* The worker process dies: its transaction is rolled back and, because tasks
\* are acknowledged late, an unacknowledged message returns to the queue.
Crash(w) ==
  /\ "crash" \in Events
  /\ pc[w] # "idle"
  /\ queue' = [queue EXCEPT ![job[w]] = IF held[w] THEN @ + 1 ELSE @]
  /\ EndTask(w)
  /\ UNCHANGED <<rows, world, request, sweepers, called, exposed, answered, ledger, cancelLogged>>

\* An exception (a database error, a deadlock victim, a failed ingestion)
\* leaves execute_scan: rollback, and the failed task is acknowledged.
TaskFails(w) ==
  /\ "fail" \in Events
  /\ pc[w] # "idle"
  /\ EndTask(w)
  /\ UNCHANGED <<rows, world, broker, sweepers, called, exposed, answered, ledger, cancelLogged>>

\* The broker connection is lost or the visibility timeout runs out: the
\* message is delivered again although the worker goes on.
Redeliver(w) ==
  /\ "overlap" \in Events
  /\ held[w]
  /\ held' = [held EXCEPT ![w] = FALSE]
  /\ queue' = [queue EXCEPT ![job[w]] = @ + 1]
  /\ UNCHANGED <<rows, world, request, pc, job, memStatus, memRun, todo, current, outcome,
                 sweepers, record>>

DeadlinePasses(s) ==
  /\ "deadline" \in Events
  /\ status[s] # "absent"
  /\ ~expired[s]
  /\ expired' = [expired EXCEPT ![s] = TRUE]
  /\ UNCHANGED <<rows, verified, broker, sessions, sweepers, record>>

\* Revalidation marks the identifier stale, or its owner removes it.
IdentifierLapses(s) ==
  /\ "lapse" \in Events
  /\ verified[s]
  /\ verified' = [verified EXCEPT ![s] = FALSE]
  /\ UNCHANGED <<rows, expired, broker, sessions, sweepers, record>>

-----------------------------------------------------------------------------
Create(s) ==
  \/ Admit(s)
  \/ \E l \in Layer, selected \in SUBSET Connectors : Store(s, l, selected)
  \/ Enqueue(s)
  \/ LoseEnqueue(s)

Cancel(s) == CancelLoad(s) \/ CancelCommit(s)

Reconcile == SweepLoad \/ SweepCommit

Execute(w) ==
  \/ \E s \in Scans : Take(w, s)
  \/ StartExpired(w)
  \/ Start(w)
  \/ RefuseUnverified(w)
  \/ DeepConsentError(w)
  \/ EnterLoop(w)
  \/ SeeCancelled(w)
  \/ \E c \in Connectors : SeeExpired(w, c)
  \/ \E c \in Connectors : PassOver(w, c)
  \/ \E c \in Connectors : Select(w, c)
  \/ SkipDisabled(w)
  \/ Begin(w)
  \/ \E o \in Outcome : CallConnector(w, o)
  \/ RecordResult(w)
  \/ LeaveLoop(w)
  \/ Finalize(w)

Fault(w) == Crash(w) \/ TaskFails(w) \/ Redeliver(w)

Next ==
  \/ \E s \in Scans : Create(s)
  \/ \E s \in Scans : Cancel(s)
  \/ Reconcile
  \/ \E w \in Workers : Execute(w)
  \/ \E w \in Workers : Fault(w)
  \/ \E s \in Scans : DeadlinePasses(s)
  \/ \E s \in Scans : IdentifierLapses(s)

Spec == Init /\ [][Next]_vars

\* The API process finishes a request it has begun, the beat schedule runs
\* reconcile every 300 seconds, time passes, and Celery keeps its workers busy.
\* Users and faults are under no obligation.
Fairness ==
  /\ \A s \in Scans : /\ WF_vars(Enqueue(s))
                      /\ WF_vars(CancelCommit(s))
                      /\ WF_vars(DeadlinePasses(s))
  /\ WF_vars(Reconcile)
  /\ \A w \in Workers : WF_vars(Execute(w))

FairSpec == Spec /\ Fairness

-----------------------------------------------------------------------------
(* Safety properties.                                                      *)

\* No executor calls the same connector twice for one scan, whatever crashes,
\* redeliveries and overlapping deliveries occur: RUNNING is committed before
\* the call, and a task passes over the runs that are no longer PENDING.
OneCallPerExecutor ==
  \A w \in Workers, s \in Scans, c \in Connectors : called[w][s][c] <= 1

\* While a message has one executor at a time, a source is asked about an identifier
\* at most once per scan, even if its executor dies and another takes over.
AtMostOneCall ==
  \A s \in Scans, c \in Connectors, v, w \in Workers :
    called[v][s][c] > 0 /\ called[w][s][c] > 0 => v = w /\ called[w][s][c] = 1

\* A user who sends one create request at a time and has cancelled nothing never has
\* more unfinished scans than the quota, through crashes and redeliveries.
QuotaRespected ==
  (\A s \in Scans : ~cancelLogged[s])
    => Cardinality({s \in Scans : status[s] \in ActiveScan}) <= MaxActive

\* A task that re-checks the deadline between connectors begins at most one
\* connector call after the deadline of its scan.
LateCallBound == \A w \in Workers : late[w] <= 1

\* A task begins at most one connector call while its scan is CANCELLED: the
\* one it was about to make when the cancellation was committed.
OverrunBound == \A w \in Workers : overrun[w] <= 1

SelectedRuns(s) == {c \in Connectors : run[s][c] # NotSelected}
RunStatuses(s)  == {run[s][c] : c \in SelectedRuns(s)}

\* The result a user is shown is the one the stored runs justify, unless the
\* scan was cancelled, met its deadline or was refused for its identifier.
ReportMatchesRuns ==
  \A s \in Scans :
    /\ status[s] \in {"completed", "partial", "failed"}
    /\ ~cancelLogged[s] /\ ~expired[s] /\ verified[s]
    => status[s] = DeriveScanStatus(RunStatuses(s))

BeingExecuted(s) == \E w \in Workers : job[w] = s
InFlight(s)      == BeingExecuted(s) \/ cancelling[s] \/ s \in sweep

\* Without worker failures, a scan that ended by completion or cancellation and
\* that no session is still working on has no run left pending or running.
EndedScanIsClosed ==
  \A s \in Scans :
    status[s] \in {"completed", "partial", "cancelled"} /\ ~InFlight(s)
    => RunStatuses(s) \subseteq TerminalRun

\* While no worker fails, every call that came back with anything but a skip has its
\* row in the egress ledger once the scan is no longer executed, however the scan
\* ended and whoever else executed it.
EveryAnswerIsLedgered ==
  \A s \in Scans : ~BeingExecuted(s) => answered[s] \subseteq ledger[s]

(* Liveness.                                                               *)

\* Every scan ends and stays ended: lost enqueues, crashes, failed tasks and
\* stale writes are all caught by the deadline and the reconcile task.
EveryScanEnds == \A s \in Scans : <>[](status[s] \notin ActiveScan)

\* A scan that reaches a worker that does not die ends without the deadline.
EnqueuedScanFinishes ==
  \A s \in Scans : queue[s] > 0 ~> status[s] \in TerminalScan

-----------------------------------------------------------------------------
(* What the repository says and the code does not do.                      *)

\* "Consent + egress_ledger on every email send": a connector that the identifier was
\* sent to has its row once the scan is no longer executed.  It does not hold: a source
\* that answers 429 makes the call a skip, which gets no row.  No run checks it.
EverySendIsLedgered ==
  \A s \in Scans : ~BeingExecuted(s) => exposed[s] \subseteq ledger[s]

\* "Terminal states have no outgoing transitions."
TerminalIsFinal ==
  [][\A s \in Scans : status[s] \in TerminalScan => status'[s] = status[s]]_status

\* A deep scan that is enqueued gets its connectors run.  It does not hold, under
\* FairSpec with the event "deep": DeepConsentError leaves every run PENDING.  No run
\* checks it.
DeepScanRuns ==
  \A s \in Scans :
    (layer[s] = "deep" /\ queue[s] > 0) ~> (RunStatuses(s) # {"pending"})

=============================================================================

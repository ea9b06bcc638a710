-------------------------- MODULE ScanEngineProofs --------------------------
(***************************************************************************)
(* Proofs about the scan engine for every number of scans, connectors and  *)
(* workers, every quota and every choice of environment events.            *)
(*                                                                         *)
(* Placed says where a worker and a scan can be, and makes the types       *)
(* inductive.  CalledOnce and LateOnce are inductive relative to it and give *)
(* the two properties that hold whatever the environment does; Recorded    *)
(* needs that no task dies.  OneMessage is the conservation of a scan's    *)
(* Celery message; it needs that no message is delivered while its worker  *)
(* goes on, and gives CalledByOne, OverrunOnce and InStep.  Counted bounds   *)
(* the scans that hold or will take a place in the quota, Closing follows  *)
(* the runs of a scan that ends, and AnsweredBeforeRecorded relates the calls  *)
(* made to the ledger for the refinement of ConnectorDispatch.             *)
(***************************************************************************)
EXTENDS ScanEngine, ScanEngineRefinement, FiniteSetTheorems, TLAPS

-----------------------------------------------------------------------------
(* The inductive strengthening, part by part. *)

\* A worker that is not idle has a scan, and in the middle of a run a connector;
\* nothing refers to a scan before it is stored.
Placed ==
  /\ \A w \in Workers : pc[w] # "idle" <=> job[w] \in Scans
  /\ \A w \in Workers : held[w] => pc[w] # "idle"
  /\ \A w \in Workers :
       pc[w] \in {"checked", "calling", "called"} => current[w] \in Connectors
  /\ \A s \in Scans : status[s] = "absent" <=> request[s] \in {"idle", "admitted"}
  /\ \A s \in Scans :
       status[s] = "absent" =>
         /\ queue[s] = 0 /\ ~cancelling[s] /\ s \notin sweep
         /\ \A w \in Workers : job[w] # s

\* What an executor has called is no longer pending in the table ...
CalledNotPending ==
  \A w \in Workers, s \in Scans, c \in Connectors :
    /\ called[w][s][c] <= 1
    /\ status[s] = "absent" => called[w][s][c] = 0
    /\ called[w][s][c] > 0 => run[s][c] # "pending"

\* ... what it holds as pending it has not called ...
PendingUncalled ==
  \A w \in Workers, c \in Connectors :
    pc[w] # "idle" /\ memRun[w][c] = "pending" => called[w][job[w]][c] = 0

\* ... and neither what it is about to call, which it has committed as RUNNING.
CurrentUncalled ==
  \A w \in Workers :
    /\ pc[w] = "checked" => memRun[w][current[w]] = "pending"
    /\ pc[w] = "calling" => called[w][job[w]][current[w]] = 0
                            /\ run[job[w]][current[w]] # "pending"
    /\ pc[w] \in {"calling", "called"} => memRun[w][current[w]] # "pending"

CalledOnce == CalledNotPending /\ PendingUncalled /\ CurrentUncalled

\* A late call comes after the deadline, and a run is selected before it.
LateOnce ==
  \A w \in Workers :
    /\ late[w] <= 1
    /\ late[w] > 0 => pc[w] # "idle" /\ expired[job[w]]
    /\ pc[w] \in {"idle", "checked"} => late[w] = 0

\* What was answered is in the ledger, or about to be: its executor holds the result.
Recorded ==
  \A s \in Scans, c \in Connectors :
    c \in answered[s] =>
      \/ c \in ledger[s]
      \/ \E w \in Workers :
           pc[w] = "called" /\ job[w] = s /\ current[w] = c /\ outcome[w] # "skipped"

\* Without overlapping deliveries, one message per scan: queued or executed.
OneMessage ==
  /\ \A s \in Scans : queue[s] <= 1
  /\ \A s \in Scans : request[s] = "stored" => queue[s] = 0 /\ \A w \in Workers : job[w] # s
  /\ \A w \in Workers : pc[w] # "idle" => queue[job[w]] = 0
  /\ \A v, w \in Workers : pc[v] # "idle" /\ job[v] = job[w] => v = w

\* ... hence what its executor holds as pending, nobody has called.
CalledByOne ==
  /\ AtMostOneCall
  /\ \A v, w \in Workers, c \in Connectors :
       pc[w] # "idle" /\ memRun[w][c] = "pending" => called[v][job[w]][c] = 0
  /\ \A v, w \in Workers : pc[w] = "calling" => called[v][job[w]][current[w]] = 0

\* ... and a scan that was overrun is over: CANCELLED, or past its deadline.
OverrunOnce ==
  /\ \A s \in sweep : expired[s]
  /\ \A w \in Workers :
       /\ overrun[w] <= 1
       /\ overrun[w] > 0 => pc[w] # "idle" /\ (status[job[w]] = "cancelled" \/ expired[job[w]])
       /\ pc[w] \in {"idle", "loaded", "started", "checked"} => overrun[w] = 0

\* ... and while a scan is neither cancelled nor past its deadline, its executor's copies
\* are the rows; it has not ended before its executor has.
StatusesOf(row) == {row[c] : c \in {d \in Connectors : row[d] # NotSelected}}

InStep ==
  /\ \A s \in sweep : expired[s]
  /\ \A w \in Workers :
       pc[w] # "idle" /\ ~cancelLogged[job[w]] /\ ~expired[job[w]] =>
         /\ memRun[w] = run[job[w]] /\ memStatus[w] = status[job[w]]
         /\ status[job[w]] \in ActiveScan
  /\ \A s \in Scans :
       /\ status[s] \in {"completed", "partial", "failed"}
       /\ ~cancelLogged[s] /\ ~expired[s] /\ verified[s]
       => status[s] = DeriveScanStatus(StatusesOf(run[s]))

\* The statuses of a scan's runs, stored and copied, as a function of the row.
LEMMA StatusesOfRow ==
  /\ \A s \in Scans : RunStatuses(s) = StatusesOf(run[s])
  /\ \A w \in Workers : MemRunStatuses(w) = StatusesOf(memRun[w])
  BY DEF RunStatuses, SelectedRuns, StatusesOf, MemRunStatuses

-----------------------------------------------------------------------------
(* Types and placement. *)

\* The status derived from any set of run statuses is a scan status.
LEMMA DeriveType ==
  ASSUME NEW S
  PROVE  DeriveScanStatus(S) \in ScanStatus
BY DEF DeriveScanStatus, ScanStatus

\* Ending a task keeps the types of the session.
LEMMA EndTaskType ==
  ASSUME TypeOK, NEW w \in Workers, EndTask(w)
  PROVE  /\ pc' \in [Workers -> Stage]
         /\ job' \in [Workers -> Scans \cup {NoScan}]
         /\ held' \in [Workers -> BOOLEAN]
         /\ memStatus' \in [Workers -> ScanStatus]
         /\ memRun' \in [Workers -> [Connectors -> RunRow]]
         /\ todo' \in [Workers -> SUBSET Connectors]
         /\ current' \in [Workers -> Connectors \cup {NoConnector}]
         /\ outcome' \in [Workers -> Outcome]
         /\ late' \in [Workers -> Nat]
         /\ overrun' \in [Workers -> Nat]
BY DEF TypeOK, EndTask, Stage, ScanStatus, RunRow, NoRuns, Outcome

\* Closing the runs a session saw unfinished yields a row of runs.
LEMMA CloseType ==
  ASSUME NEW row \in [Connectors -> RunRow], NEW seen \in [Connectors -> RunRow],
         NEW final \in RunStatus
  PROVE  Close(row, seen, final) \in [Connectors -> RunRow]
BY DEF Close, RunRow

\* Every step keeps the types.
LEMMA TypeStep == TypeOK /\ Placed /\ [Next]_vars => TypeOK'
  <1> SUFFICES ASSUME TypeOK, Placed, [Next]_vars PROVE TypeOK'
    OBVIOUS
  <1>1. ASSUME NEW s \in Scans, Admit(s)
        PROVE  TypeOK'
    BY <1>1
    DEF Admit, TypeOK, rows, world, sessions, sweepers, record
  <1>2. ASSUME NEW s \in Scans, NEW l \in Layer, NEW selected \in SUBSET Connectors,
               Store(s, l, selected)
        PROVE  TypeOK'
    BY <1>2
    DEF Store, TypeOK, world, sessions, sweepers, record, ScanStatus, RunRow, RunStatus
  <1>3. ASSUME NEW s \in Scans, Enqueue(s)
        PROVE  TypeOK'
    BY <1>3
    DEF Enqueue, TypeOK, rows, world, sessions, sweepers, record
  <1>4. ASSUME NEW s \in Scans, LoseEnqueue(s)
        PROVE  TypeOK'
    BY <1>4
    DEF LoseEnqueue, TypeOK, rows, world, sessions, sweepers, record
  <1>5. ASSUME NEW s \in Scans, CancelLoad(s)
        PROVE  TypeOK'
    BY <1>5
    DEF CancelLoad, TypeOK, rows, world, broker, sessions, record
  <1>6. ASSUME NEW s \in Scans, CancelCommit(s)
        PROVE  TypeOK'
    BY <1>6, CloseType
    DEF CancelCommit, TypeOK, world, broker, sessions, ScanStatus, RunStatus, RunRow,
        NoRuns
  <1>7. ASSUME SweepLoad
        PROVE  TypeOK'
    BY <1>7
    DEF SweepLoad, TypeOK, rows, world, broker, sessions, record, StaleScans, RunRow,
        NoRuns
  <1>8. ASSUME SweepCommit
        PROVE  TypeOK'
    BY <1>8, CloseType
    DEF SweepCommit, TypeOK, world, broker, sessions, record, ScanStatus, RunStatus,
        RunRow, NoRuns
  <1>9. ASSUME NEW w \in Workers, NEW s \in Scans, Take(w, s)
        PROVE  TypeOK'
    <2>1. status[s] \in ScanStatus
      BY <1>9 DEF Take, TypeOK, Placed
    <2>2. CASE status[s] \in TerminalScan
      BY <1>9, <2>2 DEF Take, TypeOK, rows, world, sweepers, record
    <2>3. CASE status[s] \notin TerminalScan
      <3>1. /\ pc' = [pc EXCEPT ![w] = "loaded"]
            /\ job' = [job EXCEPT ![w] = s]
            /\ held' = [held EXCEPT ![w] = TRUE]
            /\ memStatus' = [memStatus EXCEPT ![w] = status[s]]
            /\ memRun' = [memRun EXCEPT ![w] = run[s]]
            /\ queue' = [queue EXCEPT ![s] = @ - 1]
            /\ queue[s] > 0
        BY <1>9, <2>3 DEF Take
      <3>2. /\ pc' \in [Workers -> Stage]
            /\ job' \in [Workers -> Scans \cup {NoScan}]
            /\ held' \in [Workers -> BOOLEAN]
            /\ memStatus' \in [Workers -> ScanStatus]
        BY <3>1, <2>1 DEF TypeOK, Stage
      <3>3. memRun' \in [Workers -> [Connectors -> RunRow]]
        BY <3>1 DEF TypeOK
      <3>4. queue' \in [Scans -> Nat]
        BY <3>1 DEF TypeOK
      <3> QED
        BY <1>9, <3>2, <3>3, <3>4 DEF Take, TypeOK, rows, world, sweepers, record
    <2> QED
      BY <2>2, <2>3
  <1>10. ASSUME NEW w \in Workers, StartExpired(w)
        PROVE  TypeOK'
    BY <1>10, EndTaskType, CloseType
    DEF StartExpired, TypeOK, world, broker, sweepers, ScanStatus, RunStatus
  <1>11. ASSUME NEW w \in Workers, Start(w)
        PROVE  TypeOK'
    BY <1>11
    DEF Start, TypeOK, world, broker, sweepers, record, ScanStatus, Stage
  <1>12. ASSUME NEW w \in Workers, RefuseUnverified(w)
        PROVE  TypeOK'
    BY <1>12, EndTaskType
    DEF RefuseUnverified, TypeOK, world, broker, sweepers, ScanStatus
  <1>13. ASSUME NEW w \in Workers, DeepConsentError(w)
        PROVE  TypeOK'
    BY <1>13, EndTaskType
    DEF DeepConsentError, TypeOK, rows, world, broker, sweepers
  <1>14. ASSUME NEW w \in Workers, EnterLoop(w)
        PROVE  TypeOK'
    BY <1>14
    DEF EnterLoop, TypeOK, rows, world, broker, sweepers, record, Stage
  <1>15. ASSUME NEW w \in Workers, SeeCancelled(w)
        PROVE  TypeOK'
    BY <1>15
    DEF SeeCancelled, Refresh, TypeOK, Placed, rows, world, broker, sweepers, record, Stage,
        ScanStatus
  <1>16. ASSUME NEW w \in Workers, NEW c \in Connectors, SeeExpired(w, c)
        PROVE  TypeOK'
    <2>1. status' \in [Scans -> ScanStatus \cup {"absent"}]
      BY <1>16 DEF SeeExpired, TypeOK, ScanStatus
    <2>2. run' = run \/ run' = [run EXCEPT ![job[w]][c] = "timed_out"]
      BY <1>16 DEF SeeExpired
    <2>3. run' \in [Scans -> [Connectors -> RunRow]]
      <3>1. run \in [Scans -> [Connectors -> RunRow]] /\ "timed_out" \in RunRow
        BY DEF TypeOK, RunRow, RunStatus
      <3> QED
        BY <2>2, <3>1
    <2> QED
      BY <1>16, <2>1, <2>3, EndTaskType DEF SeeExpired, TypeOK, world, broker, sweepers
  <1>17. ASSUME NEW w \in Workers, NEW c \in Connectors, PassOver(w, c)
        PROVE  TypeOK'
    BY <1>17
    DEF PassOver, Refresh, TypeOK, rows, world, broker, sweepers, record, Placed
  <1>18. ASSUME NEW w \in Workers, NEW c \in Connectors, Select(w, c)
        PROVE  TypeOK'
    BY <1>18
    DEF Select, Refresh, TypeOK, rows, world, broker, sweepers, record, Placed, Stage
  <1>19. ASSUME NEW w \in Workers, SkipDisabled(w)
        PROVE  TypeOK'
    BY <1>19
    DEF SkipDisabled, TypeOK, world, broker, sweepers, record, Placed, WriteRun, NextRun,
        Stage, RunRow, RunStatus
  <1>20. ASSUME NEW w \in Workers, Begin(w)
        PROVE  TypeOK'
    BY <1>20
    DEF Begin, TypeOK, world, broker, sweepers, Placed, WriteRun, Stage, RunRow, RunStatus
  <1>21. ASSUME NEW w \in Workers, NEW o \in Outcome, CallConnector(w, o)
        PROVE  TypeOK'
    <2>1. job[w] \in Scans /\ current[w] \in Connectors
      BY <1>21 DEF CallConnector, Placed
    <2>2. exposed' \in [Scans -> SUBSET Connectors] /\ answered' \in [Scans -> SUBSET Connectors]
      <3>1. /\ exposed' \in {exposed, [exposed EXCEPT ![job[w]] = @ \cup {current[w]}]}
            /\ answered' \in {answered, [answered EXCEPT ![job[w]] = @ \cup {current[w]}]}
        BY <1>21 DEF CallConnector
      <3>2. ASSUME NEW asked \in [Scans -> SUBSET Connectors]
            PROVE  [asked EXCEPT ![job[w]] = @ \cup {current[w]}] \in [Scans -> SUBSET Connectors]
        BY <2>1
      <3>3. exposed \in [Scans -> SUBSET Connectors] /\ answered \in [Scans -> SUBSET Connectors]
        BY DEF TypeOK
      <3> QED
        BY <3>1, <3>2, <3>3
    <2> QED
      BY <1>21, <2>1, <2>2 DEF CallConnector, TypeOK, rows, world, broker, sweepers, Stage
  <1>22. ASSUME NEW w \in Workers, RecordResult(w)
        PROVE  TypeOK'
    BY <1>22
    DEF RecordResult, RecordEgress, TypeOK, world, broker, sweepers, Placed, WriteRun, NextRun,
        Stage, RunRow, RunStatus, Outcome
  <1>23. ASSUME NEW w \in Workers, LeaveLoop(w)
        PROVE  TypeOK'
    BY <1>23
    DEF LeaveLoop, TypeOK, rows, world, broker, sweepers, record, Stage
  <1>24. ASSUME NEW w \in Workers, Finalize(w)
        PROVE  TypeOK'
    BY <1>24, EndTaskType, DeriveType
    DEF Finalize, TypeOK, world, broker, sweepers
  <1>25. ASSUME NEW w \in Workers, Crash(w)
        PROVE  TypeOK'
    BY <1>25, EndTaskType
    DEF Crash, TypeOK, rows, world, sweepers, Placed
  <1>26. ASSUME NEW w \in Workers, TaskFails(w)
        PROVE  TypeOK'
    BY <1>26, EndTaskType
    DEF TaskFails, TypeOK, rows, world, broker, sweepers
  <1>27. ASSUME NEW w \in Workers, Redeliver(w)
        PROVE  TypeOK'
    <2>1. queue' \in [Scans -> Nat]
      BY <1>27 DEF Redeliver, TypeOK, Placed
    <2> QED
      BY <1>27, <2>1 DEF Redeliver, TypeOK, rows, world, sweepers, record
  <1>28. ASSUME NEW s \in Scans, DeadlinePasses(s)
        PROVE  TypeOK'
    BY <1>28
    DEF DeadlinePasses, TypeOK, rows, broker, sessions, sweepers, record
  <1>29. ASSUME NEW s \in Scans, IdentifierLapses(s)
        PROVE  TypeOK'
    BY <1>29
    DEF IdentifierLapses, TypeOK, rows, broker, sessions, sweepers, record
  <1>30. ASSUME UNCHANGED vars
        PROVE  TypeOK'
    BY <1>30
    DEF vars, TypeOK, rows, world, broker, sessions, sweepers, record
  <1> QED
    BY <1>1, <1>2, <1>3, <1>4, <1>5, <1>6, <1>7, <1>8, <1>9, <1>10, <1>11, <1>12, <1>13,
       <1>14, <1>15, <1>16, <1>17, <1>18, <1>19, <1>20, <1>21, <1>22, <1>23, <1>24, <1>25,
       <1>26, <1>27, <1>28, <1>29, <1>30
    DEF Next, Create, Cancel, Reconcile, Execute, Fault

\* Every step keeps workers and scans in place.
LEMMA PlacedStep == TypeOK /\ Placed /\ [Next]_vars => Placed'
  <1> SUFFICES ASSUME TypeOK, Placed, [Next]_vars PROVE Placed'
    OBVIOUS
  <1>1. ASSUME NEW s \in Scans, Admit(s)
        PROVE  Placed'
    BY <1>1, NoneAssumption
    DEF Admit, TypeOK, Placed, rows, world, sessions, sweepers, record
  <1>2. ASSUME NEW s \in Scans, NEW l \in Layer, NEW selected \in SUBSET Connectors,
               Store(s, l, selected)
        PROVE  Placed'
    BY <1>2, NoneAssumption
    DEF Store, TypeOK, Placed, world, sessions, sweepers, record
  <1>3. ASSUME NEW s \in Scans, Enqueue(s)
        PROVE  Placed'
    BY <1>3, NoneAssumption
    DEF Enqueue, TypeOK, Placed, rows, world, sessions, sweepers, record
  <1>4. ASSUME NEW s \in Scans, LoseEnqueue(s)
        PROVE  Placed'
    BY <1>4, NoneAssumption
    DEF LoseEnqueue, TypeOK, Placed, rows, world, sessions, sweepers, record
  <1>5. ASSUME NEW s \in Scans, CancelLoad(s)
        PROVE  Placed'
    BY <1>5, NoneAssumption
    DEF CancelLoad, TypeOK, Placed, rows, world, broker, sessions, record, ActiveScan
  <1>6. ASSUME NEW s \in Scans, CancelCommit(s)
        PROVE  Placed'
    BY <1>6, NoneAssumption
    DEF CancelCommit, TypeOK, Placed, world, broker, sessions
  <1>7. ASSUME SweepLoad
        PROVE  Placed'
    BY <1>7, NoneAssumption
    DEF SweepLoad, TypeOK, Placed, rows, world, broker, sessions, record, StaleScans,
        ActiveScan, ScanStatus
  <1>8. ASSUME SweepCommit
        PROVE  Placed'
    BY <1>8, NoneAssumption
    DEF SweepCommit, TypeOK, Placed, world, broker, sessions, record
  <1>9. ASSUME NEW w \in Workers, NEW s \in Scans, Take(w, s)
        PROVE  Placed'
    <2>1. CASE status[s] \in TerminalScan
      BY <1>9, <2>1 DEF Take, TypeOK, Placed, rows, world, sweepers, record
    <2>3. CASE status[s] \notin TerminalScan
      <3>1. /\ pc' = [pc EXCEPT ![w] = "loaded"]
            /\ job' = [job EXCEPT ![w] = s]
            /\ held' = [held EXCEPT ![w] = TRUE]
            /\ memStatus' = [memStatus EXCEPT ![w] = status[s]]
            /\ memRun' = [memRun EXCEPT ![w] = run[s]]
            /\ queue' = [queue EXCEPT ![s] = @ - 1]
            /\ queue[s] > 0
        BY <1>9, <2>3 DEF Take
      <3>2. \A v \in Workers :
              /\ pc'[v] = IF v = w THEN "loaded" ELSE pc[v]
              /\ job'[v] = IF v = w THEN s ELSE job[v]
              /\ held'[v] = IF v = w THEN TRUE ELSE held[v]
        BY <3>1 DEF TypeOK
      <3>3. \A r \in Scans : r # s => queue'[r] = queue[r]
        BY <3>1 DEF TypeOK
      <3>4. UNCHANGED <<status, request, cancelling, sweep, current>>
        BY <1>9 DEF Take, rows, sweepers
      <3>5. status[s] # "absent"
        BY <3>1 DEF Placed, TypeOK
      <3>6. \A v \in Workers :
              (pc'[v] # "idle" <=> job'[v] \in Scans) /\ (held'[v] => pc'[v] # "idle")
        BY <3>2 DEF Placed
      <3>7. \A v \in Workers :
              pc'[v] \in {"checked", "calling", "called"} => current'[v] \in Connectors
        BY <3>2, <3>4 DEF Placed
      <3>8. \A r \in Scans : status'[r] = "absent" =>
              queue'[r] = 0 /\ ~cancelling'[r] /\ r \notin sweep' /\ \A v \in Workers : job'[v] # r
        BY <3>2, <3>3, <3>4, <3>5 DEF Placed
      <3> QED
        BY <3>4, <3>6, <3>7, <3>8 DEF Placed
    <2> QED
      BY <2>1, <2>3
  <1>10. ASSUME NEW w \in Workers, StartExpired(w)
        PROVE  Placed'
    BY <1>10, NoneAssumption
    DEF StartExpired, TypeOK, Placed, world, broker, sweepers, EndTask
  <1>11. ASSUME NEW w \in Workers, Start(w)
        PROVE  Placed'
    BY <1>11, NoneAssumption
    DEF Start, TypeOK, Placed, world, broker, sweepers, record
  <1>12. ASSUME NEW w \in Workers, RefuseUnverified(w)
        PROVE  Placed'
    BY <1>12, NoneAssumption
    DEF RefuseUnverified, TypeOK, Placed, world, broker, sweepers, EndTask
  <1>13. ASSUME NEW w \in Workers, DeepConsentError(w)
        PROVE  Placed'
    BY <1>13, NoneAssumption
    DEF DeepConsentError, TypeOK, Placed, rows, world, broker, sweepers, EndTask
  <1>14. ASSUME NEW w \in Workers, EnterLoop(w)
        PROVE  Placed'
    BY <1>14, NoneAssumption
    DEF EnterLoop, TypeOK, Placed, rows, world, broker, sweepers, record
  <1>15. ASSUME NEW w \in Workers, SeeCancelled(w)
        PROVE  Placed'
    BY <1>15, NoneAssumption
    DEF SeeCancelled, TypeOK, Placed, rows, world, broker, sweepers, record
  <1>16. ASSUME NEW w \in Workers, NEW c \in Connectors, SeeExpired(w, c)
        PROVE  Placed'
    BY <1>16, NoneAssumption
    DEF SeeExpired, TypeOK, Placed, world, broker, sweepers, EndTask
  <1>17. ASSUME NEW w \in Workers, NEW c \in Connectors, PassOver(w, c)
        PROVE  Placed'
    BY <1>17, NoneAssumption
    DEF PassOver, TypeOK, Placed, rows, world, broker, sweepers, record
  <1>18. ASSUME NEW w \in Workers, NEW c \in Connectors, Select(w, c)
        PROVE  Placed'
    BY <1>18, NoneAssumption
    DEF Select, TypeOK, Placed, rows, world, broker, sweepers, record
  <1>19. ASSUME NEW w \in Workers, SkipDisabled(w)
        PROVE  Placed'
    BY <1>19, NoneAssumption
    DEF SkipDisabled, TypeOK, Placed, world, broker, sweepers, record, WriteRun, NextRun
  <1>20. ASSUME NEW w \in Workers, Begin(w)
        PROVE  Placed'
    BY <1>20, NoneAssumption
    DEF Begin, TypeOK, Placed, world, broker, sweepers, WriteRun
  <1>21. ASSUME NEW w \in Workers, NEW o \in Outcome, CallConnector(w, o)
        PROVE  Placed'
    BY <1>21, NoneAssumption
    DEF CallConnector, TypeOK, Placed, rows, world, broker, sweepers
  <1>22. ASSUME NEW w \in Workers, RecordResult(w)
        PROVE  Placed'
    BY <1>22, NoneAssumption
    DEF RecordResult, TypeOK, Placed, world, broker, sweepers, WriteRun, NextRun
  <1>23. ASSUME NEW w \in Workers, LeaveLoop(w)
        PROVE  Placed'
    BY <1>23, NoneAssumption
    DEF LeaveLoop, TypeOK, Placed, rows, world, broker, sweepers, record
  <1>24. ASSUME NEW w \in Workers, Finalize(w)
        PROVE  Placed'
    <2>1. job[w] \in Scans /\ status[job[w]] # "absent"
      BY <1>24 DEF Finalize, TypeOK, Placed
    <2>2. \A s \in Scans : status'[s] = "absent" <=> status[s] = "absent"
      BY <1>24, <2>1, DeriveType DEF Finalize, TypeOK, ScanStatus
    <2> QED
      BY <1>24, <2>2, NoneAssumption DEF Finalize, EndTask, TypeOK, Placed, broker, sweepers
  <1>25. ASSUME NEW w \in Workers, Crash(w)
        PROVE  Placed'
    BY <1>25, NoneAssumption
    DEF Crash, TypeOK, Placed, rows, world, sweepers, EndTask
  <1>26. ASSUME NEW w \in Workers, TaskFails(w)
        PROVE  Placed'
    BY <1>26, NoneAssumption
    DEF TaskFails, TypeOK, Placed, rows, world, broker, sweepers, EndTask
  <1>27. ASSUME NEW w \in Workers, Redeliver(w)
        PROVE  Placed'
    BY <1>27, NoneAssumption
    DEF Redeliver, TypeOK, Placed, rows, world, sweepers, record
  <1>28. ASSUME NEW s \in Scans, DeadlinePasses(s)
        PROVE  Placed'
    BY <1>28, NoneAssumption
    DEF DeadlinePasses, TypeOK, Placed, rows, broker, sessions, sweepers, record
  <1>29. ASSUME NEW s \in Scans, IdentifierLapses(s)
        PROVE  Placed'
    BY <1>29, NoneAssumption
    DEF IdentifierLapses, TypeOK, Placed, rows, broker, sessions, sweepers, record
  <1>30. ASSUME UNCHANGED vars
        PROVE  Placed'
    BY <1>30
    DEF vars, TypeOK, Placed, rows, world, broker, sessions, sweepers, record
  <1> QED
    BY <1>1, <1>2, <1>3, <1>4, <1>5, <1>6, <1>7, <1>8, <1>9, <1>10, <1>11, <1>12, <1>13,
       <1>14, <1>15, <1>16, <1>17, <1>18, <1>19, <1>20, <1>21, <1>22, <1>23, <1>24, <1>25,
       <1>26, <1>27, <1>28, <1>29, <1>30
    DEF Next, Create, Cancel, Reconcile, Execute, Fault

\* The type invariant, and with it Placed, for every reachable state.
THEOREM TypeCorrect == Spec => [](TypeOK /\ Placed)
<1>1. Init => TypeOK /\ Placed
  BY NoneAssumption DEF Init, TypeOK, Placed, ScanStatus, Layer, RunRow, NoRuns, Stage, Outcome
<1> QED
  BY <1>1, TypeStep, PlacedStep, PTL DEF Spec

-----------------------------------------------------------------------------
(* One call per executor, and one late call. *)

\* RUNNING is committed before the call, so no step makes a second one.
LEMMA CalledStep ==
  TypeOK /\ Placed /\ CalledOnce /\ [Next]_vars => CalledOnce'
  <1> SUFFICES ASSUME TypeOK, Placed, CalledOnce, [Next]_vars PROVE CalledOnce'
    OBVIOUS
  <1>1. ASSUME NEW s \in Scans, Admit(s)
        PROVE  CalledOnce'
    BY <1>1
    DEF Admit, TypeOK, Placed, CalledOnce, CalledNotPending, PendingUncalled, CurrentUncalled,
        rows, world, sessions, sweepers, record
  <1>2. ASSUME NEW s \in Scans, NEW l \in Layer, NEW selected \in SUBSET Connectors,
               Store(s, l, selected)
        PROVE  CalledOnce'
    BY <1>2
    DEF Store, TypeOK, Placed, CalledOnce, CalledNotPending, PendingUncalled, CurrentUncalled,
        world, sessions, sweepers, record
  <1>3. ASSUME NEW s \in Scans, Enqueue(s)
        PROVE  CalledOnce'
    BY <1>3
    DEF Enqueue, TypeOK, Placed, CalledOnce, CalledNotPending, PendingUncalled, CurrentUncalled,
        rows, world, sessions, sweepers, record
  <1>4. ASSUME NEW s \in Scans, LoseEnqueue(s)
        PROVE  CalledOnce'
    BY <1>4
    DEF LoseEnqueue, TypeOK, Placed, CalledOnce, CalledNotPending, PendingUncalled,
        CurrentUncalled, rows, world, sessions, sweepers, record
  <1>5. ASSUME NEW s \in Scans, CancelLoad(s)
        PROVE  CalledOnce'
    BY <1>5
    DEF CancelLoad, TypeOK, Placed, CalledOnce, CalledNotPending, PendingUncalled, CurrentUncalled,
        rows, world, broker, sessions, record
  <1>6. ASSUME NEW s \in Scans, CancelCommit(s)
        PROVE  CalledOnce'
    BY <1>6
    DEF CancelCommit, TypeOK, Placed, CalledOnce, CalledNotPending, PendingUncalled,
        CurrentUncalled, world, broker, sessions, Close
  <1>7. ASSUME SweepLoad
        PROVE  CalledOnce'
    BY <1>7
    DEF SweepLoad, TypeOK, Placed, CalledOnce, CalledNotPending, PendingUncalled, CurrentUncalled,
        rows, world, broker, sessions, record
  <1>8. ASSUME SweepCommit
        PROVE  CalledOnce'
    BY <1>8
    DEF SweepCommit, TypeOK, Placed, CalledOnce, CalledNotPending, PendingUncalled,
        CurrentUncalled, world, broker, sessions, record, Close
  <1>9. ASSUME NEW w \in Workers, NEW s \in Scans, Take(w, s)
        PROVE  CalledOnce'
    <2>1. CASE status[s] \in TerminalScan
      BY <1>9, <2>1
      DEF Take, TypeOK, Placed, CalledOnce, CalledNotPending, PendingUncalled, CurrentUncalled,
          rows, world, sweepers, record
    <2>3. CASE status[s] \notin TerminalScan
      <3>1. /\ pc' = [pc EXCEPT ![w] = "loaded"]
            /\ job' = [job EXCEPT ![w] = s]
            /\ held' = [held EXCEPT ![w] = TRUE]
            /\ memStatus' = [memStatus EXCEPT ![w] = status[s]]
            /\ memRun' = [memRun EXCEPT ![w] = run[s]]
            /\ queue' = [queue EXCEPT ![s] = @ - 1]
            /\ queue[s] > 0
        BY <1>9, <2>3 DEF Take
      <3>2. UNCHANGED <<called, run, status, current>>
        BY <1>9 DEF Take, rows, record
      <3>3. \A v \in Workers : v # w => pc'[v] = pc[v] /\ job'[v] = job[v] /\ memRun'[v] = memRun[v]
        BY <3>1 DEF TypeOK
      <3>4. pc'[w] = "loaded" /\ job'[w] = s /\ memRun'[w] = run[s]
        BY <3>1 DEF TypeOK
      <3>5. CalledNotPending'
        BY <3>2 DEF CalledOnce, CalledNotPending
      <3>6. PendingUncalled'
        <4>1. \A c \in Connectors : run[s][c] = "pending" => called[w][s][c] = 0
          BY DEF CalledOnce, CalledNotPending, TypeOK
        <4> QED
          BY <3>2, <3>3, <3>4, <4>1 DEF CalledOnce, PendingUncalled
      <3>7. CurrentUncalled'
        BY <3>2, <3>3, <3>4 DEF CalledOnce, CurrentUncalled
      <3> QED
        BY <3>5, <3>6, <3>7 DEF CalledOnce
    <2> QED
      BY <2>1, <2>3
  <1>10. ASSUME NEW w \in Workers, StartExpired(w)
        PROVE  CalledOnce'
    BY <1>10
    DEF StartExpired, TypeOK, Placed, CalledOnce, CalledNotPending, PendingUncalled,
        CurrentUncalled, world, broker, sweepers, Close, EndTask
  <1>11. ASSUME NEW w \in Workers, Start(w)
        PROVE  CalledOnce'
    BY <1>11
    DEF Start, TypeOK, Placed, CalledOnce, CalledNotPending, PendingUncalled, CurrentUncalled,
        world, broker, sweepers, record
  <1>12. ASSUME NEW w \in Workers, RefuseUnverified(w)
        PROVE  CalledOnce'
    BY <1>12
    DEF RefuseUnverified, TypeOK, Placed, CalledOnce, CalledNotPending, PendingUncalled,
        CurrentUncalled, world, broker, sweepers, EndTask
  <1>13. ASSUME NEW w \in Workers, DeepConsentError(w)
        PROVE  CalledOnce'
    BY <1>13
    DEF DeepConsentError, TypeOK, Placed, CalledOnce, CalledNotPending, PendingUncalled,
        CurrentUncalled, rows, world, broker, sweepers, EndTask
  <1>14. ASSUME NEW w \in Workers, EnterLoop(w)
        PROVE  CalledOnce'
    BY <1>14
    DEF EnterLoop, TypeOK, Placed, CalledOnce, CalledNotPending, PendingUncalled, CurrentUncalled,
        rows, world, broker, sweepers, record
  <1>15. ASSUME NEW w \in Workers, SeeCancelled(w)
        PROVE  CalledOnce'
    BY <1>15
    DEF SeeCancelled, Refresh, TypeOK, Placed, CalledOnce, CalledNotPending, PendingUncalled,
        CurrentUncalled, rows, world, broker, sweepers, record
  <1>16. ASSUME NEW w \in Workers, NEW c \in Connectors, SeeExpired(w, c)
        PROVE  CalledOnce'
    <2>1. \A s \in Scans, d \in Connectors : run'[s][d] = "pending" => run[s][d] = "pending"
      <3>1. run' = run \/ run' = [run EXCEPT ![job[w]][c] = "timed_out"]
        BY <1>16 DEF SeeExpired
      <3>2. CASE run' = run
        BY <3>2
      <3>3. CASE run' = [run EXCEPT ![job[w]][c] = "timed_out"]
        <4>1. run \in [Scans -> [Connectors -> RunRow]]
          BY DEF TypeOK
        <4> QED
          BY <3>3, <4>1
      <3> QED
        BY <3>1, <3>2, <3>3
    <2>2. \A s \in Scans : status'[s] = "absent" => status[s] = "absent"
      BY <1>16 DEF SeeExpired, TypeOK
    <2>3. UNCHANGED called /\ EndTask(w)
      BY <1>16 DEF SeeExpired
    <2>4. CalledNotPending'
      BY <2>1, <2>2, <2>3 DEF CalledOnce, CalledNotPending
    <2>5. PendingUncalled'
      BY <2>3 DEF CalledOnce, PendingUncalled, EndTask, TypeOK
    <2>6. CurrentUncalled'
      BY <2>1, <2>3, NoneAssumption DEF CalledOnce, CurrentUncalled, EndTask, TypeOK, Placed
    <2> QED
      BY <2>4, <2>5, <2>6 DEF CalledOnce
  <1>17. ASSUME NEW w \in Workers, NEW c \in Connectors, PassOver(w, c)
        PROVE  CalledOnce'
    BY <1>17
    DEF PassOver, Refresh, TypeOK, Placed, CalledOnce, CalledNotPending, PendingUncalled,
        CurrentUncalled,
        rows, world, broker, sweepers, record
  <1>18. ASSUME NEW w \in Workers, NEW c \in Connectors, Select(w, c)
        PROVE  CalledOnce'
    BY <1>18
    DEF Select, Refresh, TypeOK, Placed, CalledOnce, CalledNotPending, PendingUncalled,
        CurrentUncalled,
        rows, world, broker, sweepers, record
  <1>19. ASSUME NEW w \in Workers, SkipDisabled(w)
        PROVE  CalledOnce'
    BY <1>19
    DEF SkipDisabled, TypeOK, Placed, CalledOnce, CalledNotPending, PendingUncalled,
        CurrentUncalled, world, broker, sweepers, record, WriteRun, NextRun
  <1>20. ASSUME NEW w \in Workers, Begin(w)
        PROVE  CalledOnce'
    BY <1>20
    DEF Begin, TypeOK, Placed, CalledOnce, CalledNotPending, PendingUncalled, CurrentUncalled,
        world, broker, sweepers, WriteRun
  <1>21. ASSUME NEW w \in Workers, NEW o \in Outcome, CallConnector(w, o)
        PROVE  CalledOnce'
    <2>1. job[w] \in Scans /\ current[w] \in Connectors
      BY <1>21 DEF CallConnector, Placed
    <2>2. \A v \in Workers, s \in Scans, c \in Connectors :
            called'[v][s][c] = called[v][s][c]
              \/ (v = w /\ s = job[w] /\ c = current[w] /\ called'[v][s][c] = called[v][s][c] + 1)
      BY <1>21, <2>1 DEF CallConnector, TypeOK
    <2>3. UNCHANGED <<status, run, job, memRun, current>>
      BY <1>21 DEF CallConnector, rows
    <2>4. \A v \in Workers : pc'[v] = IF v = w THEN "called" ELSE pc[v]
      BY <1>21 DEF CallConnector, TypeOK
    <2>5. pc[w] = "calling"
      BY <1>21 DEF CallConnector
    <2>6. CalledNotPending'
      BY <2>1, <2>2, <2>3, <2>5 DEF CalledOnce, CalledNotPending, CurrentUncalled, Placed, TypeOK
    <2>7. PendingUncalled'
      BY <2>2, <2>3, <2>4, <2>5 DEF CalledOnce, PendingUncalled, CurrentUncalled, Placed
    <2>8. CurrentUncalled'
      BY <2>2, <2>3, <2>4, <2>5 DEF CalledOnce, CurrentUncalled, Placed, TypeOK
    <2> QED
      BY <2>6, <2>7, <2>8 DEF CalledOnce
  <1>22. ASSUME NEW w \in Workers, RecordResult(w)
        PROVE  CalledOnce'
    <2>1. job[w] \in Scans /\ current[w] \in Connectors /\ outcome[w] # "pending"
      BY <1>22 DEF RecordResult, Placed, TypeOK, Outcome
    <2>2. UNCHANGED <<called, status, job>>
      BY <1>22 DEF RecordResult
    <2>3. \A s \in Scans, c \in Connectors : run'[s][c] = run[s][c] \/ run'[s][c] = outcome[w]
      BY <1>22, <2>1 DEF RecordResult, WriteRun, TypeOK
    <2>4. \A v \in Workers, c \in Connectors :
            memRun'[v][c] = memRun[v][c] \/ memRun'[v][c] = outcome[w]
      BY <1>22, <2>1 DEF RecordResult, WriteRun, TypeOK
    <2>5. \A v \in Workers : v # w =>
            pc'[v] = pc[v] /\ current'[v] = current[v] /\ memRun'[v] = memRun[v]
      BY <1>22 DEF RecordResult, WriteRun, NextRun, TypeOK
    <2>6. pc[w] = "called" /\ pc'[w] = "loop"
      BY <1>22 DEF RecordResult, NextRun, TypeOK
    <2>7. CalledNotPending'
      BY <2>1, <2>2, <2>3 DEF CalledOnce, CalledNotPending
    <2>8. PendingUncalled'
      BY <2>1, <2>2, <2>4, <2>5, <2>6 DEF CalledOnce, PendingUncalled
    <2>9. CurrentUncalled'
      BY <2>1, <2>2, <2>3, <2>5, <2>6 DEF CalledOnce, CurrentUncalled, Placed
    <2> QED
      BY <2>7, <2>8, <2>9 DEF CalledOnce
  <1>23. ASSUME NEW w \in Workers, LeaveLoop(w)
        PROVE  CalledOnce'
    BY <1>23
    DEF LeaveLoop, TypeOK, Placed, CalledOnce, CalledNotPending, PendingUncalled, CurrentUncalled,
        rows, world, broker, sweepers, record
  <1>24. ASSUME NEW w \in Workers, Finalize(w)
        PROVE  CalledOnce'
    <2>1. UNCHANGED <<called, run>> /\ EndTask(w)
      BY <1>24 DEF Finalize, record
    <2>2. \A s \in Scans : status'[s] = "absent" => status[s] = "absent"
      BY <1>24, DeriveType DEF Finalize, TypeOK, ScanStatus
    <2> QED
      BY <2>1, <2>2 DEF CalledOnce, CalledNotPending, PendingUncalled, CurrentUncalled, EndTask,
              TypeOK
  <1>25. ASSUME NEW w \in Workers, Crash(w)
        PROVE  CalledOnce'
    BY <1>25
    DEF Crash, TypeOK, Placed, CalledOnce, CalledNotPending, PendingUncalled, CurrentUncalled,
        rows, world, sweepers, EndTask
  <1>26. ASSUME NEW w \in Workers, TaskFails(w)
        PROVE  CalledOnce'
    BY <1>26
    DEF TaskFails, TypeOK, Placed, CalledOnce, CalledNotPending, PendingUncalled, CurrentUncalled,
        rows, world, broker, sweepers, EndTask
  <1>27. ASSUME NEW w \in Workers, Redeliver(w)
        PROVE  CalledOnce'
    BY <1>27
    DEF Redeliver, TypeOK, Placed, CalledOnce, CalledNotPending, PendingUncalled, CurrentUncalled,
        rows, world, sweepers, record
  <1>28. ASSUME NEW s \in Scans, DeadlinePasses(s)
        PROVE  CalledOnce'
    BY <1>28
    DEF DeadlinePasses, TypeOK, Placed, CalledOnce, CalledNotPending, PendingUncalled,
        CurrentUncalled, rows, broker, sessions, sweepers, record
  <1>29. ASSUME NEW s \in Scans, IdentifierLapses(s)
        PROVE  CalledOnce'
    BY <1>29
    DEF IdentifierLapses, TypeOK, Placed, CalledOnce, CalledNotPending, PendingUncalled,
        CurrentUncalled, rows, broker, sessions, sweepers, record
  <1>30. ASSUME UNCHANGED vars
        PROVE  CalledOnce'
    BY <1>30
    DEF vars, TypeOK, Placed, CalledOnce, CalledNotPending, PendingUncalled, CurrentUncalled, rows,
        world, broker, sessions, sweepers, record
  <1> QED
    BY <1>1, <1>2, <1>3, <1>4, <1>5, <1>6, <1>7, <1>8, <1>9, <1>10, <1>11, <1>12, <1>13,
       <1>14, <1>15, <1>16, <1>17, <1>18, <1>19, <1>20, <1>21, <1>22, <1>23, <1>24, <1>25,
       <1>26, <1>27, <1>28, <1>29, <1>30
    DEF Next, Create, Cancel, Reconcile, Execute, Fault

\* No executor calls a connector twice for one scan: not after a crash, a failed
\* task, a redelivery, or while another executor works on the same scan.
THEOREM OneCallPerExecutorHolds == Spec => []OneCallPerExecutor
<1>1. Init => CalledOnce
  BY DEF Init, CalledOnce, CalledNotPending, PendingUncalled, CurrentUncalled
<1>2. CalledOnce => OneCallPerExecutor
  BY DEF CalledOnce, CalledNotPending, OneCallPerExecutor
<1> QED
  BY <1>1, <1>2, CalledStep, TypeCorrect, PTL DEF Spec

\* A run is selected before the deadline; only that one is called after it.
LEMMA LateStep ==
  TypeOK /\ Placed /\ LateOnce /\ [Next]_vars => LateOnce'
  <1> SUFFICES ASSUME TypeOK, Placed, LateOnce, [Next]_vars PROVE LateOnce'
    OBVIOUS
  <1>1. ASSUME NEW s \in Scans, Admit(s)
        PROVE  LateOnce'
    BY <1>1
    DEF Admit, TypeOK, Placed, LateOnce, rows, world, sessions, sweepers, record
  <1>2. ASSUME NEW s \in Scans, NEW l \in Layer, NEW selected \in SUBSET Connectors,
               Store(s, l, selected)
        PROVE  LateOnce'
    BY <1>2
    DEF Store, TypeOK, Placed, LateOnce, world, sessions, sweepers, record
  <1>3. ASSUME NEW s \in Scans, Enqueue(s)
        PROVE  LateOnce'
    BY <1>3
    DEF Enqueue, TypeOK, Placed, LateOnce, rows, world, sessions, sweepers, record
  <1>4. ASSUME NEW s \in Scans, LoseEnqueue(s)
        PROVE  LateOnce'
    BY <1>4
    DEF LoseEnqueue, TypeOK, Placed, LateOnce, rows, world, sessions, sweepers, record
  <1>5. ASSUME NEW s \in Scans, CancelLoad(s)
        PROVE  LateOnce'
    BY <1>5
    DEF CancelLoad, TypeOK, Placed, LateOnce, rows, world, broker, sessions, record
  <1>6. ASSUME NEW s \in Scans, CancelCommit(s)
        PROVE  LateOnce'
    BY <1>6
    DEF CancelCommit, TypeOK, Placed, LateOnce, world, broker, sessions
  <1>7. ASSUME SweepLoad
        PROVE  LateOnce'
    BY <1>7
    DEF SweepLoad, TypeOK, Placed, LateOnce, rows, world, broker, sessions, record
  <1>8. ASSUME SweepCommit
        PROVE  LateOnce'
    BY <1>8
    DEF SweepCommit, TypeOK, Placed, LateOnce, world, broker, sessions, record
  <1>9. ASSUME NEW w \in Workers, NEW s \in Scans, Take(w, s)
        PROVE  LateOnce'
    BY <1>9
    DEF Take, TypeOK, Placed, LateOnce, rows, world, sweepers, record
  <1>10. ASSUME NEW w \in Workers, StartExpired(w)
        PROVE  LateOnce'
    BY <1>10
    DEF StartExpired, TypeOK, Placed, LateOnce, world, broker, sweepers, EndTask
  <1>11. ASSUME NEW w \in Workers, Start(w)
        PROVE  LateOnce'
    BY <1>11
    DEF Start, TypeOK, Placed, LateOnce, world, broker, sweepers, record
  <1>12. ASSUME NEW w \in Workers, RefuseUnverified(w)
        PROVE  LateOnce'
    BY <1>12
    DEF RefuseUnverified, TypeOK, Placed, LateOnce, world, broker, sweepers, EndTask
  <1>13. ASSUME NEW w \in Workers, DeepConsentError(w)
        PROVE  LateOnce'
    BY <1>13
    DEF DeepConsentError, TypeOK, Placed, LateOnce, rows, world, broker, sweepers, EndTask
  <1>14. ASSUME NEW w \in Workers, EnterLoop(w)
        PROVE  LateOnce'
    BY <1>14
    DEF EnterLoop, TypeOK, Placed, LateOnce, rows, world, broker, sweepers, record
  <1>15. ASSUME NEW w \in Workers, SeeCancelled(w)
        PROVE  LateOnce'
    BY <1>15
    DEF SeeCancelled, TypeOK, Placed, LateOnce, rows, world, broker, sweepers, record
  <1>16. ASSUME NEW w \in Workers, NEW c \in Connectors, SeeExpired(w, c)
        PROVE  LateOnce'
    BY <1>16
    DEF SeeExpired, TypeOK, Placed, LateOnce, world, broker, sweepers, EndTask
  <1>17. ASSUME NEW w \in Workers, NEW c \in Connectors, PassOver(w, c)
        PROVE  LateOnce'
    BY <1>17
    DEF PassOver, TypeOK, Placed, LateOnce, rows, world, broker, sweepers, record
  <1>18. ASSUME NEW w \in Workers, NEW c \in Connectors, Select(w, c)
        PROVE  LateOnce'
    BY <1>18
    DEF Select, TypeOK, Placed, LateOnce, rows, world, broker, sweepers, record,
        MayContinue
  <1>19. ASSUME NEW w \in Workers, SkipDisabled(w)
        PROVE  LateOnce'
    BY <1>19
    DEF SkipDisabled, TypeOK, Placed, LateOnce, world, broker, sweepers, record, NextRun
  <1>20. ASSUME NEW w \in Workers, Begin(w)
        PROVE  LateOnce'
    BY <1>20
    DEF Begin, TypeOK, Placed, LateOnce, world, broker, sweepers
  <1>21. ASSUME NEW w \in Workers, NEW o \in Outcome, CallConnector(w, o)
        PROVE  LateOnce'
    BY <1>21
    DEF CallConnector, TypeOK, Placed, LateOnce, rows, world, broker, sweepers
  <1>22. ASSUME NEW w \in Workers, RecordResult(w)
        PROVE  LateOnce'
    BY <1>22
    DEF RecordResult, TypeOK, Placed, LateOnce, world, broker, sweepers, NextRun
  <1>23. ASSUME NEW w \in Workers, LeaveLoop(w)
        PROVE  LateOnce'
    BY <1>23
    DEF LeaveLoop, TypeOK, Placed, LateOnce, rows, world, broker, sweepers, record
  <1>24. ASSUME NEW w \in Workers, Finalize(w)
        PROVE  LateOnce'
    BY <1>24
    DEF Finalize, TypeOK, Placed, LateOnce, world, broker, sweepers, EndTask
  <1>25. ASSUME NEW w \in Workers, Crash(w)
        PROVE  LateOnce'
    BY <1>25
    DEF Crash, TypeOK, Placed, LateOnce, rows, world, sweepers, EndTask
  <1>26. ASSUME NEW w \in Workers, TaskFails(w)
        PROVE  LateOnce'
    BY <1>26
    DEF TaskFails, TypeOK, Placed, LateOnce, rows, world, broker, sweepers, EndTask
  <1>27. ASSUME NEW w \in Workers, Redeliver(w)
        PROVE  LateOnce'
    BY <1>27
    DEF Redeliver, TypeOK, Placed, LateOnce, rows, world, sweepers, record
  <1>28. ASSUME NEW s \in Scans, DeadlinePasses(s)
        PROVE  LateOnce'
    BY <1>28
    DEF DeadlinePasses, TypeOK, Placed, LateOnce, rows, broker, sessions, sweepers, record
  <1>29. ASSUME NEW s \in Scans, IdentifierLapses(s)
        PROVE  LateOnce'
    BY <1>29
    DEF IdentifierLapses, TypeOK, Placed, LateOnce, rows, broker, sessions, sweepers,
        record
  <1>30. ASSUME UNCHANGED vars
        PROVE  LateOnce'
    BY <1>30
    DEF vars, TypeOK, Placed, LateOnce, rows, world, broker, sessions, sweepers, record
  <1> QED
    BY <1>1, <1>2, <1>3, <1>4, <1>5, <1>6, <1>7, <1>8, <1>9, <1>10, <1>11, <1>12, <1>13,
       <1>14, <1>15, <1>16, <1>17, <1>18, <1>19, <1>20, <1>21, <1>22, <1>23, <1>24, <1>25,
       <1>26, <1>27, <1>28, <1>29, <1>30
    DEF Next, Create, Cancel, Reconcile, Execute, Fault

\* A task begins at most one connector call after the deadline of its scan.
THEOREM LateCallBoundHolds == Spec => []LateCallBound
<1>1. Init => LateOnce
  BY DEF Init, LateOnce
<1>2. LateOnce => LateCallBound
  BY DEF LateOnce, LateCallBound
<1> QED
  BY <1>1, <1>2, LateStep, TypeCorrect, PTL DEF Spec

-----------------------------------------------------------------------------
(* Without overlapping deliveries: one call over all executors, and at     *)
(* most one call begun after a cancellation.                               *)

\* A scan's message is in the queue, or with one worker, or gone.
LEMMA MessageStep ==
  ASSUME "overlap" \notin Events
  PROVE  TypeOK /\ Placed /\ OneMessage /\ [Next]_vars => OneMessage'
  <1> SUFFICES ASSUME TypeOK, Placed, OneMessage, [Next]_vars PROVE OneMessage'
    OBVIOUS
  <1>1. ASSUME NEW s \in Scans, Admit(s)
        PROVE  OneMessage'
    BY <1>1, NoneAssumption
    DEF Admit, TypeOK, Placed, OneMessage, rows, world, sessions, sweepers, record
  <1>2. ASSUME NEW s \in Scans, NEW l \in Layer, NEW selected \in SUBSET Connectors,
               Store(s, l, selected)
        PROVE  OneMessage'
    BY <1>2, NoneAssumption
    DEF Store, TypeOK, Placed, OneMessage, world, sessions, sweepers, record
  <1>3. ASSUME NEW s \in Scans, Enqueue(s)
        PROVE  OneMessage'
    BY <1>3, NoneAssumption
    DEF Enqueue, TypeOK, Placed, OneMessage, rows, world, sessions, sweepers, record
  <1>4. ASSUME NEW s \in Scans, LoseEnqueue(s)
        PROVE  OneMessage'
    BY <1>4, NoneAssumption
    DEF LoseEnqueue, TypeOK, Placed, OneMessage, rows, world, sessions, sweepers, record
  <1>5. ASSUME NEW s \in Scans, CancelLoad(s)
        PROVE  OneMessage'
    BY <1>5, NoneAssumption
    DEF CancelLoad, TypeOK, Placed, OneMessage, rows, world, broker, sessions, record
  <1>6. ASSUME NEW s \in Scans, CancelCommit(s)
        PROVE  OneMessage'
    BY <1>6, NoneAssumption
    DEF CancelCommit, TypeOK, Placed, OneMessage, world, broker, sessions
  <1>7. ASSUME SweepLoad
        PROVE  OneMessage'
    BY <1>7, NoneAssumption
    DEF SweepLoad, TypeOK, Placed, OneMessage, rows, world, broker, sessions, record
  <1>8. ASSUME SweepCommit
        PROVE  OneMessage'
    BY <1>8, NoneAssumption
    DEF SweepCommit, TypeOK, Placed, OneMessage, world, broker, sessions, record
  <1>9. ASSUME NEW w \in Workers, NEW s \in Scans, Take(w, s)
        PROVE  OneMessage'
    <2>1. CASE status[s] \in TerminalScan
      BY <1>9, <2>1 DEF Take, TypeOK, Placed, OneMessage, rows, world, sweepers, record
    <2>3. CASE status[s] \notin TerminalScan
      <3>1. /\ pc' = [pc EXCEPT ![w] = "loaded"]
            /\ job' = [job EXCEPT ![w] = s]
            /\ held' = [held EXCEPT ![w] = TRUE]
            /\ memStatus' = [memStatus EXCEPT ![w] = status[s]]
            /\ memRun' = [memRun EXCEPT ![w] = run[s]]
            /\ queue' = [queue EXCEPT ![s] = @ - 1]
            /\ queue[s] > 0
        BY <1>9, <2>3 DEF Take
      <3>2. UNCHANGED request
        BY <1>9 DEF Take
      <3>3. \A v \in Workers : v # w => pc'[v] = pc[v] /\ job'[v] = job[v]
        BY <3>1 DEF TypeOK
      <3>4. pc'[w] = "loaded" /\ job'[w] = s
        BY <3>1 DEF TypeOK
      <3>5. \A r \in Scans : queue'[r] = IF r = s THEN 0 ELSE queue[r]
        BY <3>1 DEF TypeOK, OneMessage
      <3> QED
        BY <3>1, <3>2, <3>3, <3>4, <3>5 DEF OneMessage, Placed, TypeOK
    <2> QED
      BY <2>1, <2>3
  <1>10. ASSUME NEW w \in Workers, StartExpired(w)
        PROVE  OneMessage'
    BY <1>10, NoneAssumption
    DEF StartExpired, TypeOK, Placed, OneMessage, world, broker, sweepers, EndTask
  <1>11. ASSUME NEW w \in Workers, Start(w)
        PROVE  OneMessage'
    BY <1>11, NoneAssumption
    DEF Start, TypeOK, Placed, OneMessage, world, broker, sweepers, record
  <1>12. ASSUME NEW w \in Workers, RefuseUnverified(w)
        PROVE  OneMessage'
    BY <1>12, NoneAssumption
    DEF RefuseUnverified, TypeOK, Placed, OneMessage, world, broker, sweepers, EndTask
  <1>13. ASSUME NEW w \in Workers, DeepConsentError(w)
        PROVE  OneMessage'
    BY <1>13, NoneAssumption
    DEF DeepConsentError, TypeOK, Placed, OneMessage, rows, world, broker, sweepers,
        EndTask
  <1>14. ASSUME NEW w \in Workers, EnterLoop(w)
        PROVE  OneMessage'
    BY <1>14, NoneAssumption
    DEF EnterLoop, TypeOK, Placed, OneMessage, rows, world, broker, sweepers, record
  <1>15. ASSUME NEW w \in Workers, SeeCancelled(w)
        PROVE  OneMessage'
    BY <1>15, NoneAssumption
    DEF SeeCancelled, TypeOK, Placed, OneMessage, rows, world, broker, sweepers, record
  <1>16. ASSUME NEW w \in Workers, NEW c \in Connectors, SeeExpired(w, c)
        PROVE  OneMessage'
    BY <1>16, NoneAssumption
    DEF SeeExpired, TypeOK, Placed, OneMessage, world, broker, sweepers, EndTask
  <1>17. ASSUME NEW w \in Workers, NEW c \in Connectors, PassOver(w, c)
        PROVE  OneMessage'
    BY <1>17, NoneAssumption
    DEF PassOver, TypeOK, Placed, OneMessage, rows, world, broker, sweepers, record
  <1>18. ASSUME NEW w \in Workers, NEW c \in Connectors, Select(w, c)
        PROVE  OneMessage'
    BY <1>18, NoneAssumption
    DEF Select, TypeOK, Placed, OneMessage, rows, world, broker, sweepers, record
  <1>19. ASSUME NEW w \in Workers, SkipDisabled(w)
        PROVE  OneMessage'
    BY <1>19, NoneAssumption
    DEF SkipDisabled, TypeOK, Placed, OneMessage, world, broker, sweepers, record, NextRun
  <1>20. ASSUME NEW w \in Workers, Begin(w)
        PROVE  OneMessage'
    BY <1>20, NoneAssumption
    DEF Begin, TypeOK, Placed, OneMessage, world, broker, sweepers
  <1>21. ASSUME NEW w \in Workers, NEW o \in Outcome, CallConnector(w, o)
        PROVE  OneMessage'
    BY <1>21, NoneAssumption
    DEF CallConnector, TypeOK, Placed, OneMessage, rows, world, broker, sweepers
  <1>22. ASSUME NEW w \in Workers, RecordResult(w)
        PROVE  OneMessage'
    BY <1>22, NoneAssumption
    DEF RecordResult, TypeOK, Placed, OneMessage, world, broker, sweepers, NextRun
  <1>23. ASSUME NEW w \in Workers, LeaveLoop(w)
        PROVE  OneMessage'
    BY <1>23, NoneAssumption
    DEF LeaveLoop, TypeOK, Placed, OneMessage, rows, world, broker, sweepers, record
  <1>24. ASSUME NEW w \in Workers, Finalize(w)
        PROVE  OneMessage'
    BY <1>24, NoneAssumption
    DEF Finalize, TypeOK, Placed, OneMessage, world, broker, sweepers, EndTask
  <1>25. ASSUME NEW w \in Workers, Crash(w)
        PROVE  OneMessage'
    BY <1>25, NoneAssumption
    DEF Crash, TypeOK, Placed, OneMessage, rows, world, sweepers, EndTask
  <1>26. ASSUME NEW w \in Workers, TaskFails(w)
        PROVE  OneMessage'
    BY <1>26, NoneAssumption
    DEF TaskFails, TypeOK, Placed, OneMessage, rows, world, broker, sweepers, EndTask
  <1>27. ASSUME NEW w \in Workers, Redeliver(w)
        PROVE  OneMessage'
    BY <1>27, NoneAssumption
    DEF Redeliver, TypeOK, Placed, OneMessage, rows, world, sweepers, record
  <1>28. ASSUME NEW s \in Scans, DeadlinePasses(s)
        PROVE  OneMessage'
    BY <1>28, NoneAssumption
    DEF DeadlinePasses, TypeOK, Placed, OneMessage, rows, broker, sessions, sweepers,
        record
  <1>29. ASSUME NEW s \in Scans, IdentifierLapses(s)
        PROVE  OneMessage'
    BY <1>29, NoneAssumption
    DEF IdentifierLapses, TypeOK, Placed, OneMessage, rows, broker, sessions, sweepers,
        record
  <1>30. ASSUME UNCHANGED vars
        PROVE  OneMessage'
    BY <1>30
    DEF vars, TypeOK, Placed, OneMessage, rows, world, broker, sessions, sweepers, record
  <1> QED
    BY <1>1, <1>2, <1>3, <1>4, <1>5, <1>6, <1>7, <1>8, <1>9, <1>10, <1>11, <1>12, <1>13,
       <1>14, <1>15, <1>16, <1>17, <1>18, <1>19, <1>20, <1>21, <1>22, <1>23, <1>24, <1>25,
       <1>26, <1>27, <1>28, <1>29, <1>30
    DEF Next, Create, Cancel, Reconcile, Execute, Fault

\* What one executor holds as pending no other has called.
LEMMA CalledByOneStep ==
  TypeOK /\ Placed /\ CalledOnce /\ OneMessage /\ CalledByOne /\ [Next]_vars => CalledByOne'
  <1> SUFFICES ASSUME TypeOK, Placed, CalledOnce, OneMessage, CalledByOne, [Next]_vars
               PROVE  CalledByOne'
    OBVIOUS
  <1>1. ASSUME NEW s \in Scans, Admit(s)
        PROVE  CalledByOne'
    BY <1>1
    DEF Admit, TypeOK, Placed, OneMessage, CalledOnce, CalledNotPending, CurrentUncalled,
        CalledByOne, AtMostOneCall, rows, world, sessions, sweepers, record
  <1>2. ASSUME NEW s \in Scans, NEW l \in Layer, NEW selected \in SUBSET Connectors,
               Store(s, l, selected)
        PROVE  CalledByOne'
    <2>1. \A v \in Workers, c \in Connectors : called[v][s][c] = 0
      BY <1>2 DEF Store, Placed, CalledOnce, CalledNotPending, TypeOK
    <2>2. UNCHANGED <<called, pc, job, memRun, current>>
      BY <1>2 DEF Store, record, sessions
    <2> QED
      BY <2>2 DEF CalledByOne, AtMostOneCall
  <1>3. ASSUME NEW s \in Scans, Enqueue(s)
        PROVE  CalledByOne'
    BY <1>3
    DEF Enqueue, TypeOK, Placed, OneMessage, CalledOnce, CalledNotPending, CurrentUncalled,
        CalledByOne, AtMostOneCall, rows, world, sessions, sweepers, record
  <1>4. ASSUME NEW s \in Scans, LoseEnqueue(s)
        PROVE  CalledByOne'
    BY <1>4
    DEF LoseEnqueue, TypeOK, Placed, OneMessage, CalledOnce, CalledNotPending, CurrentUncalled,
        CalledByOne, AtMostOneCall, rows, world, sessions, sweepers, record
  <1>5. ASSUME NEW s \in Scans, CancelLoad(s)
        PROVE  CalledByOne'
    BY <1>5
    DEF CancelLoad, TypeOK, Placed, OneMessage, CalledOnce, CalledNotPending, CurrentUncalled,
        CalledByOne, AtMostOneCall, rows, world, broker, sessions, record
  <1>6. ASSUME NEW s \in Scans, CancelCommit(s)
        PROVE  CalledByOne'
    BY <1>6
    DEF CancelCommit, TypeOK, Placed, OneMessage, CalledOnce, CalledNotPending, CurrentUncalled,
        CalledByOne, AtMostOneCall, world, broker, sessions, Close
  <1>7. ASSUME SweepLoad
        PROVE  CalledByOne'
    BY <1>7
    DEF SweepLoad, TypeOK, Placed, OneMessage, CalledOnce, CalledNotPending, CurrentUncalled,
        CalledByOne, AtMostOneCall, rows, world, broker, sessions, record
  <1>8. ASSUME SweepCommit
        PROVE  CalledByOne'
    BY <1>8
    DEF SweepCommit, TypeOK, Placed, OneMessage, CalledOnce, CalledNotPending, CurrentUncalled,
        CalledByOne, AtMostOneCall, world, broker, sessions, record, Close
  <1>9. ASSUME NEW w \in Workers, NEW s \in Scans, Take(w, s)
        PROVE  CalledByOne'
    <2>1. CASE status[s] \in TerminalScan
      BY <1>9, <2>1
      DEF Take, TypeOK, Placed, CalledByOne, AtMostOneCall, rows, world, sweepers, record
    <2>3. CASE status[s] \notin TerminalScan
      <3>1. /\ pc' = [pc EXCEPT ![w] = "loaded"]
            /\ job' = [job EXCEPT ![w] = s]
            /\ held' = [held EXCEPT ![w] = TRUE]
            /\ memStatus' = [memStatus EXCEPT ![w] = status[s]]
            /\ memRun' = [memRun EXCEPT ![w] = run[s]]
            /\ queue' = [queue EXCEPT ![s] = @ - 1]
            /\ queue[s] > 0
        BY <1>9, <2>3 DEF Take
      <3>2. UNCHANGED <<called, run, status, current>>
        BY <1>9 DEF Take, rows, record
      <3>3. \A v \in Workers : v # w => pc'[v] = pc[v] /\ job'[v] = job[v] /\ memRun'[v] = memRun[v]
        BY <3>1 DEF TypeOK
      <3>4. pc'[w] = "loaded" /\ job'[w] = s /\ memRun'[w] = run[s]
        BY <3>1 DEF TypeOK
      <3>5. \A v \in Workers, c \in Connectors : run[s][c] = "pending" => called[v][s][c] = 0
        BY DEF CalledOnce, CalledNotPending, TypeOK
      <3> QED
        BY <3>2, <3>3, <3>4, <3>5 DEF CalledByOne, AtMostOneCall
    <2> QED
      BY <2>1, <2>3
  <1>10. ASSUME NEW w \in Workers, StartExpired(w)
        PROVE  CalledByOne'
    BY <1>10
    DEF StartExpired, TypeOK, Placed, OneMessage, CalledOnce, CalledNotPending, CurrentUncalled,
        CalledByOne, AtMostOneCall, world, broker, sweepers, Close, EndTask
  <1>11. ASSUME NEW w \in Workers, Start(w)
        PROVE  CalledByOne'
    BY <1>11
    DEF Start, TypeOK, Placed, OneMessage, CalledOnce, CalledNotPending, CurrentUncalled,
        CalledByOne, AtMostOneCall, world, broker, sweepers, record
  <1>12. ASSUME NEW w \in Workers, RefuseUnverified(w)
        PROVE  CalledByOne'
    BY <1>12
    DEF RefuseUnverified, TypeOK, Placed, OneMessage, CalledOnce, CalledNotPending,
        CurrentUncalled, CalledByOne, AtMostOneCall, world, broker, sweepers, EndTask
  <1>13. ASSUME NEW w \in Workers, DeepConsentError(w)
        PROVE  CalledByOne'
    BY <1>13
    DEF DeepConsentError, TypeOK, Placed, OneMessage, CalledOnce, CalledNotPending,
        CurrentUncalled, CalledByOne, AtMostOneCall, rows, world, broker, sweepers, EndTask
  <1>14. ASSUME NEW w \in Workers, EnterLoop(w)
        PROVE  CalledByOne'
    BY <1>14
    DEF EnterLoop, TypeOK, Placed, OneMessage, CalledOnce, CalledNotPending, CurrentUncalled,
        CalledByOne, AtMostOneCall, rows, world, broker, sweepers, record
  <1>15. ASSUME NEW w \in Workers, SeeCancelled(w)
        PROVE  CalledByOne'
    BY <1>15
    DEF SeeCancelled, Refresh, TypeOK, Placed, OneMessage, CalledOnce, CalledNotPending,
        CurrentUncalled,
        CalledByOne, AtMostOneCall, rows, world, broker, sweepers, record
  <1>16. ASSUME NEW w \in Workers, NEW c \in Connectors, SeeExpired(w, c)
        PROVE  CalledByOne'
    <2>1. UNCHANGED called /\ EndTask(w)
      BY <1>16 DEF SeeExpired
    <2> QED
      BY <2>1 DEF CalledByOne, AtMostOneCall, EndTask, TypeOK
  <1>17. ASSUME NEW w \in Workers, NEW c \in Connectors, PassOver(w, c)
        PROVE  CalledByOne'
    BY <1>17
    DEF PassOver, Refresh, TypeOK, Placed, OneMessage, CalledOnce, CalledNotPending,
        CurrentUncalled,
        CalledByOne, AtMostOneCall, rows, world, broker, sweepers, record
  <1>18. ASSUME NEW w \in Workers, NEW c \in Connectors, Select(w, c)
        PROVE  CalledByOne'
    BY <1>18
    DEF Select, Refresh, TypeOK, Placed, OneMessage, CalledOnce, CalledNotPending, CurrentUncalled,
        CalledByOne, AtMostOneCall, rows, world, broker, sweepers, record
  <1>19. ASSUME NEW w \in Workers, SkipDisabled(w)
        PROVE  CalledByOne'
    BY <1>19
    DEF SkipDisabled, TypeOK, Placed, OneMessage, CalledOnce, CalledNotPending, CurrentUncalled,
        CalledByOne, AtMostOneCall, world, broker, sweepers, record, WriteRun, NextRun
  <1>20. ASSUME NEW w \in Workers, Begin(w)
        PROVE  CalledByOne'
    <2>1. job[w] \in Scans /\ current[w] \in Connectors /\ memRun[w][current[w]] = "pending"
      BY <1>20 DEF Begin, Placed, CalledOnce, CurrentUncalled
    <2>2. UNCHANGED <<called, job, current>>
      BY <1>20 DEF Begin
    <2>3. \A v \in Workers, c \in Connectors : memRun'[v][c] = "pending" => memRun[v][c] = "pending"
      BY <1>20 DEF Begin, WriteRun, TypeOK
    <2>4. \A v \in Workers : pc'[v] = IF v = w THEN "calling" ELSE pc[v]
      BY <1>20 DEF Begin, TypeOK
    <2>5. pc[w] = "checked"
      BY <1>20 DEF Begin
    <2> QED
      BY <2>1, <2>2, <2>3, <2>4, <2>5 DEF CalledByOne, AtMostOneCall
  <1>21. ASSUME NEW w \in Workers, NEW o \in Outcome, CallConnector(w, o)
        PROVE  CalledByOne'
    <2>1. job[w] \in Scans /\ current[w] \in Connectors
      BY <1>21 DEF CallConnector, Placed
    <2>2. \A v \in Workers, s \in Scans, c \in Connectors :
            called'[v][s][c] = called[v][s][c]
              \/ (v = w /\ s = job[w] /\ c = current[w] /\ called'[v][s][c] = called[v][s][c] + 1)
      BY <1>21, <2>1 DEF CallConnector, TypeOK
    <2>3. UNCHANGED <<status, run, job, memRun, current>>
      BY <1>21 DEF CallConnector, rows
    <2>4. \A v \in Workers : pc'[v] = IF v = w THEN "called" ELSE pc[v]
      BY <1>21 DEF CallConnector, TypeOK
    <2>5. pc[w] = "calling"
      BY <1>21 DEF CallConnector
    <2>6. memRun[w][current[w]] # "pending"
      BY <2>1, <2>5 DEF CalledOnce, CurrentUncalled
    <2>7. \A v \in Workers : pc[v] # "idle" /\ job[v] = job[w] => v = w
      BY <2>5 DEF OneMessage
    <2>8. \A v \in Workers : called[v][job[w]][current[w]] = 0
      BY <2>5 DEF CalledByOne
    <2>9. AtMostOneCall'
      <3>1. \A v \in Workers, s \in Scans, c \in Connectors : called[v][s][c] \in Nat
        BY DEF TypeOK
      <3> QED
        BY <2>2, <2>8, <3>1 DEF AtMostOneCall, CalledByOne
    <2>10. \A u, v \in Workers, c \in Connectors :
             pc'[u] # "idle" /\ memRun'[u][c] = "pending" => called'[v][job'[u]][c] = 0
      BY <2>2, <2>3, <2>4, <2>5, <2>6, <2>7 DEF CalledByOne, Placed
    <2>11. \A u, v \in Workers : pc'[u] = "calling" => called'[v][job'[u]][current'[u]] = 0
      BY <2>2, <2>3, <2>4, <2>7, <2>5 DEF CalledByOne, Placed
    <2> QED
      BY <2>9, <2>10, <2>11 DEF CalledByOne
  <1>22. ASSUME NEW w \in Workers, RecordResult(w)
        PROVE  CalledByOne'
    <2>1. job[w] \in Scans /\ current[w] \in Connectors /\ outcome[w] # "pending"
      BY <1>22 DEF RecordResult, Placed, TypeOK, Outcome
    <2>2. UNCHANGED <<called, job>>
      BY <1>22 DEF RecordResult
    <2>3. \A v \in Workers, c \in Connectors : memRun'[v][c] = "pending" => memRun[v][c] = "pending"
      BY <1>22, <2>1 DEF RecordResult, WriteRun, TypeOK
    <2>4. \A v \in Workers : pc'[v] = IF v = w THEN "loop" ELSE pc[v]
      BY <1>22 DEF RecordResult, NextRun, TypeOK
    <2>5. \A v \in Workers : v # w => current'[v] = current[v]
      BY <1>22 DEF RecordResult, NextRun, TypeOK
    <2>6. pc[w] = "called"
      BY <1>22 DEF RecordResult
    <2> QED
      BY <2>2, <2>3, <2>4, <2>5, <2>6 DEF CalledByOne, AtMostOneCall
  <1>23. ASSUME NEW w \in Workers, LeaveLoop(w)
        PROVE  CalledByOne'
    BY <1>23
    DEF LeaveLoop, TypeOK, Placed, OneMessage, CalledOnce, CalledNotPending, CurrentUncalled,
        CalledByOne, AtMostOneCall, rows, world, broker, sweepers, record
  <1>24. ASSUME NEW w \in Workers, Finalize(w)
        PROVE  CalledByOne'
    BY <1>24
    DEF Finalize, TypeOK, Placed, OneMessage, CalledOnce, CalledNotPending, CurrentUncalled,
        CalledByOne, AtMostOneCall, world, broker, sweepers, EndTask
  <1>25. ASSUME NEW w \in Workers, Crash(w)
        PROVE  CalledByOne'
    BY <1>25
    DEF Crash, TypeOK, Placed, OneMessage, CalledOnce, CalledNotPending, CurrentUncalled,
        CalledByOne, AtMostOneCall, rows, world, sweepers, EndTask
  <1>26. ASSUME NEW w \in Workers, TaskFails(w)
        PROVE  CalledByOne'
    BY <1>26
    DEF TaskFails, TypeOK, Placed, OneMessage, CalledOnce, CalledNotPending, CurrentUncalled,
        CalledByOne, AtMostOneCall, rows, world, broker, sweepers, EndTask
  <1>27. ASSUME NEW w \in Workers, Redeliver(w)
        PROVE  CalledByOne'
    BY <1>27
    DEF Redeliver, TypeOK, Placed, OneMessage, CalledOnce, CalledNotPending, CurrentUncalled,
        CalledByOne, AtMostOneCall, rows, world, sweepers, record
  <1>28. ASSUME NEW s \in Scans, DeadlinePasses(s)
        PROVE  CalledByOne'
    BY <1>28
    DEF DeadlinePasses, TypeOK, Placed, OneMessage, CalledOnce, CalledNotPending,
        CurrentUncalled, CalledByOne, AtMostOneCall, rows, broker, sessions, sweepers, record
  <1>29. ASSUME NEW s \in Scans, IdentifierLapses(s)
        PROVE  CalledByOne'
    BY <1>29
    DEF IdentifierLapses, TypeOK, Placed, OneMessage, CalledOnce, CalledNotPending,
        CurrentUncalled, CalledByOne, AtMostOneCall, rows, broker, sessions, sweepers, record
  <1>30. ASSUME UNCHANGED vars
        PROVE  CalledByOne'
    BY <1>30
    DEF vars, TypeOK, Placed, OneMessage, CalledOnce, CalledNotPending, CurrentUncalled,
        CalledByOne, AtMostOneCall, rows, world, broker, sessions, sweepers, record
  <1> QED
    BY <1>1, <1>2, <1>3, <1>4, <1>5, <1>6, <1>7, <1>8, <1>9, <1>10, <1>11, <1>12, <1>13,
       <1>14, <1>15, <1>16, <1>17, <1>18, <1>19, <1>20, <1>21, <1>22, <1>23, <1>24, <1>25,
       <1>26, <1>27, <1>28, <1>29, <1>30
    DEF Next, Create, Cancel, Reconcile, Execute, Fault

\* An identifier reaches a source at most once per scan, over all the executors
\* that crashes and failures give the scan, if deliveries do not overlap.
THEOREM AtMostOneCallHolds ==
  ASSUME "overlap" \notin Events
  PROVE  Spec => []AtMostOneCall
<1>1. Init => CalledOnce /\ OneMessage /\ CalledByOne
  BY DEF Init, CalledOnce, CalledNotPending, PendingUncalled, CurrentUncalled, OneMessage,
         CalledByOne,
         AtMostOneCall
<1>2. CalledByOne => AtMostOneCall
  BY DEF CalledByOne
<1>3. OneMessage /\ TypeOK /\ Placed /\ [Next]_vars => OneMessage'
  BY MessageStep
<1> QED
  BY <1>1, <1>2, <1>3, CalledStep, CalledByOneStep, TypeCorrect, PTL DEF Spec

\* A cancelled scan with one executor stays cancelled once a call was begun.
LEMMA OverrunStep ==
  TypeOK /\ Placed /\ OneMessage /\ OverrunOnce /\ [Next]_vars => OverrunOnce'
  <1> SUFFICES ASSUME TypeOK, Placed, OneMessage, OverrunOnce, [Next]_vars PROVE OverrunOnce'
    OBVIOUS
  <1>1. ASSUME NEW s \in Scans, Admit(s)
        PROVE  OverrunOnce'
    BY <1>1
    DEF Admit, TypeOK, Placed, OneMessage, OverrunOnce, rows, world, sessions, sweepers,
        record
  <1>2. ASSUME NEW s \in Scans, NEW l \in Layer, NEW selected \in SUBSET Connectors,
               Store(s, l, selected)
        PROVE  OverrunOnce'
    BY <1>2
    DEF Store, TypeOK, Placed, OneMessage, OverrunOnce, world, sessions, sweepers, record
  <1>3. ASSUME NEW s \in Scans, Enqueue(s)
        PROVE  OverrunOnce'
    BY <1>3
    DEF Enqueue, TypeOK, Placed, OneMessage, OverrunOnce, rows, world, sessions, sweepers,
        record
  <1>4. ASSUME NEW s \in Scans, LoseEnqueue(s)
        PROVE  OverrunOnce'
    BY <1>4
    DEF LoseEnqueue, TypeOK, Placed, OneMessage, OverrunOnce, rows, world, sessions,
        sweepers, record
  <1>5. ASSUME NEW s \in Scans, CancelLoad(s)
        PROVE  OverrunOnce'
    BY <1>5
    DEF CancelLoad, TypeOK, Placed, OneMessage, OverrunOnce, rows, world, broker, sessions,
        record
  <1>6. ASSUME NEW s \in Scans, CancelCommit(s)
        PROVE  OverrunOnce'
    BY <1>6
    DEF CancelCommit, TypeOK, Placed, OneMessage, OverrunOnce, world, broker, sessions
  <1>7. ASSUME SweepLoad
        PROVE  OverrunOnce'
    BY <1>7
    DEF SweepLoad, TypeOK, Placed, OneMessage, OverrunOnce, rows, world, broker, sessions,
        record, StaleScans
  <1>8. ASSUME SweepCommit
        PROVE  OverrunOnce'
    BY <1>8
    DEF SweepCommit, TypeOK, Placed, OneMessage, OverrunOnce, world, broker, sessions,
        record
  <1>9. ASSUME NEW w \in Workers, NEW s \in Scans, Take(w, s)
        PROVE  OverrunOnce'
    BY <1>9
    DEF Take, TypeOK, Placed, OneMessage, OverrunOnce, rows, world, sweepers, record
  <1>10. ASSUME NEW w \in Workers, StartExpired(w)
        PROVE  OverrunOnce'
    BY <1>10
    DEF StartExpired, TypeOK, Placed, OneMessage, OverrunOnce, world, broker, sweepers,
        EndTask
  <1>11. ASSUME NEW w \in Workers, Start(w)
        PROVE  OverrunOnce'
    BY <1>11
    DEF Start, TypeOK, Placed, OneMessage, OverrunOnce, world, broker, sweepers, record
  <1>12. ASSUME NEW w \in Workers, RefuseUnverified(w)
        PROVE  OverrunOnce'
    BY <1>12
    DEF RefuseUnverified, TypeOK, Placed, OneMessage, OverrunOnce, world, broker, sweepers,
        EndTask
  <1>13. ASSUME NEW w \in Workers, DeepConsentError(w)
        PROVE  OverrunOnce'
    BY <1>13
    DEF DeepConsentError, TypeOK, Placed, OneMessage, OverrunOnce, rows, world, broker,
        sweepers, EndTask
  <1>14. ASSUME NEW w \in Workers, EnterLoop(w)
        PROVE  OverrunOnce'
    BY <1>14
    DEF EnterLoop, TypeOK, Placed, OneMessage, OverrunOnce, rows, world, broker, sweepers,
        record
  <1>15. ASSUME NEW w \in Workers, SeeCancelled(w)
        PROVE  OverrunOnce'
    BY <1>15
    DEF SeeCancelled, TypeOK, Placed, OneMessage, OverrunOnce, rows, world, broker,
        sweepers, record
  <1>16. ASSUME NEW w \in Workers, NEW c \in Connectors, SeeExpired(w, c)
        PROVE  OverrunOnce'
    BY <1>16
    DEF SeeExpired, TypeOK, Placed, OneMessage, OverrunOnce, world, broker, sweepers,
        EndTask
  <1>17. ASSUME NEW w \in Workers, NEW c \in Connectors, PassOver(w, c)
        PROVE  OverrunOnce'
    BY <1>17
    DEF PassOver, TypeOK, Placed, OneMessage, OverrunOnce, rows, world, broker, sweepers,
        record
  <1>18. ASSUME NEW w \in Workers, NEW c \in Connectors, Select(w, c)
        PROVE  OverrunOnce'
    BY <1>18
    DEF Select, Refresh, TypeOK, Placed, OneMessage, OverrunOnce, rows, world, broker,
        sweepers, record, MayContinue
  <1>19. ASSUME NEW w \in Workers, SkipDisabled(w)
        PROVE  OverrunOnce'
    BY <1>19
    DEF SkipDisabled, TypeOK, Placed, OneMessage, OverrunOnce, world, broker, sweepers,
        record, NextRun
  <1>20. ASSUME NEW w \in Workers, Begin(w)
        PROVE  OverrunOnce'
    BY <1>20
    DEF Begin, TypeOK, Placed, OneMessage, OverrunOnce, world, broker, sweepers
  <1>21. ASSUME NEW w \in Workers, NEW o \in Outcome, CallConnector(w, o)
        PROVE  OverrunOnce'
    BY <1>21
    DEF CallConnector, TypeOK, Placed, OneMessage, OverrunOnce, rows, world, broker,
        sweepers
  <1>22. ASSUME NEW w \in Workers, RecordResult(w)
        PROVE  OverrunOnce'
    BY <1>22
    DEF RecordResult, TypeOK, Placed, OneMessage, OverrunOnce, world, broker, sweepers,
        NextRun
  <1>23. ASSUME NEW w \in Workers, LeaveLoop(w)
        PROVE  OverrunOnce'
    BY <1>23
    DEF LeaveLoop, TypeOK, Placed, OneMessage, OverrunOnce, rows, world, broker, sweepers,
        record
  <1>24. ASSUME NEW w \in Workers, Finalize(w)
        PROVE  OverrunOnce'
    BY <1>24
    DEF Finalize, TypeOK, Placed, OneMessage, OverrunOnce, world, broker, sweepers,
        EndTask
  <1>25. ASSUME NEW w \in Workers, Crash(w)
        PROVE  OverrunOnce'
    BY <1>25
    DEF Crash, TypeOK, Placed, OneMessage, OverrunOnce, rows, world, sweepers, EndTask
  <1>26. ASSUME NEW w \in Workers, TaskFails(w)
        PROVE  OverrunOnce'
    BY <1>26
    DEF TaskFails, TypeOK, Placed, OneMessage, OverrunOnce, rows, world, broker, sweepers,
        EndTask
  <1>27. ASSUME NEW w \in Workers, Redeliver(w)
        PROVE  OverrunOnce'
    BY <1>27
    DEF Redeliver, TypeOK, Placed, OneMessage, OverrunOnce, rows, world, sweepers, record
  <1>28. ASSUME NEW s \in Scans, DeadlinePasses(s)
        PROVE  OverrunOnce'
    BY <1>28
    DEF DeadlinePasses, TypeOK, Placed, OneMessage, OverrunOnce, rows, broker, sessions,
        sweepers, record
  <1>29. ASSUME NEW s \in Scans, IdentifierLapses(s)
        PROVE  OverrunOnce'
    BY <1>29
    DEF IdentifierLapses, TypeOK, Placed, OneMessage, OverrunOnce, rows, broker, sessions,
        sweepers, record
  <1>30. ASSUME UNCHANGED vars
        PROVE  OverrunOnce'
    BY <1>30
    DEF vars, TypeOK, Placed, OneMessage, OverrunOnce, rows, world, broker, sessions,
        sweepers, record
  <1> QED
    BY <1>1, <1>2, <1>3, <1>4, <1>5, <1>6, <1>7, <1>8, <1>9, <1>10, <1>11, <1>12, <1>13,
       <1>14, <1>15, <1>16, <1>17, <1>18, <1>19, <1>20, <1>21, <1>22, <1>23, <1>24, <1>25,
       <1>26, <1>27, <1>28, <1>29, <1>30
    DEF Next, Create, Cancel, Reconcile, Execute, Fault

\* A task begins at most one connector call while its scan is CANCELLED, if
\* deliveries do not overlap.
THEOREM OverrunBoundHolds ==
  ASSUME "overlap" \notin Events
  PROVE  Spec => []OverrunBound
<1>1. Init => OneMessage /\ OverrunOnce
  BY DEF Init, OneMessage, OverrunOnce
<1>2. OverrunOnce => OverrunBound
  BY DEF OverrunOnce, OverrunBound
<1>3. OneMessage /\ TypeOK /\ Placed /\ [Next]_vars => OneMessage'
  BY MessageStep
<1> QED
  BY <1>1, <1>2, <1>3, OverrunStep, TypeCorrect, PTL DEF Spec

\* A call is recorded by the step that ends it, unless its task dies before.
LEMMA RecordedStep ==
  ASSUME "crash" \notin Events, "fail" \notin Events
  PROVE  TypeOK /\ Placed /\ Recorded /\ [Next]_vars => Recorded'
  <1> SUFFICES ASSUME TypeOK, Placed, Recorded, [Next]_vars PROVE Recorded'
    OBVIOUS
  <1>1. ASSUME NEW s \in Scans, Admit(s)
        PROVE  Recorded'
    BY <1>1
    DEF Admit, TypeOK, Placed, Recorded, rows, world, sessions, sweepers, record
  <1>2. ASSUME NEW s \in Scans, NEW l \in Layer, NEW selected \in SUBSET Connectors,
               Store(s, l, selected)
        PROVE  Recorded'
    BY <1>2
    DEF Store, TypeOK, Placed, Recorded, world, sessions, sweepers, record
  <1>3. ASSUME NEW s \in Scans, Enqueue(s)
        PROVE  Recorded'
    BY <1>3
    DEF Enqueue, TypeOK, Placed, Recorded, rows, world, sessions, sweepers, record
  <1>4. ASSUME NEW s \in Scans, LoseEnqueue(s)
        PROVE  Recorded'
    BY <1>4
    DEF LoseEnqueue, TypeOK, Placed, Recorded, rows, world, sessions, sweepers, record
  <1>5. ASSUME NEW s \in Scans, CancelLoad(s)
        PROVE  Recorded'
    BY <1>5
    DEF CancelLoad, TypeOK, Placed, Recorded, rows, world, broker, sessions, record
  <1>6. ASSUME NEW s \in Scans, CancelCommit(s)
        PROVE  Recorded'
    BY <1>6
    DEF CancelCommit, TypeOK, Placed, Recorded, world, broker, sessions
  <1>7. ASSUME SweepLoad
        PROVE  Recorded'
    BY <1>7
    DEF SweepLoad, TypeOK, Placed, Recorded, rows, world, broker, sessions, record
  <1>8. ASSUME SweepCommit
        PROVE  Recorded'
    BY <1>8
    DEF SweepCommit, TypeOK, Placed, Recorded, world, broker, sessions, record
  <1>9. ASSUME NEW w \in Workers, NEW s \in Scans, Take(w, s)
        PROVE  Recorded'
    BY <1>9
    DEF Take, TypeOK, Placed, Recorded, rows, world, sweepers, record
  <1>10. ASSUME NEW w \in Workers, StartExpired(w)
        PROVE  Recorded'
    BY <1>10
    DEF StartExpired, TypeOK, Placed, Recorded, world, broker, sweepers, EndTask
  <1>11. ASSUME NEW w \in Workers, Start(w)
        PROVE  Recorded'
    BY <1>11
    DEF Start, TypeOK, Placed, Recorded, world, broker, sweepers, record
  <1>12. ASSUME NEW w \in Workers, RefuseUnverified(w)
        PROVE  Recorded'
    BY <1>12
    DEF RefuseUnverified, TypeOK, Placed, Recorded, world, broker, sweepers, EndTask
  <1>13. ASSUME NEW w \in Workers, DeepConsentError(w)
        PROVE  Recorded'
    BY <1>13
    DEF DeepConsentError, TypeOK, Placed, Recorded, rows, world, broker, sweepers, EndTask
  <1>14. ASSUME NEW w \in Workers, EnterLoop(w)
        PROVE  Recorded'
    BY <1>14
    DEF EnterLoop, TypeOK, Placed, Recorded, rows, world, broker, sweepers, record
  <1>15. ASSUME NEW w \in Workers, SeeCancelled(w)
        PROVE  Recorded'
    BY <1>15
    DEF SeeCancelled, TypeOK, Placed, Recorded, rows, world, broker, sweepers, record
  <1>16. ASSUME NEW w \in Workers, NEW c \in Connectors, SeeExpired(w, c)
        PROVE  Recorded'
    BY <1>16
    DEF SeeExpired, TypeOK, Placed, Recorded, world, broker, sweepers, EndTask
  <1>17. ASSUME NEW w \in Workers, NEW c \in Connectors, PassOver(w, c)
        PROVE  Recorded'
    BY <1>17
    DEF PassOver, TypeOK, Placed, Recorded, rows, world, broker, sweepers, record
  <1>18. ASSUME NEW w \in Workers, NEW c \in Connectors, Select(w, c)
        PROVE  Recorded'
    BY <1>18
    DEF Select, TypeOK, Placed, Recorded, rows, world, broker, sweepers, record,
        MayContinue
  <1>19. ASSUME NEW w \in Workers, SkipDisabled(w)
        PROVE  Recorded'
    BY <1>19
    DEF SkipDisabled, TypeOK, Placed, Recorded, world, broker, sweepers, record, NextRun
  <1>20. ASSUME NEW w \in Workers, Begin(w)
        PROVE  Recorded'
    BY <1>20
    DEF Begin, TypeOK, Placed, Recorded, world, broker, sweepers
  <1>21. ASSUME NEW w \in Workers, NEW o \in Outcome, CallConnector(w, o)
        PROVE  Recorded'
    BY <1>21
    DEF CallConnector, TypeOK, Placed, Recorded, rows, world, broker, sweepers
  <1>22. ASSUME NEW w \in Workers, RecordResult(w)
        PROVE  Recorded'
    BY <1>22
    DEF RecordResult, TypeOK, Placed, Recorded, world, broker, sweepers, NextRun, RecordEgress
  <1>23. ASSUME NEW w \in Workers, LeaveLoop(w)
        PROVE  Recorded'
    BY <1>23
    DEF LeaveLoop, TypeOK, Placed, Recorded, rows, world, broker, sweepers, record
  <1>24. ASSUME NEW w \in Workers, Finalize(w)
        PROVE  Recorded'
    BY <1>24
    DEF Finalize, TypeOK, Placed, Recorded, world, broker, sweepers, EndTask
  <1>25. ASSUME NEW w \in Workers, Crash(w)
        PROVE  Recorded'
    BY <1>25
    DEF Crash, TypeOK, Placed, Recorded, rows, world, sweepers, EndTask
  <1>26. ASSUME NEW w \in Workers, TaskFails(w)
        PROVE  Recorded'
    BY <1>26
    DEF TaskFails, TypeOK, Placed, Recorded, rows, world, broker, sweepers, EndTask
  <1>27. ASSUME NEW w \in Workers, Redeliver(w)
        PROVE  Recorded'
    BY <1>27
    DEF Redeliver, TypeOK, Placed, Recorded, rows, world, sweepers, record
  <1>28. ASSUME NEW s \in Scans, DeadlinePasses(s)
        PROVE  Recorded'
    BY <1>28
    DEF DeadlinePasses, TypeOK, Placed, Recorded, rows, broker, sessions, sweepers, record
  <1>29. ASSUME NEW s \in Scans, IdentifierLapses(s)
        PROVE  Recorded'
    BY <1>29
    DEF IdentifierLapses, TypeOK, Placed, Recorded, rows, broker, sessions, sweepers,
        record
  <1>30. ASSUME UNCHANGED vars
        PROVE  Recorded'
    BY <1>30
    DEF vars, TypeOK, Placed, Recorded, rows, world, broker, sessions, sweepers, record
  <1> QED
    BY <1>1, <1>2, <1>3, <1>4, <1>5, <1>6, <1>7, <1>8, <1>9, <1>10, <1>11, <1>12, <1>13,
       <1>14, <1>15, <1>16, <1>17, <1>18, <1>19, <1>20, <1>21, <1>22, <1>23, <1>24, <1>25,
       <1>26, <1>27, <1>28, <1>29, <1>30
    DEF Next, Create, Cancel, Reconcile, Execute, Fault

\* As long as no worker dies and no task fails, what has been answered has its row in the
\* egress ledger as soon as the scan is not executed any more, overlapping deliveries,
\* cancellations and deadlines included.
THEOREM EveryAnswerIsLedgeredHolds ==
  ASSUME "crash" \notin Events, "fail" \notin Events
  PROVE  Spec => []EveryAnswerIsLedgered
<1>1. Init => Recorded
  BY DEF Init, Recorded
<1>2. TypeOK /\ Recorded => EveryAnswerIsLedgered
  BY DEF TypeOK, Recorded, EveryAnswerIsLedgered, BeingExecuted
<1> QED
  BY <1>1, <1>2, RecordedStep, TypeCorrect, PTL DEF Spec

\* A run is written in the row and in the copy of the only executor of its scan.
LEMMA WriteRunInStep ==
  ASSUME TypeOK, Placed, OneMessage, InStep, NEW w \in Workers, NEW st, WriteRun(w, st),
         job[w] \in Scans, current[w] \in Connectors, pc[w] # "idle",
         \A v \in Workers : pc'[v] # "idle" <=> pc[v] # "idle",
         UNCHANGED <<status, job, memStatus, sweep, expired, verified, cancelLogged>>
  PROVE  InStep'
  <1>1. /\ \A s \in Scans : s # job[w] => run'[s] = run[s]
        /\ \A v \in Workers : v # w => memRun'[v] = memRun[v]
        /\ memRun[w] = run[job[w]] => memRun'[w] = run'[job[w]]
    BY DEF WriteRun, TypeOK
  <1>2. \A v \in Workers : v # w /\ pc[v] # "idle" => job[v] # job[w] /\ job[v] \in Scans
    BY DEF OneMessage, Placed
  <1>3. ~cancelLogged[job[w]] /\ ~expired[job[w]] =>
          status[job[w]] \notin {"completed", "partial", "failed"}
    BY DEF InStep, ActiveScan
  <1> QED
    BY <1>1, <1>2, <1>3 DEF InStep

\* Only the executor of a scan, a cancellation and the deadline write to it.
LEMMA InStepKept ==
  TypeOK /\ Placed /\ OneMessage /\ InStep /\ [Next]_vars => InStep'
  <1> SUFFICES ASSUME TypeOK, Placed, OneMessage, InStep, [Next]_vars PROVE InStep'
    OBVIOUS
  <1>1. ASSUME NEW s \in Scans, Admit(s)
        PROVE  InStep'
    BY <1>1
    DEF Admit, TypeOK, Placed, OneMessage, InStep, rows, world, sessions, sweepers,
        record
  <1>2. ASSUME NEW s \in Scans, NEW l \in Layer, NEW selected \in SUBSET Connectors,
               Store(s, l, selected)
        PROVE  InStep'
    BY <1>2
    DEF Store, TypeOK, Placed, OneMessage, InStep, world, sessions, sweepers, record
  <1>3. ASSUME NEW s \in Scans, Enqueue(s)
        PROVE  InStep'
    BY <1>3
    DEF Enqueue, TypeOK, Placed, OneMessage, InStep, rows, world, sessions, sweepers,
        record
  <1>4. ASSUME NEW s \in Scans, LoseEnqueue(s)
        PROVE  InStep'
    BY <1>4
    DEF LoseEnqueue, TypeOK, Placed, OneMessage, InStep, rows, world, sessions,
        sweepers, record
  <1>5. ASSUME NEW s \in Scans, CancelLoad(s)
        PROVE  InStep'
    BY <1>5
    DEF CancelLoad, TypeOK, Placed, OneMessage, InStep, rows, world, broker, sessions,
        record
  <1>6. ASSUME NEW s \in Scans, CancelCommit(s)
        PROVE  InStep'
    BY <1>6
    DEF CancelCommit, TypeOK, Placed, OneMessage, InStep, world, broker, sessions
  <1>7. ASSUME SweepLoad
        PROVE  InStep'
    BY <1>7
    DEF SweepLoad, TypeOK, Placed, OneMessage, InStep, rows, world, broker, sessions,
        record, StaleScans
  <1>8. ASSUME SweepCommit
        PROVE  InStep'
    BY <1>8
    DEF SweepCommit, TypeOK, Placed, OneMessage, InStep, world, broker, sessions,
        record
  <1>9. ASSUME NEW w \in Workers, NEW s \in Scans, Take(w, s)
        PROVE  InStep'
    <2>1. CASE status[s] \in TerminalScan
      BY <1>9, <2>1 DEF Take, InStep, rows, world, sweepers, record
    <2>2. CASE status[s] \notin TerminalScan
      <3>1. /\ pc' = [pc EXCEPT ![w] = "loaded"] /\ job' = [job EXCEPT ![w] = s]
            /\ memStatus' = [memStatus EXCEPT ![w] = status[s]]
            /\ memRun' = [memRun EXCEPT ![w] = run[s]]
            /\ queue[s] > 0
            /\ UNCHANGED <<status, run, expired, verified, sweep, cancelLogged>>
        BY <1>9, <2>2 DEF Take, rows, world, sweepers, record
      <3>2. status[s] \in ActiveScan
        BY <2>2, <3>1 DEF TypeOK, Placed, ScanStatus, TerminalScan, ActiveScan
      <3> QED
        BY <3>1, <3>2 DEF TypeOK, InStep
    <2> QED
      BY <2>1, <2>2
  <1>10. ASSUME NEW w \in Workers, StartExpired(w)
        PROVE  InStep'
    BY <1>10
    DEF StartExpired, TypeOK, Placed, OneMessage, InStep, world, broker, sweepers,
        EndTask
  <1>11. ASSUME NEW w \in Workers, Start(w)
        PROVE  InStep'
    BY <1>11
    DEF Start, TypeOK, Placed, OneMessage, InStep, world, broker, sweepers, record,
        ActiveScan
  <1>12. ASSUME NEW w \in Workers, RefuseUnverified(w)
        PROVE  InStep'
    BY <1>12
    DEF RefuseUnverified, TypeOK, Placed, OneMessage, InStep, world, broker, sweepers,
        EndTask
  <1>13. ASSUME NEW w \in Workers, DeepConsentError(w)
        PROVE  InStep'
    BY <1>13
    DEF DeepConsentError, TypeOK, Placed, OneMessage, InStep, rows, world, broker,
        sweepers, EndTask
  <1>14. ASSUME NEW w \in Workers, EnterLoop(w)
        PROVE  InStep'
    BY <1>14
    DEF EnterLoop, TypeOK, Placed, OneMessage, InStep, rows, world, broker, sweepers,
        record
  <1>15. ASSUME NEW w \in Workers, SeeCancelled(w)
        PROVE  InStep'
    BY <1>15
    DEF SeeCancelled, Refresh, TypeOK, Placed, OneMessage, InStep, rows, world, broker,
        sweepers, record
  <1>16. ASSUME NEW w \in Workers, NEW c \in Connectors, SeeExpired(w, c)
        PROVE  InStep'
    <2>1. /\ \A s \in Scans : s # job[w] => run'[s] = run[s] /\ status'[s] = status[s]
          /\ job[w] \in Scans /\ expired[job[w]]
          /\ \A v \in Workers : v # w =>
               /\ pc'[v] = pc[v] /\ job'[v] = job[v]
               /\ memRun'[v] = memRun[v] /\ memStatus'[v] = memStatus[v]
          /\ pc'[w] = "idle" /\ UNCHANGED <<sweep, expired, verified, cancelLogged>>
      BY <1>16 DEF SeeExpired, EndTask, TypeOK, Placed, world, sweepers
    <2> QED
      BY <2>1 DEF InStep, Placed
  <1>17. ASSUME NEW w \in Workers, NEW c \in Connectors, PassOver(w, c)
        PROVE  InStep'
    BY <1>17
    DEF PassOver, Refresh, TypeOK, Placed, OneMessage, InStep, rows, world, broker,
        sweepers, record
  <1>18. ASSUME NEW w \in Workers, NEW c \in Connectors, Select(w, c)
        PROVE  InStep'
    BY <1>18
    DEF Select, Refresh, TypeOK, Placed, OneMessage, InStep, rows, world, broker,
        sweepers, record, MayContinue
  <1>19. ASSUME NEW w \in Workers, SkipDisabled(w)
        PROVE  InStep'
    <2>1. job[w] \in Scans /\ current[w] \in Connectors
      BY <1>19 DEF SkipDisabled, Placed
    <2>2. /\ \E st : WriteRun(w, st)
          /\ pc[w] # "idle" /\ (\A v \in Workers : pc'[v] # "idle" <=> pc[v] # "idle")
          /\ UNCHANGED <<status, job, memStatus, sweep, expired, verified, cancelLogged>>
      BY <1>19
      DEF SkipDisabled, TypeOK, NextRun, world, sweepers, record
    <2> QED
      BY <2>1, <2>2, WriteRunInStep
  <1>20. ASSUME NEW w \in Workers, Begin(w)
        PROVE  InStep'
    <2>1. job[w] \in Scans /\ current[w] \in Connectors
      BY <1>20 DEF Begin, Placed
    <2>2. /\ \E st : WriteRun(w, st)
          /\ pc[w] # "idle" /\ (\A v \in Workers : pc'[v] # "idle" <=> pc[v] # "idle")
          /\ UNCHANGED <<status, job, memStatus, sweep, expired, verified, cancelLogged>>
      BY <1>20
      DEF Begin, TypeOK, world, sweepers
    <2> QED
      BY <2>1, <2>2, WriteRunInStep
  <1>21. ASSUME NEW w \in Workers, NEW o \in Outcome, CallConnector(w, o)
        PROVE  InStep'
    BY <1>21
    DEF CallConnector, TypeOK, Placed, OneMessage, InStep, rows, world, broker,
        sweepers
  <1>22. ASSUME NEW w \in Workers, RecordResult(w)
        PROVE  InStep'
    <2>1. job[w] \in Scans /\ current[w] \in Connectors
      BY <1>22 DEF RecordResult, Placed
    <2>2. /\ \E st : WriteRun(w, st)
          /\ pc[w] # "idle" /\ (\A v \in Workers : pc'[v] # "idle" <=> pc[v] # "idle")
          /\ UNCHANGED <<status, job, memStatus, sweep, expired, verified, cancelLogged>>
      BY <1>22
      DEF RecordResult, TypeOK, NextRun, world, sweepers
    <2> QED
      BY <2>1, <2>2, WriteRunInStep
  <1>23. ASSUME NEW w \in Workers, LeaveLoop(w)
        PROVE  InStep'
    BY <1>23
    DEF LeaveLoop, TypeOK, Placed, OneMessage, InStep, rows, world, broker, sweepers,
        record
  <1>24. ASSUME NEW w \in Workers, Finalize(w)
        PROVE  InStep'
    BY <1>24, StatusesOfRow
    DEF Finalize, TypeOK, Placed, OneMessage, InStep, world, broker, sweepers, EndTask
  <1>25. ASSUME NEW w \in Workers, Crash(w)
        PROVE  InStep'
    BY <1>25
    DEF Crash, TypeOK, Placed, OneMessage, InStep, rows, world, sweepers, EndTask
  <1>26. ASSUME NEW w \in Workers, TaskFails(w)
        PROVE  InStep'
    BY <1>26
    DEF TaskFails, TypeOK, Placed, OneMessage, InStep, rows, world, broker, sweepers,
        EndTask
  <1>27. ASSUME NEW w \in Workers, Redeliver(w)
        PROVE  InStep'
    BY <1>27
    DEF Redeliver, TypeOK, Placed, OneMessage, InStep, rows, world, sweepers, record
  <1>28. ASSUME NEW s \in Scans, DeadlinePasses(s)
        PROVE  InStep'
    BY <1>28
    DEF DeadlinePasses, TypeOK, Placed, OneMessage, InStep, rows, broker, sessions,
        sweepers, record
  <1>29. ASSUME NEW s \in Scans, IdentifierLapses(s)
        PROVE  InStep'
    BY <1>29
    DEF IdentifierLapses, TypeOK, Placed, OneMessage, InStep, rows, broker, sessions,
        sweepers, record
  <1>30. ASSUME UNCHANGED vars
        PROVE  InStep'
    BY <1>30
    DEF vars, TypeOK, Placed, OneMessage, InStep, rows, world, broker, sessions,
        sweepers, record
  <1> QED
    BY <1>1, <1>2, <1>3, <1>4, <1>5, <1>6, <1>7, <1>8, <1>9, <1>10, <1>11, <1>12, <1>13,
       <1>14, <1>15, <1>16, <1>17, <1>18, <1>19, <1>20, <1>21, <1>22, <1>23, <1>24, <1>25,
       <1>26, <1>27, <1>28, <1>29, <1>30
    DEF Next, Create, Cancel, Reconcile, Execute, Fault

\* If deliveries do not overlap, the result told of a scan that was neither cancelled nor
\* timed out nor refused is the one its stored runs justify, although it is derived from
\* a session's copies: crashes and failed tasks included.
THEOREM ReportMatchesRunsHolds ==
  ASSUME "overlap" \notin Events
  PROVE  Spec => []ReportMatchesRuns
<1>1. Init => OneMessage /\ InStep
  BY DEF Init, OneMessage, InStep
<1>2. InStep => ReportMatchesRuns
  BY StatusesOfRow DEF InStep, ReportMatchesRuns
<1>3. OneMessage /\ TypeOK /\ Placed /\ [Next]_vars => OneMessage'
  BY MessageStep
<1> QED
  BY <1>1, <1>2, <1>3, InStepKept, TypeCorrect, PTL DEF Spec

-----------------------------------------------------------------------------
(* The quota. *)

\* The scans that count against the quota, or will when their request goes on.
ActiveOrAdmitted == {s \in Scans : status[s] \in ActiveScan \/ request[s] = "admitted"}

\* One request at a time is admitted, and while nobody has cancelled a scan, the
\* quota has room for its scan.
Counted ==
  /\ IsFiniteSet({s \in Scans : request[s] # "idle"})
  /\ \A r, s \in Scans : request[r] = "admitted" /\ request[s] = "admitted" => r = s
  /\ (\A s \in Scans : ~cancelLogged[s]) => Cardinality(ActiveOrAdmitted) <= MaxActive

\* What counts is requested.
LEMMA CountedFinite ==
  ASSUME TypeOK, Placed, Counted
  PROVE  IsFiniteSet(ActiveOrAdmitted) /\ Cardinality(ActiveOrAdmitted) \in Nat
  <1>1. ActiveOrAdmitted \in SUBSET {s \in Scans : request[s] # "idle"}
    BY DEF ActiveOrAdmitted, ActiveScan, Placed
  <1>2. IsFiniteSet({s \in Scans : request[s] # "idle"})
    BY DEF Counted
  <1>3. IsFiniteSet(ActiveOrAdmitted)
    BY <1>1, <1>2, FS_Subset
  <1> QED
    BY <1>3, FS_CardinalityType

\* Nothing is requested, and while nobody has cancelled a scan, none becomes active.
LEMMA CountedKept ==
  ASSUME TypeOK, Placed, Counted,
         \A s \in Scans : request'[s] # "idle" => request[s] # "idle",
         \A s \in Scans : request'[s] = "admitted" => request[s] = "admitted",
         \A s \in Scans : cancelLogged[s] => cancelLogged'[s],
         (\A s \in Scans : ~cancelLogged[s]) =>
           \A s \in Scans :
             status'[s] \in ActiveScan => status[s] \in ActiveScan \/ request[s] = "admitted"
  PROVE  Counted'
  <1>1. IsFiniteSet({s \in Scans : request'[s] # "idle"})
    <2>1. {s \in Scans : request'[s] # "idle"} \in SUBSET {s \in Scans : request[s] # "idle"}
      OBVIOUS
    <2> QED
      BY <2>1, FS_Subset DEF Counted
  <1>2. \A r, s \in Scans : request'[r] = "admitted" /\ request'[s] = "admitted" => r = s
    BY DEF Counted
  <1>3. ASSUME \A s \in Scans : ~cancelLogged'[s]
        PROVE  Cardinality(ActiveOrAdmitted') <= MaxActive
    <2>1. \A s \in Scans : ~cancelLogged[s]
      BY <1>3
    <2>2. ActiveOrAdmitted' \in SUBSET ActiveOrAdmitted
      BY <2>1 DEF ActiveOrAdmitted
    <2>3. Cardinality(ActiveOrAdmitted') <= Cardinality(ActiveOrAdmitted)
      BY <2>2, CountedFinite, FS_Subset
    <2>4. IsFiniteSet(ActiveOrAdmitted') /\ Cardinality(ActiveOrAdmitted') \in Nat
      BY <2>2, CountedFinite, FS_Subset, FS_CardinalityType
    <2> QED
      BY <2>1, <2>3, <2>4, CountedFinite, ScanEngineAssumption DEF Counted
  <1> QED
    BY <1>1, <1>2, <1>3 DEF Counted

\* The status derived from the runs is never PENDING.
LEMMA DerivedNotPending == \A S : DeriveScanStatus(S) # "pending"
BY DEF DeriveScanStatus

\* The steps that neither request nor change the status of a scan.
LEMMA CountedElsewhere ==
  ASSUME TypeOK, Placed, Counted, UNCHANGED <<status, request, cancelLogged>>
  PROVE  Counted'
BY CountedKept

\* A request is admitted where there is room, and its scan takes the room; no step makes
\* a scan active again that has ended.
LEMMA CountedStep ==
  ASSUME "race" \notin Events
  PROVE  TypeOK /\ Placed /\ InStep /\ Counted /\ [Next]_vars => Counted'
  <1> SUFFICES ASSUME TypeOK, Placed, InStep, Counted, [Next]_vars PROVE Counted'
    OBVIOUS
  <1>1. ASSUME NEW s \in Scans, Admit(s)
        PROVE  Counted'
    <2>1. /\ request' = [request EXCEPT ![s] = "admitted"]
          /\ \A r \in Scans : request[r] # "admitted"
          /\ UNCHANGED <<status, cancelLogged>>
      BY <1>1 DEF Admit, rows, record
    <2>2. /\ request'[s] = "admitted"
          /\ \A r \in Scans : r # s => request'[r] = request[r]
      BY <2>1 DEF TypeOK
    <2>3. IsFiniteSet({r \in Scans : request'[r] # "idle"})
      <3>1. {r \in Scans : request'[r] # "idle"} = {r \in Scans : request[r] # "idle"} \cup {s}
        BY <2>2
      <3> QED
        BY <3>1, FS_AddElement DEF Counted
    <2>4. \A q, r \in Scans : request'[q] = "admitted" /\ request'[r] = "admitted" => q = r
      BY <2>1, <2>2
    <2>5. Cardinality(ActiveOrAdmitted') <= MaxActive
      <3>1. ActiveOrAdmitted = ActiveScans
        BY <2>1 DEF ActiveOrAdmitted, ActiveScans
      <3>2. ActiveOrAdmitted' = ActiveOrAdmitted \cup {s}
        BY <2>1, <2>2 DEF ActiveOrAdmitted
      <3>3. Cardinality(ActiveOrAdmitted') \in
              {Cardinality(ActiveOrAdmitted), Cardinality(ActiveOrAdmitted) + 1}
        <4>1. IsFiniteSet(ActiveOrAdmitted)
          BY CountedFinite
        <4> HIDE DEF ActiveOrAdmitted
        <4> QED
          BY <3>2, <4>1, FS_AddElement
      <3>4. Cardinality(ActiveOrAdmitted) < MaxActive
        BY <1>1, <3>1 DEF Admit
      <3>5. Cardinality(ActiveOrAdmitted') \in Nat
        BY <3>2, CountedFinite, FS_AddElement, FS_CardinalityType
      <3> QED
        BY <3>3, <3>4, <3>5, CountedFinite, ScanEngineAssumption
    <2> QED
      BY <2>3, <2>4, <2>5 DEF Counted
  <1>2. ASSUME NEW s \in Scans, NEW l \in Layer, NEW selected \in SUBSET Connectors,
               Store(s, l, selected)
        PROVE  Counted'
    <2>1. /\ request[s] = "admitted" /\ request' = [request EXCEPT ![s] = "stored"]
          /\ status' = [status EXCEPT ![s] = "pending"] /\ cancelLogged' = cancelLogged
      BY <1>2 DEF Store, record
    <2>2. \A r \in Scans : r # s => status'[r] = status[r] /\ request'[r] = request[r]
      BY <2>1 DEF TypeOK
    <2>3. request'[s] = "stored"
      BY <2>1 DEF TypeOK
    <2> QED
      BY <2>1, <2>2, <2>3, CountedKept
  <1>3. ASSUME NEW s \in Scans, Enqueue(s) \/ LoseEnqueue(s)
        PROVE  Counted'
    <2>1. /\ request[s] = "stored" /\ request' = [request EXCEPT ![s] = "done"]
          /\ UNCHANGED <<status, cancelLogged>>
      BY <1>3 DEF Enqueue, LoseEnqueue, rows, record
    <2>2. \A r \in Scans : r # s => request'[r] = request[r]
      BY <2>1 DEF TypeOK
    <2>3. request'[s] = "done"
      BY <2>1 DEF TypeOK
    <2> QED
      BY <2>1, <2>2, <2>3, CountedKept
  <1>4. ASSUME NEW s \in Scans, CancelCommit(s)
        PROVE  Counted'
    <2>1. /\ request' = request /\ status' = [status EXCEPT ![s] = "cancelled"]
          /\ cancelLogged' = [cancelLogged EXCEPT ![s] = TRUE]
      BY <1>4 DEF CancelCommit, broker
    <2>2. \A r \in Scans : status'[r] \in ActiveScan => status[r] \in ActiveScan
      BY <2>1 DEF TypeOK, ActiveScan
    <2>3. \A r \in Scans : cancelLogged[r] => cancelLogged'[r]
      BY <2>1 DEF TypeOK
    <2> QED
      BY <2>1, <2>2, <2>3, CountedKept
  <1>5. ASSUME SweepCommit
        PROVE  Counted'
    <2>1. UNCHANGED <<request, cancelLogged>>
      BY <1>5 DEF SweepCommit, broker, record
    <2>2. \A r \in Scans : status'[r] \in ActiveScan => status[r] \in ActiveScan
      BY <1>5 DEF SweepCommit, ActiveScan
    <2> QED
      BY <2>1, <2>2, CountedKept
  <1>6. ASSUME NEW w \in Workers, NEW st, st \notin ActiveScan,
               status' \in {status, [status EXCEPT ![job[w]] = st]},
               UNCHANGED <<request, cancelLogged>>
        PROVE  Counted'
    <2>1. \A r \in Scans : status'[r] \in ActiveScan => status[r] \in ActiveScan
      BY <1>6 DEF TypeOK
    <2> QED
      BY <1>6, <2>1, CountedKept
  <1>7. ASSUME NEW w \in Workers, StartExpired(w)
        PROVE  Counted'
    <2>1. "timed_out" \notin ActiveScan
      BY DEF ActiveScan
    <2> QED
      BY <1>6, <1>7, <2>1 DEF StartExpired, broker
  <1>8. ASSUME NEW w \in Workers, Start(w)
        PROVE  Counted'
    <2>1. /\ UNCHANGED <<request, cancelLogged>>
          /\ status' \in {status, [status EXCEPT ![job[w]] = "running"]}
          /\ pc[w] = "loaded" /\ ~expired[job[w]]
      BY <1>8 DEF Start, broker, record
    <2>2. job[w] \in Scans /\ (~cancelLogged[job[w]] => status[job[w]] \in ActiveScan)
      BY <2>1 DEF Placed, InStep
    <2>3. \A r \in Scans : r # job[w] => status'[r] = status[r]
      BY <2>1 DEF TypeOK
    <2> QED
      BY <2>1, <2>2, <2>3, CountedKept
  <1>9. ASSUME NEW w \in Workers, RefuseUnverified(w)
        PROVE  Counted'
    <2>1. "failed" \notin ActiveScan
      BY DEF ActiveScan
    <2> QED
      BY <1>6, <1>9, <2>1 DEF RefuseUnverified, broker
  <1>10. ASSUME NEW w \in Workers, NEW c \in Connectors, SeeExpired(w, c)
         PROVE  Counted'
    <2>1. "timed_out" \notin ActiveScan
      BY DEF ActiveScan
    <2> QED
      BY <1>6, <1>10, <2>1 DEF SeeExpired, broker
  <1>11. ASSUME NEW w \in Workers, Finalize(w)
         PROVE  Counted'
    <2> DEFINE derived == DeriveScanStatus(MemRunStatuses(w))
    <2>1. /\ UNCHANGED <<request, cancelLogged>>
          /\ \/ status' = status
             \/ derived # "running" /\ status' = [status EXCEPT ![job[w]] = derived]
      BY <1>11 DEF Finalize, broker
    <2>2. derived # "pending"
      BY DerivedNotPending
    <2>3. CASE status' = status
      BY <2>1, <2>3, CountedElsewhere
    <2>4. CASE derived # "running" /\ status' = [status EXCEPT ![job[w]] = derived]
      <3>1. derived \notin ActiveScan
        BY <2>2, <2>4 DEF ActiveScan
      <3> QED
        BY <1>6, <2>1, <2>4, <3>1
    <2> QED
      BY <2>1, <2>3, <2>4
  <1>12. ASSUME NEW s \in Scans, CancelLoad(s) \/ DeadlinePasses(s) \/ IdentifierLapses(s)
         PROVE  Counted'
    BY <1>12, CountedElsewhere
    DEF CancelLoad, DeadlinePasses, IdentifierLapses, rows, broker, record
  <1>13. ASSUME NEW w \in Workers, NEW s \in Scans, Take(w, s)
         PROVE  Counted'
    BY <1>13, CountedElsewhere DEF Take, rows, record
  <1>14. ASSUME NEW w \in Workers,
                DeepConsentError(w) \/ EnterLoop(w) \/ SeeCancelled(w) \/ LeaveLoop(w)
         PROVE  Counted'
    BY <1>14, CountedElsewhere
    DEF DeepConsentError, EnterLoop, SeeCancelled, LeaveLoop, rows, broker, record
  <1>15. ASSUME NEW w \in Workers, NEW c \in Connectors, PassOver(w, c) \/ Select(w, c)
         PROVE  Counted'
    BY <1>15, CountedElsewhere DEF PassOver, Select, rows, broker, record
  <1>16. ASSUME NEW w \in Workers, SkipDisabled(w) \/ Begin(w) \/ RecordResult(w)
         PROVE  Counted'
    BY <1>16, CountedElsewhere DEF SkipDisabled, Begin, RecordResult, broker, record
  <1>17. ASSUME NEW w \in Workers, NEW o \in Outcome, CallConnector(w, o)
         PROVE  Counted'
    BY <1>17, CountedElsewhere DEF CallConnector, rows, broker
  <1>18. ASSUME NEW w \in Workers, Fault(w)
         PROVE  Counted'
    BY <1>18, CountedElsewhere DEF Fault, Crash, TaskFails, Redeliver, rows, broker, record
  <1>19. CASE SweepLoad \/ UNCHANGED vars
    BY <1>19, CountedElsewhere DEF SweepLoad, vars, rows, broker, record
  <1> QED
    BY <1>1, <1>2, <1>3, <1>4, <1>5, <1>7, <1>8, <1>9, <1>10, <1>11, <1>12, <1>13, <1>14,
       <1>15, <1>16, <1>17, <1>18, <1>19
    DEF Next, Create, Cancel, Reconcile, Execute

\* While a user sends one create request at a time and no message is delivered beside the
\* worker that holds it, a user who has cancelled nothing has no more unfinished scans than
\* the quota, whatever crashes, fails, expires or is reconciled.
THEOREM QuotaHolds ==
  ASSUME "race" \notin Events, "overlap" \notin Events
  PROVE  Spec => []QuotaRespected
<1>1. Init => OneMessage /\ InStep
  BY DEF Init, OneMessage, InStep
<1>2. Init => Counted
  <2> SUFFICES ASSUME Init PROVE Counted
    OBVIOUS
  <2>1. {s \in Scans : request[s] # "idle"} = {} /\ ActiveOrAdmitted = {}
    BY DEF Init, ActiveOrAdmitted, ActiveScan
  <2>2. IsFiniteSet({}) /\ Cardinality({}) = 0
    BY FS_EmptySet
  <2>3. \A s \in Scans : request[s] # "admitted"
    BY DEF Init
  <2>4. IsFiniteSet({s \in Scans : request[s] # "idle"})
    BY <2>1, <2>2
  <2>5. Cardinality(ActiveOrAdmitted) <= MaxActive
    BY <2>1, <2>2, ScanEngineAssumption
  <2> QED
    BY <2>3, <2>4, <2>5 DEF Counted
<1>3. TypeOK /\ Placed /\ Counted => QuotaRespected
  <2> SUFFICES ASSUME TypeOK, Placed, Counted, \A s \in Scans : ~cancelLogged[s]
               PROVE  Cardinality({s \in Scans : status[s] \in ActiveScan}) <= MaxActive
    BY DEF QuotaRespected
  <2> DEFINE active == {s \in Scans : status[s] \in ActiveScan}
  <2>1. active \in SUBSET ActiveOrAdmitted
    BY DEF ActiveOrAdmitted
  <2>2. Cardinality(active) <= Cardinality(ActiveOrAdmitted) /\ Cardinality(active) \in Nat
    BY <2>1, CountedFinite, FS_Subset, FS_CardinalityType
  <2>3. Cardinality(ActiveOrAdmitted) <= MaxActive
    BY DEF Counted
  <2> QED
    BY <2>2, <2>3, CountedFinite, ScanEngineAssumption
<1>4. OneMessage /\ TypeOK /\ Placed /\ [Next]_vars => OneMessage'
  BY MessageStep
<1> QED
  BY <1>1, <1>2, <1>3, <1>4, InStepKept, CountedStep, TypeCorrect, PTL DEF Spec

-----------------------------------------------------------------------------
(* Scans that ended have no run left. *)

\* A worker is calling connector c for scan s, or about to commit the result.
InCall(w, s, c) == pc[w] \in {"calling", "called"} /\ job[w] = s /\ current[w] = c

\* The scan statuses that claim the runs were worked off or cancelled.
Closed == {"completed", "partial", "cancelled"}

\* A run in progress has its call; a pending run is known as pending to every session
\* that has read its scan, so none of them ends the scan without it.
Closing ==
  /\ \A s \in Scans, c \in Connectors :
       run[s][c] = "running" => \E w \in Workers : InCall(w, s, c)
  /\ \A s \in Scans, c \in Connectors :
       cancelling[s] /\ run[s][c] = "pending" => cancelRun[s][c] = "pending"
  /\ \A w \in Workers, c \in Connectors :
       pc[w] # "idle" /\ run[job[w]][c] = "pending" => memRun[w][c] = "pending"
  /\ \A s \in Scans, c \in Connectors : status[s] \in Closed => run[s][c] # "pending"

\* A step that keeps the calls, makes no run pending and ends no scan with a pending run.
LEMMA ClosingKept ==
  ASSUME Closing,
         \A s \in Scans, c \in Connectors :
           run'[s][c] = "running" => \E w \in Workers : InCall(w, s, c)',
         \A s \in Scans, c \in Connectors : run'[s][c] = "pending" => run[s][c] = "pending",
         \A s \in Scans : cancelling'[s] => cancelling[s] /\ cancelRun'[s] = cancelRun[s],
         \A w \in Workers :
           pc'[w] # "idle" =>
             /\ pc[w] # "idle" /\ job'[w] = job[w] /\ job[w] \in Scans
             /\ \A c \in Connectors :
                  run'[job[w]][c] = "pending" /\ memRun[w][c] = "pending"
                    => memRun'[w][c] = "pending",
         \A s \in Scans, c \in Connectors :
           status'[s] \in Closed /\ run'[s][c] = "pending" => status[s] \in Closed
  PROVE  Closing'
  <1>1. \A s \in Scans, c \in Connectors :
          cancelling'[s] /\ run'[s][c] = "pending" => cancelRun'[s][c] = "pending"
    BY DEF Closing
  <1>2. \A w \in Workers, c \in Connectors :
          pc'[w] # "idle" /\ run'[job'[w]][c] = "pending" => memRun'[w][c] = "pending"
    BY DEF Closing
  <1>3. \A s \in Scans, c \in Connectors : status'[s] \in Closed => run'[s][c] # "pending"
    BY DEF Closing
  <1> QED
    BY <1>1, <1>2, <1>3 DEF Closing

\* Calls that go on hold the runs in progress.
LEMMA CallsKept ==
  ASSUME Closing,
         \A v \in Workers :
           pc[v] \in {"calling", "called"} =>
             pc'[v] \in {"calling", "called"} /\ job'[v] = job[v] /\ current'[v] = current[v],
         NEW s \in Scans, NEW c \in Connectors, run[s][c] = "running"
  PROVE  \E w \in Workers : InCall(w, s, c)'
  <1>1. PICK w \in Workers : InCall(w, s, c)
    BY DEF Closing
  <1>2. InCall(w, s, c)'
    BY <1>1 DEF InCall
  <1> QED
    BY <1>2

\* The steps that touch neither runs nor the sessions.
LEMMA ClosingElsewhere ==
  ASSUME Closing, UNCHANGED <<status, run, cancelling, cancelRun, pc, job, current, memRun>>
  PROVE  Closing'
BY DEF Closing, InCall

\* A task that ends outside a call.
LEMMA ClosingEnd ==
  ASSUME TypeOK, Placed, Closing, NEW w \in Workers, pc[w] \notin {"calling", "called"},
         EndTask(w), UNCHANGED <<cancelling, cancelRun>>,
         \A s \in Scans, c \in Connectors : run'[s][c] \in {run[s][c], "timed_out"},
         \A s \in Scans, c \in Connectors :
           status'[s] \in Closed /\ run'[s][c] = "pending" => status[s] \in Closed
  PROVE  Closing'
  <1>1. /\ pc'[w] = "idle"
        /\ \A v \in Workers : v # w => /\ pc'[v] = pc[v] /\ job'[v] = job[v]
                                       /\ current'[v] = current[v] /\ memRun'[v] = memRun[v]
    BY DEF EndTask, TypeOK
  <1>2. \A s \in Scans, c \in Connectors :
          run'[s][c] = "running" => \E v \in Workers : InCall(v, s, c)'
    BY <1>1, CallsKept
  <1>3. \A v \in Workers :
          pc'[v] # "idle" =>
            pc[v] # "idle" /\ job'[v] = job[v] /\ job[v] \in Scans /\ memRun'[v] = memRun[v]
    BY <1>1 DEF Placed
  <1> QED
    BY <1>2, <1>3, ClosingKept

\* A task that goes on with the copies it has or has just read.
LEMMA ClosingOn ==
  ASSUME TypeOK, Placed, Closing, NEW w \in Workers,
         pc[w] # "idle", pc[w] \notin {"calling", "called"},
         \A v \in Workers : v # w => pc'[v] = pc[v] /\ current'[v] = current[v],
         memRun' \in {memRun, [memRun EXCEPT ![w] = run[job[w]]]},
         UNCHANGED <<run, job, cancelling, cancelRun>>,
         \A s \in Scans : status'[s] \in Closed => status[s] \in Closed
  PROVE  Closing'
  <1>1. \A s \in Scans, c \in Connectors :
          run'[s][c] = "running" => \E v \in Workers : InCall(v, s, c)'
    BY CallsKept
  <1>2. \A v \in Workers :
          pc'[v] # "idle" => pc[v] # "idle" /\ job'[v] = job[v] /\ job[v] \in Scans
    BY DEF Placed
  <1>3. \A v \in Workers : memRun'[v] \in {memRun[v], run[job[v]]}
    BY DEF TypeOK
  <1>4. \A v \in Workers, c \in Connectors :
          run'[job[v]][c] = "pending" /\ memRun[v][c] = "pending" => memRun'[v][c] = "pending"
    BY <1>3
  <1> QED
    BY <1>1, <1>2, <1>4, ClosingKept

\* A task writes its current run, to be in progress with its call or to be over.
LEMMA ClosingWrite ==
  ASSUME TypeOK, Placed, Closing, NEW w \in Workers, NEW st, WriteRun(w, st),
         job[w] \in Scans, current[w] \in Connectors, pc[w] # "idle",
         st # "pending",
         st = "running" => pc'[w] \in {"calling", "called"} /\ current'[w] = current[w],
         \A v \in Workers : v # w => pc'[v] = pc[v] /\ current'[v] = current[v],
         UNCHANGED <<status, job, cancelling, cancelRun>>
  PROVE  Closing'
  <1>1. /\ run'[job[w]][current[w]] = st
        /\ \A s \in Scans, c \in Connectors :
             s # job[w] \/ c # current[w] => run'[s][c] = run[s][c]
    BY DEF WriteRun, TypeOK
  <1>2. /\ \A v \in Workers : v # w => memRun'[v] = memRun[v]
        /\ \A c \in Connectors : c # current[w] => memRun'[w][c] = memRun[w][c]
    BY DEF WriteRun, TypeOK
  <1>3. \A s \in Scans, c \in Connectors : run'[s][c] = "pending" => run[s][c] = "pending"
    BY <1>1
  <1>4. ASSUME NEW s \in Scans, NEW c \in Connectors, run'[s][c] = "running"
        PROVE  \E v \in Workers : InCall(v, s, c)'
    <2>1. CASE s = job[w] /\ c = current[w]
      <3>1. InCall(w, s, c)'
        BY <1>1, <1>4, <2>1 DEF InCall
      <3> QED
        BY <3>1
    <2>2. CASE s # job[w] \/ c # current[w]
      <3>1. PICK v \in Workers : InCall(v, s, c)
        BY <1>1, <1>4, <2>2 DEF Closing
      <3>2. v # w
        BY <2>2, <3>1 DEF InCall
      <3>3. InCall(v, s, c)'
        BY <3>1, <3>2 DEF InCall
      <3> QED
        BY <3>3
    <2> QED
      BY <2>1, <2>2
  <1>5. ASSUME NEW v \in Workers, pc'[v] # "idle"
        PROVE  /\ pc[v] # "idle" /\ job'[v] = job[v] /\ job[v] \in Scans
               /\ \A c \in Connectors :
                    run'[job[v]][c] = "pending" /\ memRun[v][c] = "pending"
                      => memRun'[v][c] = "pending"
    <2>1. pc[v] # "idle" /\ job'[v] = job[v] /\ job[v] \in Scans
      BY <1>5 DEF Placed
    <2>2. ASSUME NEW c \in Connectors, run'[job[v]][c] = "pending", memRun[v][c] = "pending"
          PROVE  memRun'[v][c] = "pending"
      BY <1>1, <1>2, <2>2
    <2> QED
      BY <2>1, <2>2
  <1> QED
    BY <1>3, <1>4, <1>5, ClosingKept

\* The copy a task finalizes from ends the scan only when no run is left in it.
LEMMA ClosedDerived ==
  ASSUME NEW S, DeriveScanStatus(S) \in Closed
  PROVE  "pending" \notin S
BY DEF DeriveScanStatus, Closed, UnfinishedRun, TerminalRun, RunStatus

\* While no task dies, every run in progress has its call, and whoever ends a scan knows
\* of its pending runs.
LEMMA ClosingStep ==
  ASSUME "crash" \notin Events, "fail" \notin Events
  PROVE  TypeOK /\ Placed /\ Closing /\ [Next]_vars => Closing'
  <1> SUFFICES ASSUME TypeOK, Placed, Closing, [Next]_vars PROVE Closing'
    OBVIOUS
  <1>1. ASSUME NEW s \in Scans, Admit(s) \/ Enqueue(s) \/ LoseEnqueue(s) \/ DeadlinePasses(s)
                                 \/ IdentifierLapses(s)
        PROVE  Closing'
    BY <1>1, ClosingElsewhere
    DEF Admit, Enqueue, LoseEnqueue, DeadlinePasses, IdentifierLapses, rows, sessions, sweepers
  <1>2. ASSUME NEW s \in Scans, NEW l \in Layer, NEW selected \in SUBSET Connectors,
               Store(s, l, selected)
        PROVE  Closing'
    <2>1. /\ status[s] = "absent" /\ ~cancelling[s] /\ \A w \in Workers : job[w] # s
      BY <1>2 DEF Store, Placed
    <2>2. /\ \A r \in Scans : r # s => run'[r] = run[r] /\ status'[r] = status[r]
          /\ status'[s] = "pending"
          /\ \A c \in Connectors : run'[s][c] # "running"
          /\ UNCHANGED <<pc, job, current, memRun, cancelling, cancelRun>>
      BY <1>2 DEF Store, TypeOK, NotSelected, sessions, sweepers
    <2>3. ASSUME NEW r \in Scans, NEW c \in Connectors, run'[r][c] = "running"
          PROVE  \E w \in Workers : InCall(w, r, c)'
      BY <2>2, <2>3, CallsKept
    <2>4. \A w \in Workers, c \in Connectors :
            pc'[w] # "idle" /\ run'[job'[w]][c] = "pending" => memRun'[w][c] = "pending"
      BY <2>1, <2>2 DEF Placed, Closing
    <2>5. \A r \in Scans, c \in Connectors :
            cancelling'[r] /\ run'[r][c] = "pending" => cancelRun'[r][c] = "pending"
      BY <2>1, <2>2 DEF Closing
    <2>6. \A r \in Scans, c \in Connectors : status'[r] \in Closed => run'[r][c] # "pending"
      BY <2>2 DEF Closing, Closed
    <2> QED
      BY <2>3, <2>4, <2>5, <2>6 DEF Closing
  <1>3. ASSUME NEW s \in Scans, CancelLoad(s)
        PROVE  Closing'
    <2>1. /\ UNCHANGED <<status, run, pc, job, current, memRun>>
          /\ \A r \in Scans : r # s =>
               cancelling'[r] = cancelling[r] /\ cancelRun'[r] = cancelRun[r]
          /\ cancelRun'[s] = run[s]
      BY <1>3 DEF CancelLoad, TypeOK, rows, sessions
    <2>2. \A r \in Scans, c \in Connectors :
            cancelling'[r] /\ run'[r][c] = "pending" => cancelRun'[r][c] = "pending"
      BY <2>1 DEF Closing
    <2> QED
      BY <2>1, <2>2 DEF Closing, InCall
  <1>4. ASSUME NEW s \in Scans, CancelCommit(s)
        PROVE  Closing'
    <2>1. /\ cancelling[s]
          /\ \A r \in Scans : r # s =>
               /\ run'[r] = run[r] /\ status'[r] = status[r]
               /\ cancelling'[r] = cancelling[r] /\ cancelRun'[r] = cancelRun[r]
          /\ ~cancelling'[s]
          /\ \A c \in Connectors :
               run'[s][c] = IF cancelRun[s][c] \in UnfinishedRun THEN "skipped" ELSE run[s][c]
          /\ UNCHANGED <<pc, job, current, memRun>>
      BY <1>4 DEF CancelCommit, Close, TypeOK, sessions
    <2>2. \A r \in Scans, c \in Connectors : run'[r][c] \in {run[r][c], "skipped"}
      BY <2>1
    <2>3. \A c \in Connectors : run'[s][c] # "pending"
      BY <2>1 DEF Closing, UnfinishedRun
    <2>4. \A r \in Scans, c \in Connectors :
            run'[r][c] = "running" => \E w \in Workers : InCall(w, r, c)'
      BY <2>1, <2>2, CallsKept
    <2> QED
      BY <2>1, <2>2, <2>3, <2>4, ClosingKept DEF Placed
  <1>5. CASE SweepLoad \/ UNCHANGED vars
    BY <1>5, ClosingElsewhere DEF SweepLoad, vars, rows, sessions, sweepers
  <1>6. CASE SweepCommit
    <2>1. /\ \A s \in Scans, c \in Connectors : run'[s][c] \in {run[s][c], "timed_out"}
          /\ \A s \in Scans : status'[s] \in {status[s], "timed_out"}
          /\ UNCHANGED <<pc, job, current, memRun, cancelling, cancelRun>>
      BY <1>6 DEF SweepCommit, Close, TypeOK, sessions
    <2>2. \A s \in Scans, c \in Connectors :
            run'[s][c] = "running" => \E w \in Workers : InCall(w, s, c)'
      BY <2>1, CallsKept
    <2>3. \A s \in Scans : status'[s] \in Closed => status[s] \in Closed
      BY <2>1 DEF Closed
    <2> QED
      BY <2>1, <2>2, <2>3, ClosingKept DEF Placed
  <1>7. ASSUME NEW w \in Workers, NEW s \in Scans, Take(w, s)
        PROVE  Closing'
    <2>1. /\ UNCHANGED <<status, run, current, cancelling, cancelRun>>
          /\ \A v \in Workers : v # w => /\ pc'[v] = pc[v] /\ job'[v] = job[v]
                                         /\ memRun'[v] = memRun[v]
          /\ pc[w] = "idle"
          /\ \/ pc'[w] = "idle"
             \/ pc'[w] = "loaded" /\ job'[w] = s /\ memRun'[w] = run[s]
      BY <1>7 DEF Take, TypeOK, rows, sweepers
    <2>2. \A r \in Scans, c \in Connectors :
            run'[r][c] = "running" => \E v \in Workers : InCall(v, r, c)'
      BY <2>1, CallsKept
    <2>3. \A v \in Workers, c \in Connectors :
            pc'[v] # "idle" /\ run'[job'[v]][c] = "pending" => memRun'[v][c] = "pending"
      BY <2>1 DEF Closing
    <2> QED
      BY <2>1, <2>2, <2>3 DEF Closing
  <1>8. ASSUME NEW w \in Workers, StartExpired(w)
        PROVE  Closing'
    <2>1. job[w] \in Scans
      BY <1>8 DEF StartExpired, Placed
    <2>2. \A s \in Scans, c \in Connectors : run'[s][c] \in {run[s][c], "timed_out"}
      BY <1>8, <2>1 DEF StartExpired, Close, TypeOK
    <2>3. \A s \in Scans : status'[s] \in Closed => status[s] \in Closed
      BY <1>8 DEF StartExpired, Closed, TypeOK
    <2> QED
      BY <1>8, <2>2, <2>3, ClosingEnd DEF StartExpired, sweepers
  <1>9. ASSUME NEW w \in Workers, Start(w)
        PROVE  Closing'
    <2>1. \A s \in Scans : status'[s] \in Closed => status[s] \in Closed
      BY <1>9 DEF Start, Closed, TypeOK
    <2>2. \A v \in Workers : v # w => pc'[v] = pc[v]
      BY <1>9 DEF Start, TypeOK
    <2> QED
      BY <1>9, <2>1, <2>2, ClosingOn DEF Start, sweepers
  <1>10. ASSUME NEW w \in Workers, RefuseUnverified(w) \/ DeepConsentError(w)
         PROVE  Closing'
    <2>1. \A s \in Scans : status'[s] \in Closed => status[s] \in Closed
      BY <1>10 DEF RefuseUnverified, DeepConsentError, rows, Closed, TypeOK
    <2> QED
      BY <1>10, <2>1, ClosingEnd DEF RefuseUnverified, DeepConsentError, rows, sweepers
  <1>11. ASSUME NEW w \in Workers, EnterLoop(w) \/ LeaveLoop(w)
         PROVE  Closing'
    <2>1. \A v \in Workers : v # w => pc'[v] = pc[v]
      BY <1>11 DEF EnterLoop, LeaveLoop, TypeOK
    <2> QED
      BY <1>11, <2>1, ClosingOn DEF EnterLoop, LeaveLoop, rows, sweepers
  <1>12. ASSUME NEW w \in Workers, SeeCancelled(w)
         PROVE  Closing'
    <2>1. \A v \in Workers : v # w => pc'[v] = pc[v]
      BY <1>12 DEF SeeCancelled, TypeOK
    <2> QED
      BY <1>12, <2>1, ClosingOn DEF SeeCancelled, Refresh, rows, sweepers
  <1>13. ASSUME NEW w \in Workers, NEW c \in Connectors, PassOver(w, c) \/ Select(w, c)
         PROVE  Closing'
    <2>1. \A v \in Workers : v # w => pc'[v] = pc[v] /\ current'[v] = current[v]
      BY <1>13 DEF PassOver, Select, TypeOK
    <2> QED
      BY <1>13, <2>1, ClosingOn DEF PassOver, Select, Refresh, rows, sweepers
  <1>14. ASSUME NEW w \in Workers, NEW c \in Connectors, SeeExpired(w, c)
         PROVE  Closing'
    <2>1. job[w] \in Scans
      BY <1>14 DEF SeeExpired, Placed
    <2>2. \A s \in Scans, d \in Connectors : run'[s][d] \in {run[s][d], "timed_out"}
      <3>1. run' = run \/ run' = [run EXCEPT ![job[w]][c] = "timed_out"]
        BY <1>14, Zenon DEF SeeExpired
      <3>2. CASE run' = [run EXCEPT ![job[w]][c] = "timed_out"]
        BY <2>1, <3>2 DEF TypeOK
      <3> QED
        BY <3>1, <3>2
    <2>3. \A s \in Scans : status'[s] \in Closed => status[s] \in Closed
      <3>1. status' \in {status, [status EXCEPT ![job[w]] = "timed_out"]}
        BY <1>14 DEF SeeExpired
      <3> QED
        BY <2>1, <3>1 DEF Closed, TypeOK
    <2> QED
      BY <1>14, <2>2, <2>3, ClosingEnd DEF SeeExpired, sweepers
  <1>15. ASSUME NEW w \in Workers, SkipDisabled(w) \/ Begin(w) \/ RecordResult(w)
         PROVE  Closing'
    <2>1. job[w] \in Scans /\ current[w] \in Connectors /\ pc[w] # "idle"
      BY <1>15 DEF SkipDisabled, Begin, RecordResult, Placed
    <2>2. \A v \in Workers : v # w => pc'[v] = pc[v] /\ current'[v] = current[v]
      BY <1>15 DEF SkipDisabled, Begin, RecordResult, NextRun, TypeOK
    <2>3. UNCHANGED <<status, job, cancelling, cancelRun>>
      BY <1>15 DEF SkipDisabled, Begin, RecordResult, sweepers
    <2>4. CASE SkipDisabled(w) \/ RecordResult(w)
      <3>1. PICK st \in {"skipped", outcome[w]} : WriteRun(w, st)
        BY <2>4 DEF SkipDisabled, RecordResult
      <3>2. st \notin {"pending", "running"}
        BY DEF TypeOK, Outcome
      <3> QED
        BY <2>1, <2>2, <2>3, <3>1, <3>2, ClosingWrite
    <2>5. CASE Begin(w)
      <3>1. WriteRun(w, "running") /\ pc'[w] = "calling" /\ current'[w] = current[w]
        BY <2>5 DEF Begin, TypeOK
      <3> QED
        BY <2>1, <2>2, <2>3, <3>1, ClosingWrite
    <2> QED
      BY <1>15, <2>4, <2>5
  <1>16. ASSUME NEW w \in Workers, NEW o \in Outcome, CallConnector(w, o)
         PROVE  Closing'
    <2>1. /\ UNCHANGED <<status, run, cancelling, cancelRun, job, current, memRun>>
          /\ pc[w] = "calling" /\ pc'[w] = "called"
          /\ \A v \in Workers : v # w => pc'[v] = pc[v]
      BY <1>16 DEF CallConnector, TypeOK, rows, sweepers
    <2>2. \A s \in Scans, c \in Connectors :
            run'[s][c] = "running" => \E v \in Workers : InCall(v, s, c)'
      BY <2>1, CallsKept
    <2> QED
      BY <2>1, <2>2, ClosingKept DEF Placed
  <1>17. ASSUME NEW w \in Workers, Finalize(w)
         PROVE  Closing'
    <2> DEFINE derived == DeriveScanStatus(MemRunStatuses(w))
    <2>1. /\ pc[w] = "finalize" /\ job[w] \in Scans /\ EndTask(w)
          /\ status' \in {status, [status EXCEPT ![job[w]] = derived]}
          /\ UNCHANGED <<run, cancelling, cancelRun>>
      BY <1>17 DEF Finalize, Placed, sweepers
    <2>2. \A s \in Scans : s # job[w] => status'[s] = status[s]
      BY <2>1 DEF TypeOK
    <2>3. status'[job[w]] \in {status[job[w]], derived}
      BY <2>1 DEF TypeOK
    <2>4. ASSUME derived \in Closed, NEW c \in Connectors
          PROVE  run[job[w]][c] # "pending"
      <3>1. "pending" \notin MemRunStatuses(w)
        BY <2>4, ClosedDerived
      <3>2. memRun[w][c] # "pending"
        BY <3>1 DEF MemRunStatuses, NotSelected
      <3> QED
        BY <2>1, <3>2 DEF Closing
    <2>5. \A s \in Scans, c \in Connectors :
            status'[s] \in Closed /\ run'[s][c] = "pending" => status[s] \in Closed
      BY <2>1, <2>2, <2>3, <2>4
    <2> QED
      BY <2>1, <2>5, ClosingEnd
  <1>18. ASSUME NEW w \in Workers, Fault(w)
         PROVE  Closing'
    BY <1>18, ClosingElsewhere DEF Fault, Crash, TaskFails, Redeliver, rows, sweepers
  <1> QED
    BY <1>1, <1>2, <1>3, <1>4, <1>5, <1>6, <1>7, <1>8, <1>9, <1>10, <1>11, <1>12, <1>13,
       <1>14, <1>15, <1>16, <1>17, <1>18
    DEF Next, Create, Cancel, Reconcile, Execute

\* While no worker dies or fails, a scan that ended and that nobody works on has no run
\* left to run, although the runs are closed from copies: overlapping deliveries,
\* cancellations, deadlines and reconciliation included.
THEOREM EndedScanIsClosedHolds ==
  ASSUME "crash" \notin Events, "fail" \notin Events
  PROVE  Spec => []EndedScanIsClosed
<1>1. Init => Closing
  <2> SUFFICES ASSUME Init PROVE Closing
    OBVIOUS
  <2>1. \A s \in Scans, c \in Connectors : run[s][c] \notin {"pending", "running"}
    BY DEF Init, NoRuns, NotSelected
  <2>2. /\ \A s \in Scans : ~cancelling[s]
        /\ \A w \in Workers : pc[w] = "idle"
    BY DEF Init
  <2> QED
    BY <2>1, <2>2 DEF Closing
<1>2. TypeOK /\ Closing => EndedScanIsClosed
  <2> SUFFICES ASSUME TypeOK, Closing, NEW s \in Scans, status[s] \in Closed, ~InFlight(s)
               PROVE  RunStatuses(s) \subseteq TerminalRun
    BY DEF EndedScanIsClosed, Closed
  <2>1. \A c \in Connectors : run[s][c] \notin UnfinishedRun
    BY DEF Closing, InCall, InFlight, BeingExecuted, UnfinishedRun
  <2> QED
    BY <2>1 DEF TypeOK, RunRow, RunStatuses, SelectedRuns, TerminalRun
<1> QED
  BY <1>1, <1>2, ClosingStep, TypeCorrect, PTL DEF Spec

-----------------------------------------------------------------------------
(* The refinement of ConnectorDispatch. *)

\* What was answered was called, the ledger names only what was answered, and a result to
\* record is of an answered call that the ledger does not name.
AnsweredBeforeRecorded ==
  /\ \A s \in Scans : \A c \in answered[s] : \E v \in Workers : called[v][s][c] > 0
  /\ \A s \in Scans : ledger[s] \subseteq answered[s]
  /\ \A w \in Workers :
       pc[w] = "called" /\ outcome[w] # "skipped" =>
         current[w] \in answered[job[w]] \ ledger[job[w]]

\* A step that neither calls nor records keeps the calls made.
CallsGoOn ==
  /\ UNCHANGED <<called, exposed, answered, ledger>>
  /\ \A v \in Workers :
       pc'[v] = "called" =>
         /\ pc[v] = "called"
         /\ job'[v] = job[v] /\ current'[v] = current[v] /\ outcome'[v] = outcome[v]

\* A task that ends calls nothing.
LEMMA CallsGoOnEnd ==
  ASSUME TypeOK, NEW w \in Workers, EndTask(w), UNCHANGED <<called, exposed, answered, ledger>>
  PROVE  CallsGoOn
  <1>1. ASSUME NEW v \in Workers, pc'[v] = "called"
        PROVE  /\ pc[v] = "called" /\ job'[v] = job[v]
               /\ current'[v] = current[v] /\ outcome'[v] = outcome[v]
    <2>1. v # w
      BY <1>1 DEF EndTask, TypeOK
    <2> QED
      BY <1>1, <2>1 DEF EndTask, TypeOK
  <1> QED
    BY <1>1 DEF CallsGoOn

\* A task that goes on without calling.
LEMMA CallsGoOnStep ==
  ASSUME TypeOK, NEW w \in Workers, NEW stage, stage # "called",
         pc' = [pc EXCEPT ![w] = stage],
         \A v \in Workers : v # w => /\ job'[v] = job[v] /\ current'[v] = current[v]
                                     /\ outcome'[v] = outcome[v],
         UNCHANGED <<called, exposed, answered, ledger>>
  PROVE  CallsGoOn
  <1>1. ASSUME NEW v \in Workers, pc'[v] = "called"
        PROVE  /\ pc[v] = "called" /\ job'[v] = job[v]
               /\ current'[v] = current[v] /\ outcome'[v] = outcome[v]
    <2>1. v # w
      BY <1>1 DEF TypeOK
    <2> QED
      BY <1>1, <2>1 DEF TypeOK
  <1> QED
    BY <1>1 DEF CallsGoOn

\* Every step is a call, the recording of a result, or neither.
LEMMA CallSteps ==
  ASSUME TypeOK, [Next]_vars
  PROVE  \/ \E w \in Workers, o \in Outcome : CallConnector(w, o)
         \/ \E w \in Workers : RecordResult(w)
         \/ CallsGoOn
  <1>1. ASSUME NEW s \in Scans, Create(s) \/ Cancel(s) \/ DeadlinePasses(s) \/ IdentifierLapses(s)
        PROVE  CallsGoOn
    <2>1. UNCHANGED <<called, exposed, answered, ledger, pc, job, current, outcome>>
      BY <1>1 DEF Create, Admit, Store, Enqueue, LoseEnqueue, Cancel, CancelLoad, CancelCommit,
                  DeadlinePasses, IdentifierLapses, sessions, record
    <2> QED
      BY <2>1 DEF CallsGoOn
  <1>2. CASE Reconcile \/ UNCHANGED vars
    <2>1. UNCHANGED <<called, exposed, answered, ledger, pc, job, current, outcome>>
      BY <1>2 DEF Reconcile, SweepLoad, SweepCommit, vars, sessions, record
    <2> QED
      BY <2>1 DEF CallsGoOn
  <1>3. ASSUME NEW w \in Workers, NEW s \in Scans, Take(w, s)
        PROVE  CallsGoOn
    <2>1. CASE status[s] \in TerminalScan
      BY <1>3, <2>1 DEF Take, CallsGoOn, record
    <2>2. CASE status[s] \notin TerminalScan
      <3>1. pc' = [pc EXCEPT ![w] = "loaded"] /\ job' = [job EXCEPT ![w] = s]
        BY <1>3, <2>2 DEF Take
      <3> QED
        BY <1>3, <3>1, CallsGoOnStep DEF Take, TypeOK, record
    <2> QED
      BY <2>1, <2>2
  <1>4. ASSUME NEW w \in Workers, Start(w) \/ EnterLoop(w) \/ SeeCancelled(w) \/ LeaveLoop(w)
                                  \/ Begin(w)
        PROVE  CallsGoOn
    <2>1. /\ \E stage \in {"started", "loop", "finalize", "calling"} :
               pc' = [pc EXCEPT ![w] = stage]
          /\ UNCHANGED <<called, exposed, answered, ledger, job, current, outcome>>
      BY <1>4 DEF Start, EnterLoop, SeeCancelled, LeaveLoop, Begin, record
    <2> QED
      BY <2>1, CallsGoOnStep
  <1>5. ASSUME NEW w \in Workers,
               StartExpired(w) \/ RefuseUnverified(w) \/ DeepConsentError(w) \/ Finalize(w)
               \/ Crash(w) \/ TaskFails(w) \/ \E c \in Connectors : SeeExpired(w, c)
        PROVE  CallsGoOn
    <2>1. EndTask(w) /\ UNCHANGED <<called, exposed, answered, ledger>>
      BY <1>5 DEF StartExpired, RefuseUnverified, DeepConsentError, Finalize, Crash, TaskFails,
                  SeeExpired
    <2> QED
      BY <2>1, CallsGoOnEnd
  <1>6. ASSUME NEW w \in Workers, NEW c \in Connectors, Select(w, c)
        PROVE  CallsGoOn
    BY <1>6, CallsGoOnStep DEF Select, TypeOK, record
  <1>7. ASSUME NEW w \in Workers, Redeliver(w) \/ \E c \in Connectors : PassOver(w, c)
        PROVE  CallsGoOn
    BY <1>7 DEF Redeliver, PassOver, CallsGoOn, record
  <1>8. ASSUME NEW w \in Workers, SkipDisabled(w)
        PROVE  CallsGoOn
    BY <1>8, CallsGoOnStep DEF SkipDisabled, NextRun, TypeOK, record
  <1>9. ASSUME NEW w \in Workers, Execute(w) \/ Fault(w)
        PROVE  \/ \E o \in Outcome : CallConnector(w, o)
               \/ RecordResult(w)
               \/ CallsGoOn
    BY <1>3, <1>4, <1>5, <1>6, <1>7, <1>8, <1>9 DEF Execute, Fault
  <1> QED
    BY <1>1, <1>2, <1>9 DEF Next

\* A call is made before anyone has made it, and recorded after it was answered.
LEMMA AnsweredBeforeRecordedStep ==
  TypeOK /\ Placed /\ OneMessage /\ CalledByOne /\ AnsweredBeforeRecorded /\ [Next]_vars
    => AnsweredBeforeRecorded'
  <1> SUFFICES ASSUME TypeOK, Placed, OneMessage, CalledByOne, AnsweredBeforeRecorded,
                      [Next]_vars
               PROVE  AnsweredBeforeRecorded'
    OBVIOUS
  <1>1. ASSUME NEW w \in Workers, NEW o \in Outcome, CallConnector(w, o)
        PROVE  AnsweredBeforeRecorded'
    <2>1. /\ pc[w] = "calling" /\ job[w] \in Scans /\ current[w] \in Connectors
          /\ UNCHANGED <<job, current, ledger>>
          /\ \A v \in Workers : v # w => pc'[v] = pc[v] /\ outcome'[v] = outcome[v]
          /\ outcome'[w] = o
      BY <1>1 DEF CallConnector, Placed, TypeOK
    <2>2. /\ \A v \in Workers, s \in Scans, c \in Connectors :
               called[v][s][c] > 0 => called'[v][s][c] > 0
          /\ called'[w][job[w]][current[w]] > 0
      <3>1. called' = [called EXCEPT ![w][job[w]][current[w]] = @ + 1]
        BY <1>1 DEF CallConnector
      <3> QED
        BY <2>1, <3>1 DEF TypeOK
    <2>3. /\ \A s \in Scans : answered[s] \subseteq answered'[s]
          /\ \A s \in Scans : \A c \in answered'[s] :
               c \in answered[s] \/ (s = job[w] /\ c = current[w])
          /\ o # "skipped" => current[w] \in answered'[job[w]]
      <3>1. CASE o = "skipped"
        BY <1>1, <3>1 DEF CallConnector
      <3>2. CASE o # "skipped"
        <4>1. answered' = [answered EXCEPT ![job[w]] = @ \cup {current[w]}]
          BY <1>1, <3>2 DEF CallConnector
        <4> QED
          BY <2>1, <4>1 DEF TypeOK
      <3> QED
        BY <3>1, <3>2
    <2>4. current[w] \notin ledger[job[w]]
      <3>1. \A v \in Workers : ~(called[v][job[w]][current[w]] > 0)
        BY <2>1 DEF CalledByOne, TypeOK
      <3>2. current[w] \notin answered[job[w]]
        BY <2>1, <3>1 DEF AnsweredBeforeRecorded
      <3> QED
        BY <2>1, <3>2 DEF AnsweredBeforeRecorded
    <2>5. ASSUME NEW s \in Scans, NEW c \in answered'[s]
          PROVE  \E v \in Workers : called'[v][s][c] > 0
      <3>1. CASE c \in answered[s]
        <4>1. c \in Connectors
          BY <3>1 DEF TypeOK
        <4>2. PICK v \in Workers : called[v][s][c] > 0
          BY <3>1 DEF AnsweredBeforeRecorded
        <4> QED
          BY <2>2, <4>1, <4>2
      <3>2. CASE c \notin answered[s]
        BY <2>2, <2>3, <2>5, <3>2
      <3> QED
        BY <3>1, <3>2
    <2>6. \A s \in Scans : ledger'[s] \subseteq answered'[s]
      BY <2>1, <2>3 DEF AnsweredBeforeRecorded
    <2>7. ASSUME NEW v \in Workers, pc'[v] = "called", outcome'[v] # "skipped"
          PROVE  current'[v] \in answered'[job'[v]] \ ledger'[job'[v]]
      <3>1. CASE v = w
        BY <2>1, <2>3, <2>4, <2>7, <3>1
      <3>2. CASE v # w
        <4>1. pc[v] = "called" /\ outcome[v] # "skipped" /\ job[v] \in Scans
          BY <2>1, <2>7, <3>2 DEF Placed
        <4>2. current[v] \in answered[job[v]] \ ledger[job[v]]
          BY <4>1 DEF AnsweredBeforeRecorded
        <4> QED
          BY <2>1, <2>3, <4>1, <4>2
      <3> QED
        BY <3>1, <3>2
    <2> QED
      BY <2>5, <2>6, <2>7 DEF AnsweredBeforeRecorded
  <1>2. ASSUME NEW w \in Workers, RecordResult(w)
        PROVE  AnsweredBeforeRecorded'
    <2>1. /\ pc[w] = "called" /\ job[w] \in Scans /\ current[w] \in Connectors
          /\ UNCHANGED <<job, called, answered>>
          /\ pc'[w] = "loop"
          /\ \A v \in Workers : v # w => /\ pc'[v] = pc[v] /\ outcome'[v] = outcome[v]
                                         /\ current'[v] = current[v]
          /\ \A s \in Scans : s # job[w] => ledger'[s] = ledger[s]
          /\ ledger'[job[w]] = ledger[job[w]] \cup RecordEgress(w)
      BY <1>2 DEF RecordResult, NextRun, Placed, TypeOK
    <2>2. \A v \in Workers : v # w /\ pc[v] = "called" => job[v] \in Scans /\ job[v] # job[w]
      BY <2>1 DEF OneMessage, Placed
    <2>3. RecordEgress(w) \subseteq answered[job[w]]
      BY <2>1 DEF RecordEgress, AnsweredBeforeRecorded
    <2>4. \A s \in Scans : ledger'[s] \subseteq answered'[s]
      BY <2>1, <2>3 DEF AnsweredBeforeRecorded
    <2>5. ASSUME NEW v \in Workers, pc'[v] = "called", outcome'[v] # "skipped"
          PROVE  current'[v] \in answered'[job'[v]] \ ledger'[job'[v]]
      <3>1. v # w
        BY <2>1, <2>5
      <3>2. current[v] \in answered[job[v]] \ ledger[job[v]]
        BY <2>1, <2>5, <3>1 DEF AnsweredBeforeRecorded
      <3> QED
        BY <2>1, <2>2, <2>5, <3>1, <3>2
    <2> QED
      BY <2>1, <2>4, <2>5 DEF AnsweredBeforeRecorded
  <1>3. CASE CallsGoOn
    BY <1>3 DEF CallsGoOn, AnsweredBeforeRecorded
  <1> QED
    BY <1>1, <1>2, <1>3, CallSteps

\* A pair nobody has called has no calls, and one that a worker has called has one.
OneCallCounts ==
  \A s \in Scans, c \in Connectors :
    /\ (\A v \in Workers : called[v][s][c] = 0) => CallCount(s, c) = 0
    /\ (\E v \in Workers : called[v][s][c] > 0) => CallCount(s, c) = 1

\* Where at most one call is made, the size of the set of calls is zero or one.
LEMMA CallCountOfOne == TypeOK /\ AtMostOneCall => OneCallCounts
  <1> SUFFICES ASSUME TypeOK, AtMostOneCall, NEW s \in Scans, NEW c \in Connectors
               PROVE  /\ (\A v \in Workers : called[v][s][c] = 0) => CallCount(s, c) = 0
                      /\ (\E v \in Workers : called[v][s][c] > 0) => CallCount(s, c) = 1
    BY DEF OneCallCounts
  <1>1. ASSUME \A v \in Workers : called[v][s][c] = 0
        PROVE  CallCount(s, c) = 0
    <2>1. 1..0 = {}
      OBVIOUS
    <2>2. CallsOf(s, c) = {}
      BY <1>1, <2>1 DEF CallsOf
    <2> QED
      BY <2>2, FS_EmptySet DEF CallCount
  <1>2. ASSUME NEW w \in Workers, called[w][s][c] > 0
        PROVE  CallCount(s, c) = 1
    <2>1. called[w][s][c] = 1 /\ \A v \in Workers : v # w => called[v][s][c] = 0
      BY <1>2 DEF AtMostOneCall, TypeOK
    <2>2. 1..1 = {1} /\ 1..0 = {}
      OBVIOUS
    <2>3. CallsOf(s, c) = {<<w, 1>>}
      BY <2>1, <2>2 DEF CallsOf
    <2> QED
      BY <2>3, FS_Singleton DEF CallCount
  <1> QED
    BY <1>1, <1>2

\* The same after a step.
LEMMA CallCountOfOneNext == TypeOK' /\ AtMostOneCall' => OneCallCounts'
BY CallCountOfOne, PTL

\* The calls as the dispatcher counts them.
Calls == [p \in Scans \X Connectors |-> CallCount(p[1], p[2])]

\* The abstract state of the dispatcher.
Dispatched == <<Calls, PairsOf(exposed), PairsOf(answered), PairsOf(ledger)>>

\* A step that changes no call is no step of the dispatcher.
LEMMA CallsKeptStutter ==
  ASSUME UNCHANGED <<called, exposed, answered, ledger>>
  PROVE  UNCHANGED Dispatched
BY DEF Dispatched, Calls, PairsOf, CallCount, CallsOf

\* A connector added to the set of a scan is a pair added to the set of pairs.
LEMMA PairAdded ==
  ASSUME NEW of_scan \in [Scans -> SUBSET Connectors], NEW s \in Scans, NEW c \in Connectors
  PROVE  PairsOf([of_scan EXCEPT ![s] = @ \cup {c}]) = PairsOf(of_scan) \cup {<<s, c>>}
BY DEF PairsOf

\* Initially nothing is called, nothing sent and nothing recorded.
LEMMA DispatchInit ==
  ASSUME Init, TypeOK
  PROVE  Dispatch!Init
  <1>1. AtMostOneCall
    BY DEF Init, AtMostOneCall
  <1>2. \A s \in Scans, c \in Connectors, v \in Workers : called[v][s][c] = 0
    BY DEF Init
  <1>3. \A s \in Scans, c \in Connectors : CallCount(s, c) = 0
    BY <1>1, <1>2, CallCountOfOne DEF OneCallCounts
  <1>4. \A s \in Scans : exposed[s] = {} /\ answered[s] = {} /\ ledger[s] = {}
    BY DEF Init
  <1>5. Calls = [p \in Scans \X Connectors |-> 0]
    BY <1>3 DEF Calls
  <1>6. PairsOf(exposed) = {} /\ PairsOf(answered) = {} /\ PairsOf(ledger) = {}
    BY <1>4 DEF PairsOf
  <1> QED
    BY <1>5, <1>6 DEF Dispatch!Init, Calls

\* Every step of the engine is a step of the dispatcher or changes nothing it sees.
LEMMA DispatchStep ==
  ASSUME TypeOK, TypeOK', Placed, OneMessage, CalledByOne, CalledByOne',
         AnsweredBeforeRecorded, [Next]_vars
  PROVE  (\E p \in Scans \X Connectors : Dispatch!Call(p) \/ Dispatch!Record(p))
         \/ UNCHANGED Dispatched
  <1>0. OneCallCounts /\ OneCallCounts'
    BY CallCountOfOne, CallCountOfOneNext DEF CalledByOne
  <1>1. ASSUME NEW w \in Workers, NEW o \in Outcome, CallConnector(w, o)
        PROVE  \E p \in Scans \X Connectors : Dispatch!Call(p)
    <2> DEFINE p == <<job[w], current[w]>>
    <2>1. /\ pc[w] = "calling" /\ p \in Scans \X Connectors
          /\ called' = [called EXCEPT ![w][job[w]][current[w]] = @ + 1]
          /\ UNCHANGED ledger
      BY <1>1 DEF CallConnector, Placed
    <2>2. \A v \in Workers : called[v][job[w]][current[w]] = 0
      BY <2>1 DEF CalledByOne
    <2>3. Calls[p] = 0
      BY <1>0, <2>1, <2>2 DEF OneCallCounts, Calls
    <2>4. called'[w][job[w]][current[w]] > 0
      BY <2>1, <2>2 DEF TypeOK
    <2>5. Calls'[p] = 1
      BY <1>0, <2>1, <2>4 DEF OneCallCounts, Calls
    <2>6. ASSUME NEW q \in Scans \X Connectors, q # p
          PROVE  Calls'[q] = Calls[q]
      <3>1. q[1] # job[w] \/ q[2] # current[w]
        BY <2>6
      <3>2. \A v \in Workers : called'[v][q[1]][q[2]] = called[v][q[1]][q[2]]
        BY <2>1, <3>1 DEF TypeOK
      <3>3. CallsOf(q[1], q[2])' = CallsOf(q[1], q[2])
        BY <3>2 DEF CallsOf
      <3> QED
        BY <3>3 DEF Calls, CallCount
    <2>7. Calls' = [Calls EXCEPT ![p] = 1]
      BY <2>1, <2>5, <2>6 DEF Calls
    <2>8. PairsOf(exposed)' \in {PairsOf(exposed), PairsOf(exposed) \cup {p}}
      <3>1. exposed' \in {exposed, [exposed EXCEPT ![job[w]] = @ \cup {current[w]}]}
        BY <1>1 DEF CallConnector
      <3>2. PairsOf(exposed)' = PairsOf(exposed')
        BY DEF PairsOf
      <3>3. /\ exposed \in [Scans -> SUBSET Connectors]
            /\ job[w] \in Scans /\ current[w] \in Connectors
        BY <2>1 DEF TypeOK
      <3> QED
        BY <3>1, <3>2, <3>3, PairAdded
    <2>9. PairsOf(answered)' \in {PairsOf(answered), PairsOf(answered) \cup {p}}
      <3>1. answered' \in {answered, [answered EXCEPT ![job[w]] = @ \cup {current[w]}]}
        BY <1>1 DEF CallConnector
      <3>2. PairsOf(answered)' = PairsOf(answered')
        BY DEF PairsOf
      <3>3. /\ answered \in [Scans -> SUBSET Connectors]
            /\ job[w] \in Scans /\ current[w] \in Connectors
        BY <2>1 DEF TypeOK
      <3> QED
        BY <3>1, <3>2, <3>3, PairAdded
    <2>10. UNCHANGED PairsOf(ledger)
      BY <2>1 DEF PairsOf
    <2>11. Dispatch!Call(p)
      BY <2>3, <2>7, <2>8, <2>9, <2>10 DEF Dispatch!Call, Calls
    <2> QED
      BY <2>1, <2>11
  <1>2. ASSUME NEW w \in Workers, RecordResult(w), outcome[w] # "skipped"
        PROVE  \E p \in Scans \X Connectors : Dispatch!Record(p)
    <2> DEFINE p == <<job[w], current[w]>>
    <2>1. /\ pc[w] = "called" /\ p \in Scans \X Connectors
          /\ ledger' = [ledger EXCEPT ![job[w]] = @ \cup {current[w]}]
          /\ UNCHANGED <<called, exposed, answered>>
      BY <1>2 DEF RecordResult, RecordEgress, Placed
    <2>2. current[w] \in answered[job[w]] \ ledger[job[w]]
      BY <1>2, <2>1 DEF AnsweredBeforeRecorded
    <2>3. p \in PairsOf(answered) /\ p \notin PairsOf(ledger)
      BY <2>1, <2>2 DEF PairsOf
    <2>4. PairsOf(ledger)' = PairsOf(ledger) \cup {p}
      <3>1. PairsOf(ledger)' = PairsOf(ledger')
        BY DEF PairsOf
      <3>2. /\ ledger \in [Scans -> SUBSET Connectors]
            /\ job[w] \in Scans /\ current[w] \in Connectors
        BY <2>1 DEF TypeOK
      <3>3. PairsOf([ledger EXCEPT ![job[w]] = @ \cup {current[w]}]) = PairsOf(ledger) \cup {p}
        BY <3>2, PairAdded
      <3>4. ledger' = [ledger EXCEPT ![job[w]] = @ \cup {current[w]}]
        BY <2>1
      <3> QED
        BY <3>1, <3>3, <3>4
    <2>5. UNCHANGED <<Calls, PairsOf(exposed), PairsOf(answered)>>
      BY <2>1 DEF Calls, CallCount, CallsOf, PairsOf
    <2>6. Dispatch!Record(p)
      BY <2>3, <2>4, <2>5 DEF Dispatch!Record, Calls
    <2> QED
      BY <2>1, <2>6
  <1>3. ASSUME NEW w \in Workers, RecordResult(w), outcome[w] = "skipped"
        PROVE  UNCHANGED Dispatched
    <2>1. UNCHANGED <<called, exposed, answered, ledger>>
      BY <1>3 DEF RecordResult, RecordEgress, TypeOK
    <2> QED
      BY <2>1, CallsKeptStutter
  <1>4. CASE CallsGoOn
    BY <1>4, CallsKeptStutter DEF CallsGoOn
  <1> QED
    BY <1>1, <1>2, <1>3, <1>4, CallSteps

\* While no message is delivered beside the worker that holds it, the engine implements
\* the abstract dispatch: every initial state and step of it is one of ConnectorDispatch.
THEOREM DispatchImplemented ==
  ASSUME "overlap" \notin Events
  PROVE  Spec => ImplementsDispatch
<1>1. Init => CalledOnce /\ OneMessage /\ CalledByOne /\ AnsweredBeforeRecorded
  BY DEF Init, CalledOnce, CalledNotPending, PendingUncalled, CurrentUncalled, OneMessage,
         CalledByOne,
         AtMostOneCall, AnsweredBeforeRecorded
<1>2. TypeOK /\ Init => Dispatch!Init
  BY DispatchInit
<1>3. /\ TypeOK /\ TypeOK' /\ Placed /\ OneMessage /\ CalledByOne /\ CalledByOne'
      /\ AnsweredBeforeRecorded /\ [Next]_vars
      => [Dispatch!Next]_Dispatched
  BY DispatchStep DEF Dispatch!Next, Dispatched
<1>4. TypeOK /\ Placed /\ OneMessage /\ [Next]_vars => OneMessage'
  BY MessageStep
<1> QED
  BY <1>1, <1>2, <1>3, <1>4, CalledStep, CalledByOneStep, AnsweredBeforeRecordedStep, TypeCorrect,
     PTL
  DEF Spec, ImplementsDispatch, Dispatch!Spec, Dispatched, Calls
=============================================================================

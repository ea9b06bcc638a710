---------------------- MODULE RemediationEngineProofs ----------------------
(***************************************************************************)
(* Proofs about the remediation engine for every number of jobs, brokers,  *)
(* workers and requests and every choice of environment events.            *)
(*                                                                         *)
(* Placed says where an executor and a job can be, and makes the types     *)
(* inductive.  Honest is inductive relative to it and shows that no        *)
(* removal is reported that was not submitted, whatever happens.  Forward, *)
(* OneMessage and FormOnce follow one job's message and forms; they need   *)
(* that no second executor works on a job.  Recorded follows a result from *)
(* the runner to the ledger; it needs that no executor drops one.          *)
(* Settling follows a job that finishes and Asked one that waits for a     *)
(* captcha; Busy and Counted bound the jobs of the user, and Windowed the  *)
(* forms a broker gets from them.                                          *)
(***************************************************************************)
EXTENDS RemediationEngine, FiniteSetTheorems, TLAPS

-----------------------------------------------------------------------------
(* The inductive strengthening, part by part. *)

\* What a user reports of a manual step.
ManualStatus == {"submitted", "manual_needed", "skipped_fresh", "error"}

\* A busy executor has a job, and in the middle of an item a broker; nothing refers
\* to a job before it is stored.
Placed ==
  /\ \A e \in Executors : pc[e] # "idle" <=> job[e] \in Jobs
  /\ \A e \in Executors :
       pc[e] \in {"manual", "checked", "calling", "verifying", "called"} =>
         current[e] \in Brokers
  /\ \A e \in Executors : held[e] => pc[e] # "idle"
  /\ \A j \in Jobs : status[j] = "absent" <=> request[j] \in {"idle", "admitted"}
  /\ \A j \in Jobs :
       status[j] = "absent" =>
         queue[j] = 0 /\ ~cancelling[j] /\ \A e \in Executors : job[e] # j

\* No captcha belongs to a job that is not stored.
Unasked == \A j \in Jobs, b \in Brokers : status[j] = "absent" => captcha[j][b] = "none"

\* An executor takes a form for accepted, and its verdict for a removal, only when
\* the form was sent.
Honest ==
  /\ NoFalseRemoval
  /\ \A e \in Executors :
       /\ pc[e] = "verifying" => accepted[e]
       /\ pc[e] = "called" /\ outcome[e] = "verified_removed" => accepted[e]
       /\ pc[e] \in {"verifying", "called"} /\ accepted[e] => sent[job[e]][current[e]] > 0

\* A job that has left PENDING does not return, and a captcha is shown later.
Forward ==
  /\ \A j \in Jobs, b \in Brokers : captcha[j][b] # "none" => status[j] # "pending"
  /\ \A e \in Executors :
       /\ pc[e] # "idle" /\ memStatus[e] # "pending" => status[job[e]] # "pending"
       /\ pc[e] \notin {"idle", "loaded", "manual"} => memStatus[e] # "pending"

\* Without overlapping deliveries and reports, one message per job.
OneMessage ==
  /\ \A j \in Jobs : queue[j] <= 1
  /\ \A j \in Jobs :
       request[j] = "stored" => queue[j] = 0 /\ \A e \in Executors : job[e] # j
  /\ \A e \in Executors : pc[e] # "idle" => pc[e] # "manual" /\ queue[job[e]] = 0
  /\ \A d, e \in Executors : pc[d] # "idle" /\ job[d] = job[e] => d = e

\* What is pending, selected or about to be run has not been sent.
FormOnce ==
  /\ \A j \in Jobs, b \in Brokers :
       /\ sent[j][b] <= 1
       /\ status[j] = "absent" => sent[j][b] = 0
       /\ sent[j][b] > 0 => item[j][b] # "pending"
  /\ \A e \in Executors :
       /\ pc[e] \in {"checked", "calling"} => sent[job[e]][current[e]] = 0
       /\ pc[e] = "calling" => item[job[e]][current[e]] # "pending"

\* The executor holds what the runner returned for an item.
Holds(e, j, b) == job[e] = j /\ current[e] = b /\ pc[e] \in {"verifying", "called"}

\* A broker that was run is in the ledger, was stopped by a captcha, or its executor
\* still holds the result.
Recorded ==
  \A j \in Jobs : \A b \in ran[j] :
    \/ b \in ledger[j]
    \/ captcha[j][b] # "none"
    \/ \E e \in Executors : Holds(e, j, b)

-----------------------------------------------------------------------------
(* Types and placement. *)

\* Ending a job keeps the types of the session.
LEMMA EndJobType ==
  ASSUME TypeOK, NEW e \in Executors, EndJob(e)
  PROVE  /\ pc' \in [Executors -> Stage]
         /\ job' \in [Executors -> Jobs \cup {NoJob}]
         /\ held' \in [Executors -> BOOLEAN]
         /\ memStatus' \in [Executors -> JobStatus]
         /\ memItem' \in [Executors -> [Brokers -> ItemRow]]
         /\ todo' \in [Executors -> SUBSET Brokers]
         /\ current' \in [Executors -> Brokers \cup {NoBroker}]
         /\ outcome' \in [Executors -> RunnerResult \cup VerifyResult]
         /\ accepted' \in [Executors -> BOOLEAN]
BY DEF TypeOK, EndJob, Stage, JobStatus, ActiveJob, ItemRow, NoItems, RunnerResult

\* What runs and verifications return are item statuses.
LEMMA ResultType == RunnerResult \cup VerifyResult \subseteq ItemStatus
BY DEF RunnerResult, VerifyResult, ItemStatus

\* What a dying executor drops is a broker's form.
LEMMA LostType ==
  ASSUME TypeOK, Placed, NEW e \in Executors, LoseResult(e)
  PROVE  lost' \in SUBSET Brokers
  <1>1. lost \in SUBSET Brokers
    BY DEF TypeOK
  <1>2. lost' = lost \/ (lost' = lost \cup {current[e]} /\ pc[e] \in {"verifying", "called"})
    BY DEF LoseResult
  <1> QED
    BY <1>1, <1>2 DEF Placed

\* Writing the current item keeps the types of items.
LEMMA WriteItemType ==
  ASSUME TypeOK, NEW e \in Executors, NEW st \in ItemStatus, WriteItem(e, st),
         job[e] \in Jobs, current[e] \in Brokers
  PROVE  /\ item' \in [Jobs -> [Brokers -> ItemRow]]
         /\ memItem' \in [Executors -> [Brokers -> ItemRow]]
BY DEF TypeOK, WriteItem, ItemRow

\* Going on to the next item keeps the types of the session.
LEMMA NextItemType ==
  ASSUME TypeOK, NEW e \in Executors, NextItem(e)
  PROVE  /\ pc' \in [Executors -> Stage]
         /\ current' \in [Executors -> Brokers \cup {NoBroker}]
         /\ outcome' \in [Executors -> RunnerResult \cup VerifyResult]
         /\ accepted' \in [Executors -> BOOLEAN]
BY DEF TypeOK, NextItem, Stage, RunnerResult

\* The status an executor ends with is a job status.
LEMMA VerdictType ==
  ASSUME TypeOK, NEW e \in Executors
  PROVE  Verdict(e) \in JobStatus
BY DEF TypeOK, Verdict, FinalJobStatus, JobStatus, ActiveJob, TerminalJob, WaitingJob

\* A busy executor's job, and a queued job, have been stored.
LEMMA StoredJob ==
  ASSUME TypeOK, Placed
  PROVE  /\ \A e \in Executors :
              pc[e] # "idle" => job[e] \in Jobs /\ status[job[e]] \in JobStatus
         /\ \A j \in Jobs : queue[j] > 0 => status[j] \in JobStatus
  <1>1. ASSUME NEW e \in Executors, pc[e] # "idle"
        PROVE  job[e] \in Jobs /\ status[job[e]] \in JobStatus
    <2>1. job[e] \in Jobs
      BY <1>1 DEF Placed
    <2>2. status[job[e]] # "absent"
      BY <2>1 DEF Placed
    <2> QED
      BY <2>1, <2>2 DEF TypeOK
  <1>2. ASSUME NEW j \in Jobs, queue[j] > 0
        PROVE  status[j] \in JobStatus
    <2>1. status[j] # "absent"
      BY <1>2 DEF Placed
    <2> QED
      BY <2>1 DEF TypeOK
  <1> QED
    BY <1>1, <1>2

\* Every step keeps the types.
LEMMA TypeStep == TypeOK /\ Placed /\ [Next]_vars => TypeOK'
  <1> SUFFICES ASSUME TypeOK, Placed, [Next]_vars PROVE TypeOK'
    OBVIOUS
  <1>1. ASSUME NEW j \in Jobs, Admit(j)
        PROVE  TypeOK'
    BY <1>1 DEF Admit, TypeOK, rows, broker, sessions, cancels, record
  <1>2. ASSUME NEW j \in Jobs, NEW selected \in SUBSET Brokers, NEW preview \in BOOLEAN, Store(j,
               selected, preview)
        PROVE  TypeOK'
    <2>1. status' \in [Jobs -> JobStatus \cup {"absent"}]
      BY <1>2 DEF Store, TypeOK, JobStatus, ActiveJob
    <2>2. item' \in [Jobs -> [Brokers -> ItemRow]]
      BY <1>2 DEF Store, TypeOK, ItemRow, ItemStatus
    <2> QED
      BY <1>2, <2>1, <2>2 DEF Store, TypeOK, sessions, cancels, record
  <1>3. ASSUME NEW j \in Jobs, Enqueue(j)
        PROVE  TypeOK'
    <2>1. queue \in [Jobs -> Nat]
      BY DEF TypeOK
    <2>2. queue' \in [Jobs -> Nat]
      BY <1>3, <2>1 DEF Enqueue
    <2> QED
      BY <1>3, <2>2 DEF Enqueue, TypeOK, rows, sessions, cancels, record
  <1>4. ASSUME NEW j \in Jobs, LoseEnqueue(j)
        PROVE  TypeOK'
    BY <1>4 DEF LoseEnqueue, TypeOK, rows, broker, sessions, cancels, record
  <1>5. ASSUME NEW j \in Jobs, CancelLoad(j)
        PROVE  TypeOK'
    BY <1>5 DEF CancelLoad, TypeOK, rows, broker, sessions, cancels, record
  <1>6. ASSUME NEW j \in Jobs, CancelCommit(j)
        PROVE  TypeOK'
    <2>1. status' \in [Jobs -> JobStatus \cup {"absent"}]
      BY <1>6 DEF CancelCommit, TypeOK, JobStatus, TerminalJob
    <2>2. item' \in [Jobs -> [Brokers -> ItemRow]]
      <3>1. item \in [Jobs -> [Brokers -> ItemRow]] /\ "cancelled" \in ItemRow
        BY DEF TypeOK, ItemRow, ItemStatus
      <3>2. item' = [item EXCEPT ![j] =
                       [b \in Brokers |->
                          IF cancelItem[j][b] \in {"pending", "running", "captcha_needed"}
                          THEN "cancelled" ELSE item[j][b]]]
        BY <1>6 DEF CancelCommit
      <3> QED
        BY <3>1, <3>2
    <2> QED
      BY <1>6, <2>1, <2>2 DEF CancelCommit, TypeOK, broker, sessions, record, ItemRow, NoItems
  <1>7. ASSUME NEW r \in Requests, NEW j \in Jobs, NEW b \in Brokers, ManualLoad(r, j, b)
        PROVE  TypeOK'
    <2>1. r \in Executors /\ status[j] \in JobStatus
      BY <1>7, ZenonT(60) DEF ManualLoad, TypeOK, Executors
    <2> QED
      BY <1>7, <2>1 DEF ManualLoad, Load, TypeOK, rows, broker, cancels, record, Stage
  <1>8. ASSUME NEW r \in Requests, NEW st \in ManualStatus, ManualCommit(r, st)
        PROVE  TypeOK'
    <2>1. /\ r \in Executors /\ st \in ItemStatus
          /\ job[r] \in Jobs /\ current[r] \in Brokers
      BY <1>8 DEF ManualCommit, Placed, Executors, ManualStatus, ItemStatus
    <2>2. item' \in [Jobs -> [Brokers -> ItemRow]]
      BY <1>8, <2>1 DEF ManualCommit, TypeOK, ItemRow
    <2>3. optout' \in [Brokers -> [status : ItemStatus \cup {"none"}, fresh : BOOLEAN]]
      <3>1. [status |-> st, fresh |-> optout[current[r]].fresh \/ st = "submitted"]
              \in [status : ItemStatus \cup {"none"}, fresh : BOOLEAN]
        BY <2>1
      <3> QED
        BY <1>8, <2>1, <3>1 DEF ManualCommit, TypeOK
    <2>4. CASE memStatus[r] \in TerminalJob
      BY <1>8, <2>1, <2>2, <2>3, <2>4, EndJobType
      DEF ManualCommit, TypeOK, broker, cancels, record
    <2>5. CASE memStatus[r] \notin TerminalJob
      <3>1. memItem' \in [Executors -> [Brokers -> ItemRow]]
        <4>1. memItem' = [memItem EXCEPT ![r][current[r]] = st]
          BY <1>8, <2>5 DEF ManualCommit
        <4> QED
          BY <2>1, <4>1 DEF TypeOK, ItemRow
      <3>2. /\ current' \in [Executors -> Brokers \cup {NoBroker}]
            /\ pc' \in [Executors -> Stage]
        BY <1>8, <2>1, <2>5, ZenonT(60) DEF ManualCommit, TypeOK, Stage
      <3> QED
        BY <1>8, <2>2, <2>3, <2>5, <3>1, <3>2, ZenonT(60)
        DEF ManualCommit, TypeOK, broker, cancels, record
    <2> QED
      BY <2>4, <2>5
  <1>9. ASSUME NEW j \in Jobs, NEW b \in Brokers, CaptchaAges(j, b)
        PROVE  TypeOK'
    BY <1>9 DEF CaptchaAges, TypeOK, rows, broker, sessions, cancels, record
  <1>10. ASSUME NEW j \in Jobs, NEW b \in Brokers, NEW reply \in {"skipped", "expired"},
                DropCaptcha(j, b, reply)
        PROVE  TypeOK'
    BY <1>10 DEF DropCaptcha, TypeOK, rows, broker, sessions, cancels, record
  <1>11. ASSUME NEW j \in Jobs, NEW b \in Brokers, SolveCaptcha(j, b)
        PROVE  TypeOK'
    <2>1. CASE ~CanTransitionJob(status[j], "pending")
      BY <1>11, <2>1 DEF SolveCaptcha, TypeOK, sessions, cancels
    <2>2. CASE CanTransitionJob(status[j], "pending")
      <3>1. /\ captcha' = [captcha EXCEPT ![j][b] = "solved"]
            /\ item' = [item EXCEPT ![j][b] = "pending"]
            /\ status' = [status EXCEPT ![j] = "pending"]
            /\ queue' = [queue EXCEPT ![j] = @ + 1]
            /\ answer' = [answer EXCEPT ![j] = "requeued"]
        BY <1>11, <2>2 DEF SolveCaptcha
      <3>2. /\ status' \in [Jobs -> JobStatus \cup {"absent"}]
            /\ item' \in [Jobs -> [Brokers -> ItemRow]]
        BY <3>1 DEF TypeOK, JobStatus, ActiveJob, ItemRow, ItemStatus
      <3>3. queue' \in [Jobs -> Nat]
        <4>1. queue \in [Jobs -> Nat]
          BY DEF TypeOK
        <4> QED
          BY <3>1, <4>1
      <3>4. captcha' \in [Jobs -> [Brokers -> {"none", "pending", "overdue", "solved",
                                              "skipped", "expired"}]]
        BY <3>1 DEF TypeOK
      <3> QED
        BY <1>11, <3>1, <3>2, <3>3, <3>4 DEF SolveCaptcha, TypeOK, sessions, cancels
    <2> QED
      BY <2>1, <2>2
  <1>12. ASSUME NEW w \in Workers, NEW j \in Jobs, Take(w, j)
        PROVE  TypeOK'
    <2>1. w \in Executors
      BY DEF Executors
    <2>2. queue' \in [Jobs -> Nat]
      <3>1. queue \in [Jobs -> Nat]
        BY DEF TypeOK
      <3>2. queue[j] - 1 \in Nat /\ queue' = [queue EXCEPT ![j] = @ - 1]
        BY <1>12, <3>1 DEF Take
      <3> QED
        BY <3>1, <3>2
    <2>3. CASE status[j] \in TerminalJob
      BY <1>12, <2>2, <2>3 DEF Take, TypeOK, rows, cancels, record
    <2>4. CASE status[j] \notin TerminalJob
      <3>1. status[j] \in JobStatus
        BY <1>12, StoredJob DEF Take
      <3>0. /\ pc' = [pc EXCEPT ![w] = "loaded"]
            /\ held' = [held EXCEPT ![w] = TRUE]
            /\ Load(w, j)
        BY <1>12, <2>4 DEF Take
      <3>2. /\ pc' \in [Executors -> Stage]
            /\ held' \in [Executors -> BOOLEAN]
        BY <3>0 DEF TypeOK, Stage
      <3>3. /\ job' \in [Executors -> Jobs \cup {NoJob}]
            /\ memStatus' \in [Executors -> JobStatus]
            /\ memItem' \in [Executors -> [Brokers -> ItemRow]]
        BY <2>1, <3>0, <3>1 DEF Load, TypeOK
      <3> QED
        BY <1>12, <2>2, <3>2, <3>3 DEF Take, TypeOK, rows, cancels, record
    <2> QED
      BY <2>3, <2>4
  <1>13. ASSUME NEW e \in Executors, StartExpired(e)
        PROVE  TypeOK'
    BY <1>13, EndJobType DEF StartExpired, TypeOK, broker, cancels, record, JobStatus, TerminalJob
  <1>14. ASSUME NEW e \in Executors, Start(e)
        PROVE  TypeOK'
    <2>1. status' \in [Jobs -> JobStatus \cup {"absent"}] /\ memStatus' \in [Executors -> JobStatus]
      BY <1>14 DEF Start, TypeOK, JobStatus, ActiveJob
    <2> QED
      BY <1>14, <2>1 DEF Start, TypeOK, broker, cancels, record, Stage
  <1>15. ASSUME NEW e \in Executors, SeeCancelled(e)
        PROVE  TypeOK'
    BY <1>15, EndJobType DEF SeeCancelled, TypeOK, rows, broker, cancels, record
  <1>16. ASSUME NEW e \in Executors, SeeExpired(e)
        PROVE  TypeOK'
    <2>1. status' \in [Jobs -> JobStatus \cup {"absent"}]
      BY <1>16 DEF SeeExpired, TypeOK, JobStatus, TerminalJob
    <2> QED
      BY <1>16, <2>1, EndJobType DEF SeeExpired, TypeOK, broker, cancels, record
  <1>17. ASSUME NEW e \in Executors, NEW b \in Brokers, PassOver(e, b)
        PROVE  TypeOK'
    <2>1. job[e] \in Jobs /\ status[job[e]] \in JobStatus
      BY <1>17, StoredJob DEF PassOver, Proceed
    <2> QED
      BY <1>17, <2>1 DEF PassOver, Proceed, TypeOK, rows, broker, cancels, record
  <1>18. ASSUME NEW e \in Executors, NEW b \in Brokers, Select(e, b)
        PROVE  TypeOK'
    <2>1. job[e] \in Jobs /\ status[job[e]] \in JobStatus
      BY <1>18, StoredJob DEF Select, Proceed
    <2> QED
      BY <1>18, <2>1 DEF Select, Proceed, TypeOK, rows, broker, cancels, record, Stage
  <1>19. ASSUME NEW e \in Executors, NEW st \in {"error", "skipped_fresh"}, SettleWithoutRun(e,
                st)
        PROVE  TypeOK'
    <2>1. job[e] \in Jobs /\ current[e] \in Brokers /\ st \in ItemStatus
      BY <1>19 DEF SettleWithoutRun, Placed, ItemStatus
    <2> QED
      BY <1>19, <2>1, WriteItemType, NextItemType
      DEF SettleWithoutRun, TypeOK, broker, cancels, record
  <1>20. ASSUME NEW e \in Executors, Begin(e)
        PROVE  TypeOK'
    <2>1. job[e] \in Jobs /\ current[e] \in Brokers /\ "running" \in ItemStatus
      BY <1>20 DEF Begin, Placed, ItemStatus
    <2> QED
      BY <1>20, <2>1, WriteItemType DEF Begin, TypeOK, broker, cancels, record, Stage
  <1>21. ASSUME NEW e \in Executors, NEW o \in RunnerResult, NEW formSent \in BOOLEAN,
                RunBroker(e, o, formSent)
        PROVE  TypeOK'
    <2>1. job[e] \in Jobs /\ current[e] \in Brokers
      BY <1>21 DEF RunBroker, Placed
    <2>2. pc' \in [Executors -> Stage] /\ outcome' \in [Executors -> RunnerResult \cup VerifyResult]
      BY <1>21 DEF RunBroker, TypeOK, Stage
    <2>3. accepted' \in [Executors -> BOOLEAN]
      <3>1. Success(e, o) \in BOOLEAN
        BY DEF Success
      <3> QED
        BY <1>21, <3>1 DEF RunBroker, TypeOK
    <2>4. sent' \in [Jobs -> [Brokers -> Nat]]
      <3>1. sent \in [Jobs -> [Brokers -> Nat]]
        BY DEF TypeOK
      <3>2. sent' = sent \/ sent' = [sent EXCEPT ![job[e]][current[e]] = @ + 1]
        BY <1>21 DEF RunBroker
      <3> QED
        BY <2>1, <3>1, <3>2
    <2>5. ran' \in [Jobs -> SUBSET Brokers]
      <3>1. ran \in [Jobs -> SUBSET Brokers]
        BY DEF TypeOK
      <3> QED
        BY <1>21, <2>1, <3>1 DEF RunBroker
    <2>6. forms' \in [Brokers -> Nat]
      <3>1. forms \in [Brokers -> Nat]
        BY DEF TypeOK
      <3>2. forms' = forms \/ forms' = [forms EXCEPT ![current[e]] = @ + 1]
        BY <1>21 DEF RunBroker
      <3> QED
        BY <2>1, <3>1, <3>2
    <2>7. unconfirmed' \in SUBSET Brokers
      <3>1. unconfirmed \in SUBSET Brokers
        BY DEF TypeOK
      <3>2. unconfirmed' = unconfirmed \/ unconfirmed' = unconfirmed \cup {current[e]}
        BY <1>21 DEF RunBroker
      <3> QED
        BY <2>1, <3>1, <3>2
    <2> QED
      BY <1>21, <2>2, <2>3, <2>4, <2>5, <2>6, <2>7
      DEF RunBroker, TypeOK, rows, broker, cancels
  <1>22. ASSUME NEW e \in Executors, NEW v \in VerifyResult, VerifyRemoval(e, v)
        PROVE  TypeOK'
    BY <1>22 DEF VerifyRemoval, TypeOK, rows, broker, cancels, record, Stage
  <1>23. ASSUME NEW e \in Executors, RecordResult(e)
        PROVE  TypeOK'
    <2>1. /\ job[e] \in Jobs /\ current[e] \in Brokers
          /\ outcome[e] \in ItemStatus
      BY <1>23, ResultType DEF RecordResult, Placed, TypeOK
    <2>2. optout' \in [Brokers -> [status : ItemStatus \cup {"none"}, fresh : BOOLEAN]]
      <3>1. [status |-> outcome[e], fresh |-> optout[current[e]].fresh \/ accepted[e]]
              \in [status : ItemStatus \cup {"none"}, fresh : BOOLEAN]
        BY <2>1
      <3> QED
        BY <1>23, <2>1, <3>1 DEF RecordResult, TypeOK
    <2>3. ledger' \in [Jobs -> SUBSET Brokers]
      <3>1. ledger \in [Jobs -> SUBSET Brokers]
        BY DEF TypeOK
      <3> QED
        BY <1>23, <2>1, <3>1 DEF RecordResult, RecordEgress
    <2> QED
      BY <1>23, <2>1, <2>2, <2>3, WriteItemType, NextItemType
      DEF RecordResult, TypeOK, broker, cancels
  <1>24. ASSUME NEW e \in Executors, RecordCaptcha(e)
        PROVE  TypeOK'
    <2>1. job[e] \in Jobs /\ current[e] \in Brokers /\ "captcha_needed" \in ItemStatus
      BY <1>24 DEF RecordCaptcha, Placed, ItemStatus
    <2>2. /\ status' \in [Jobs -> JobStatus \cup {"absent"}]
          /\ memStatus' \in [Executors -> JobStatus]
      BY <1>24 DEF RecordCaptcha, WriteJob, TypeOK, JobStatus, ActiveJob, WaitingJob
    <2>3. optout' \in [Brokers -> [status : ItemStatus \cup {"none"}, fresh : BOOLEAN]]
      <3>1. optout \in [Brokers -> [status : ItemStatus \cup {"none"}, fresh : BOOLEAN]]
        BY DEF TypeOK
      <3> QED
        BY <1>24, <2>1, <3>1 DEF RecordCaptcha
    <2>4. captcha' \in [Jobs -> [Brokers -> {"none", "pending", "overdue", "solved", "skipped",
                                            "expired"}]]
      BY <1>24, <2>1 DEF RecordCaptcha, TypeOK
    <2> QED
      BY <1>24, <2>1, <2>2, <2>3, <2>4, WriteItemType, NextItemType
      DEF RecordCaptcha, TypeOK, broker, cancels, record
  <1>25. ASSUME NEW e \in Executors, LeaveLoop(e)
        PROVE  TypeOK'
    BY <1>25 DEF LeaveLoop, Stage, TypeOK, rows, broker, sessions, cancels, record
  <1>26. ASSUME NEW e \in Executors, Finalize(e)
        PROVE  TypeOK'
    <2>1. status' \in [Jobs -> JobStatus \cup {"absent"}]
      BY <1>26, VerdictType, ZenonT(60) DEF Finalize, WriteJob, TypeOK
    <2> QED
      BY <1>26, <2>1, EndJobType DEF Finalize, TypeOK, broker, cancels, record
  <1>27. ASSUME NEW e \in Executors, Crash(e)
        PROVE  TypeOK'
    <2>1. job[e] \in Jobs
      BY <1>27 DEF Crash, Placed
    <2>2. queue' \in [Jobs -> Nat]
      <3>1. queue \in [Jobs -> Nat]
        BY DEF TypeOK
      <3> QED
        BY <1>27, <2>1, <3>1 DEF Crash
    <2> QED
      BY <1>27, <2>2, EndJobType, LostType DEF Crash, TypeOK, rows, cancels
  <1>28. ASSUME NEW e \in Executors, TaskFails(e)
        PROVE  TypeOK'
    BY <1>28, EndJobType, LostType DEF TaskFails, TypeOK, rows, broker, cancels
  <1>29. ASSUME NEW e \in Executors, Redeliver(e)
        PROVE  TypeOK'
    <2>1. job[e] \in Jobs
      BY <1>29 DEF Redeliver, Placed
    <2>2. queue' \in [Jobs -> Nat]
      <3>1. queue \in [Jobs -> Nat]
        BY DEF TypeOK
      <3> QED
        BY <1>29, <2>1, <3>1 DEF Redeliver
    <2> QED
      BY <1>29, <2>2 DEF Redeliver, TypeOK, rows, cancels, record
  <1>30. ASSUME NEW j \in Jobs, DeadlinePasses(j)
        PROVE  TypeOK'
    BY <1>30 DEF DeadlinePasses, TypeOK, rows, broker, sessions, cancels, record
  <1>31. ASSUME UNCHANGED vars
        PROVE  TypeOK'
    BY <1>31 DEF vars, TypeOK, rows, broker, sessions, cancels, record
  <1> QED
    BY <1>1, <1>2, <1>3, <1>4, <1>5, <1>6, <1>7, <1>8, <1>9, <1>10, <1>11, <1>12, <1>13, <1>14,
       <1>15, <1>16, <1>17, <1>18, <1>19, <1>20, <1>21, <1>22, <1>23, <1>24, <1>25, <1>26, <1>27,
       <1>28, <1>29, <1>30, <1>31
    DEF Next, Create, Cancel, ReportManual, Captcha, ExecuteJob, Fault, ManualStatus

\* Ending a job empties the executor and leaves the others.
LEMMA EndJobEffect ==
  ASSUME TypeOK, NEW e \in Executors, EndJob(e)
  PROVE  /\ pc'[e] = "idle" /\ job'[e] = NoJob /\ ~held'[e] /\ memStatus'[e] = "pending"
         /\ \A d \in Executors \ {e} :
              /\ pc'[d] = pc[d] /\ job'[d] = job[d] /\ held'[d] = held[d]
              /\ memStatus'[d] = memStatus[d] /\ current'[d] = current[d]
              /\ outcome'[d] = outcome[d] /\ accepted'[d] = accepted[d]
  <1>1. /\ pc'[e] = "idle" /\ job'[e] = NoJob /\ ~held'[e] /\ memStatus'[e] = "pending"
    BY DEF EndJob, TypeOK
  <1>2. ASSUME NEW d \in Executors \ {e}
        PROVE  /\ pc'[d] = pc[d] /\ job'[d] = job[d] /\ held'[d] = held[d]
               /\ memStatus'[d] = memStatus[d] /\ current'[d] = current[d]
               /\ outcome'[d] = outcome[d] /\ accepted'[d] = accepted[d]
    BY DEF EndJob, TypeOK
  <1> QED
    BY <1>1, <1>2

\* A status written to a stored job leaves the same jobs stored.
LEMMA StoredKept ==
  ASSUME TypeOK, Placed, NEW j \in Jobs, status[j] # "absent", NEW st \in JobStatus,
         status' \in {status, [status EXCEPT ![j] = st]}
  PROVE  \A i \in Jobs : status'[i] = "absent" <=> status[i] = "absent"
BY DEF TypeOK, JobStatus, ActiveJob, TerminalJob, WaitingJob

\* An executor that ends keeps everything else in place.
LEMMA PlacedEnd ==
  ASSUME TypeOK, Placed, NEW e \in Executors, EndJob(e),
         UNCHANGED <<request, cancelling>>,
         \A i \in Jobs : status'[i] = "absent" <=> status[i] = "absent",
         \A i \in Jobs : status[i] = "absent" => queue'[i] = 0
  PROVE  Placed'
  <1>1. \A d \in Executors :
          /\ pc'[d] # "idle" <=> job'[d] \in Jobs
          /\ held'[d] => pc'[d] # "idle"
          /\ pc'[d] # "idle" => pc'[d] = pc[d] /\ job'[d] = job[d] /\ current'[d] = current[d]
    BY EndJobEffect, RemediationAssumption DEF Placed
  <1>2. \A d \in Executors : job'[d] \in {job[d], NoJob}
    BY EndJobEffect
  <1> QED
    BY <1>1, <1>2 DEF Placed

\* An executor in the middle of a job keeps everything in place.
LEMMA PlacedWithin ==
  ASSUME TypeOK, Placed, NEW e \in Executors, pc[e] # "idle",
         UNCHANGED <<request, queue, cancelling, job, held>>,
         \A i \in Jobs : status'[i] = "absent" <=> status[i] = "absent",
         \A d \in Executors \ {e} : pc'[d] = pc[d] /\ current'[d] = current[d],
         pc'[e] # "idle",
         pc'[e] \in {"manual", "checked", "calling", "verifying", "called"} =>
           current'[e] \in Brokers
  PROVE  Placed'
  <1>1. \A d \in Executors : pc'[d] # "idle" <=> pc[d] # "idle"
    OBVIOUS
  <1> QED
    BY <1>1 DEF Placed


\* Every step keeps executors and jobs in place.
LEMMA PlacedStep == TypeOK /\ Placed /\ Unasked /\ [Next]_vars => Placed'
  <1> SUFFICES ASSUME TypeOK, Placed, Unasked, [Next]_vars PROVE Placed'
    OBVIOUS
  <1>1. ASSUME NEW j \in Jobs, Admit(j)
        PROVE  Placed'
    BY <1>1, ZenonT(60) DEF Admit, TypeOK, Placed, rows, broker, sessions, cancels, record
  <1>2. ASSUME NEW j \in Jobs, NEW selected \in SUBSET Brokers, NEW preview \in BOOLEAN, Store(j,
               selected, preview)
        PROVE  Placed'
    BY <1>2 DEF Store, TypeOK, Placed, rows, broker, sessions, cancels, record
  <1>3. ASSUME NEW j \in Jobs, Enqueue(j)
        PROVE  Placed'
    BY <1>3 DEF Enqueue, TypeOK, Placed, rows, broker, sessions, cancels, record
  <1>4. ASSUME NEW j \in Jobs, LoseEnqueue(j)
        PROVE  Placed'
    BY <1>4 DEF LoseEnqueue, TypeOK, Placed, rows, broker, sessions, cancels, record
  <1>5. ASSUME NEW j \in Jobs, CancelLoad(j)
        PROVE  Placed'
    <2>1. status[j] # "absent"
      BY <1>5 DEF CancelLoad, ActiveJob, WaitingJob
    <2>2. UNCHANGED <<status, request, queue, captcha, pc, job, held, current>>
      BY <1>5 DEF CancelLoad, rows, broker, sessions
    <2>3. \A i \in Jobs \ {j} : cancelling'[i] = cancelling[i]
      BY <1>5 DEF CancelLoad, TypeOK
    <2> QED
      BY <2>1, <2>2, <2>3 DEF Placed
  <1>6. ASSUME NEW j \in Jobs, CancelCommit(j)
        PROVE  Placed'
    BY <1>6, ZenonT(60) DEF CancelCommit, TypeOK, Placed, rows, broker, sessions, cancels, record
  <1>7. ASSUME NEW r \in Requests, NEW j \in Jobs, NEW b \in Brokers, ManualLoad(r, j, b)
        PROVE  Placed'
    BY <1>7
    DEF ManualLoad, Load, Executors, TypeOK, Placed, rows, broker, sessions, cancels, record
  <1>8. ASSUME NEW r \in Requests, NEW st \in ManualStatus, ManualCommit(r, st)
        PROVE  Placed'
    <2>1. r \in Executors /\ pc[r] = "manual" /\ job[r] \in Jobs
      BY <1>8 DEF ManualCommit, Executors, Placed
    <2>2. UNCHANGED <<status, request, queue, cancelling, captcha>>
      BY <1>8 DEF ManualCommit, broker, cancels
    <2>3. CASE memStatus[r] \in TerminalJob
      BY <1>8, <2>1, <2>2, <2>3, PlacedEnd DEF ManualCommit, Placed
    <2>4. CASE memStatus[r] \notin TerminalJob
      <3>1. /\ pc' = [pc EXCEPT ![r] = "loaded"]
            /\ current' = [current EXCEPT ![r] = NoBroker]
            /\ UNCHANGED <<job, held>>
        BY <1>8, <2>4 DEF ManualCommit
      <3> QED
        BY <2>1, <2>2, <3>1, PlacedWithin DEF TypeOK
    <2> QED
      BY <2>3, <2>4
  <1>9. ASSUME NEW j \in Jobs, NEW b \in Brokers, CaptchaAges(j, b)
        PROVE  Placed'
    BY <1>9 DEF CaptchaAges, TypeOK, Placed, rows, broker, sessions, cancels, record
  <1>10. ASSUME NEW j \in Jobs, NEW b \in Brokers, NEW reply \in {"skipped", "expired"},
                DropCaptcha(j, b, reply)
        PROVE  Placed'
    BY <1>10 DEF DropCaptcha, TypeOK, Placed, rows, broker, sessions, cancels, record
  <1>11. ASSUME NEW j \in Jobs, NEW b \in Brokers, SolveCaptcha(j, b)
        PROVE  Placed'
    <2>1. CASE ~CanTransitionJob(status[j], "pending")
      BY <1>11, <2>1 DEF SolveCaptcha, Placed, sessions, cancels
    <2>2. CASE CanTransitionJob(status[j], "pending")
      <3>1. status[j] # "absent"
        BY <1>11 DEF SolveCaptcha, Unasked
      <3>2. /\ captcha' = [captcha EXCEPT ![j][b] = "solved"]
            /\ status' = [status EXCEPT ![j] = "pending"]
            /\ queue' = [queue EXCEPT ![j] = @ + 1]
            /\ UNCHANGED <<request, cancelling, pc, job, held, current>>
        BY <1>11, <2>2 DEF SolveCaptcha, sessions, cancels
      <3>3. \A i \in Jobs : status'[i] = "absent" <=> status[i] = "absent"
        BY <3>1, <3>2 DEF TypeOK
      <3>4. \A i \in Jobs : status[i] = "absent" => queue'[i] = queue[i]
        BY <3>1, <3>2 DEF TypeOK
      <3>5. /\ request' = request /\ cancelling' = cancelling
            /\ pc' = pc /\ job' = job /\ held' = held /\ current' = current
        BY <3>2
      <3> QED
        BY <3>3, <3>4, <3>5 DEF Placed
    <2> QED
      BY <2>1, <2>2
  <1>12. ASSUME NEW w \in Workers, NEW j \in Jobs, Take(w, j)
        PROVE  Placed'
    <2>1. w \in Executors /\ status[j] \in JobStatus /\ status[j] # "absent"
      BY <1>12, StoredJob DEF Take, Executors, JobStatus, ActiveJob, TerminalJob, WaitingJob
    <2>2. UNCHANGED <<status, request, cancelling, captcha, current>>
      BY <1>12 DEF Take, rows, cancels
    <2>3. \A i \in Jobs : status[i] = "absent" => queue'[i] = 0
      <3>1. \A i \in Jobs \ {j} : queue'[i] = queue[i]
        BY <1>12 DEF Take, TypeOK
      <3> QED
        BY <2>1, <3>1 DEF Placed
    <2>4. CASE status[j] \in TerminalJob
      BY <1>12, <2>2, <2>3, <2>4 DEF Take, Placed
    <2>5. CASE status[j] \notin TerminalJob
      <3>0. /\ pc' = [pc EXCEPT ![w] = "loaded"] /\ job' = [job EXCEPT ![w] = j]
            /\ held' = [held EXCEPT ![w] = TRUE]
        BY <1>12, <2>5 DEF Take, Load
      <3>1. /\ pc'[w] = "loaded" /\ job'[w] = j
            /\ \A d \in Executors \ {w} :
                 pc'[d] = pc[d] /\ job'[d] = job[d] /\ held'[d] = held[d]
        BY <2>1, <3>0 DEF TypeOK
      <3> QED
        BY <2>1, <2>2, <2>3, <3>1 DEF Placed
    <2> QED
      BY <2>4, <2>5
  <1>13. ASSUME NEW e \in Executors, StartExpired(e)
        PROVE  Placed'
    <2>1. job[e] \in Jobs /\ status[job[e]] \in JobStatus /\ "timed_out" \in JobStatus
      BY <1>13, StoredJob DEF StartExpired, JobStatus, TerminalJob
    <2>2. status' \in {status, [status EXCEPT ![job[e]] = "timed_out"]}
      BY <1>13 DEF StartExpired
    <2>3. \A i \in Jobs : status'[i] = "absent" <=> status[i] = "absent"
      BY <2>1, <2>2, StoredKept DEF JobStatus, ActiveJob, TerminalJob, WaitingJob
    <2>4. UNCHANGED <<request, cancelling, captcha, queue>> /\ EndJob(e)
      BY <1>13 DEF StartExpired, broker, cancels
    <2> QED
      BY <2>3, <2>4, PlacedEnd DEF Placed
  <1>14. ASSUME NEW e \in Executors, Start(e)
        PROVE  Placed'
    <2>1. job[e] \in Jobs /\ status[job[e]] \in JobStatus
      BY <1>14, StoredJob DEF Start
    <2>2. \A i \in Jobs : status'[i] = "absent" <=> status[i] = "absent"
      BY <1>14, <2>1, StoredKept DEF Start, JobStatus, ActiveJob, TerminalJob, WaitingJob
    <2>3. /\ UNCHANGED <<request, queue, cancelling, job, held>>
          /\ \A d \in Executors \ {e} : pc'[d] = pc[d] /\ current'[d] = current[d]
          /\ pc[e] # "idle" /\ pc'[e] # "idle"
      BY <1>14 DEF Start, rows, broker, cancels, TypeOK
    <2>4. pc'[e] \in {"manual", "checked", "calling", "verifying", "called"} =>
            current'[e] \in Brokers
      BY <1>14 DEF Start, TypeOK, Placed
    <2> QED
      BY <2>2, <2>3, <2>4, PlacedWithin
  <1>15. ASSUME NEW e \in Executors, SeeCancelled(e)
        PROVE  Placed'
    <2>1. UNCHANGED <<status, request, cancelling, captcha, queue>> /\ EndJob(e)
      BY <1>15 DEF SeeCancelled, rows, broker, cancels
    <2> QED
      BY <2>1, PlacedEnd DEF Placed
  <1>16. ASSUME NEW e \in Executors, SeeExpired(e)
        PROVE  Placed'
    <2>1. job[e] \in Jobs /\ status[job[e]] \in JobStatus /\ "timed_out" \in JobStatus
      BY <1>16, StoredJob DEF SeeExpired, JobStatus, TerminalJob
    <2>2. status' \in {status, [status EXCEPT ![job[e]] = "timed_out"]}
      BY <1>16 DEF SeeExpired
    <2>3. \A i \in Jobs : status'[i] = "absent" <=> status[i] = "absent"
      BY <2>1, <2>2, StoredKept DEF JobStatus, ActiveJob, TerminalJob, WaitingJob
    <2>4. UNCHANGED <<request, cancelling, captcha, queue>> /\ EndJob(e)
      BY <1>16 DEF SeeExpired, broker, cancels
    <2> QED
      BY <2>3, <2>4, PlacedEnd DEF Placed
  <1>17. ASSUME NEW e \in Executors, NEW b \in Brokers, PassOver(e, b)
        PROVE  Placed'
    BY <1>17 DEF PassOver, Proceed, TypeOK, Placed, rows, broker, sessions, cancels, record
  <1>18. ASSUME NEW e \in Executors, NEW b \in Brokers, Select(e, b)
        PROVE  Placed'
    <2>1. job[e] \in Jobs /\ status[job[e]] \in JobStatus
      BY <1>18, StoredJob DEF Select, Proceed
    <2>2. \A i \in Jobs : status'[i] = "absent" <=> status[i] = "absent"
      BY <1>18, <2>1, StoredKept
      DEF Select, rows, Proceed, JobStatus, ActiveJob, TerminalJob, WaitingJob
    <2>3. /\ UNCHANGED <<request, queue, cancelling, job, held>>
          /\ \A d \in Executors \ {e} : pc'[d] = pc[d] /\ current'[d] = current[d]
          /\ pc[e] # "idle" /\ pc'[e] # "idle"
      BY <1>18 DEF Select, rows, broker, cancels, Proceed, TypeOK
    <2>4. pc'[e] \in {"manual", "checked", "calling", "verifying", "called"} =>
            current'[e] \in Brokers
      BY <1>18 DEF Select, Proceed, TypeOK, Placed
    <2> QED
      BY <2>2, <2>3, <2>4, PlacedWithin
  <1>19. ASSUME NEW e \in Executors, NEW st \in {"error", "skipped_fresh"}, SettleWithoutRun(e,
                st)
        PROVE  Placed'
    BY <1>19, PlacedWithin
    DEF SettleWithoutRun, WriteItem, NextItem, TypeOK, rows, broker, sessions, cancels, record
  <1>20. ASSUME NEW e \in Executors, Begin(e)
        PROVE  Placed'
    BY <1>20 DEF Begin, WriteItem, TypeOK, Placed, rows, broker, sessions, cancels, record
  <1>21. ASSUME NEW e \in Executors, NEW o \in RunnerResult, NEW formSent \in BOOLEAN,
                RunBroker(e, o, formSent)
        PROVE  Placed'
    <2>1. job[e] \in Jobs /\ status[job[e]] \in JobStatus
      BY <1>21, StoredJob DEF RunBroker
    <2>2. \A i \in Jobs : status'[i] = "absent" <=> status[i] = "absent"
      BY <1>21, <2>1, StoredKept
      DEF RunBroker, rows, JobStatus, ActiveJob, TerminalJob, WaitingJob
    <2>3. /\ UNCHANGED <<request, queue, cancelling, job, held>>
          /\ \A d \in Executors \ {e} : pc'[d] = pc[d] /\ current'[d] = current[d]
          /\ pc[e] # "idle" /\ pc'[e] # "idle"
      BY <1>21 DEF RunBroker, rows, broker, cancels, TypeOK
    <2>4. pc'[e] \in {"manual", "checked", "calling", "verifying", "called"} =>
            current'[e] \in Brokers
      BY <1>21 DEF RunBroker, TypeOK, Placed
    <2> QED
      BY <2>2, <2>3, <2>4, PlacedWithin
  <1>22. ASSUME NEW e \in Executors, NEW v \in VerifyResult, VerifyRemoval(e, v)
        PROVE  Placed'
    BY <1>22, PlacedWithin
    DEF VerifyRemoval, TypeOK, rows, broker, sessions, cancels, record, Placed
  <1>23. ASSUME NEW e \in Executors, RecordResult(e)
        PROVE  Placed'
    BY <1>23, PlacedWithin
    DEF RecordResult, WriteItem, NextItem, RecordEgress, TypeOK, rows, broker, sessions, cancels,
        record
  <1>24. ASSUME NEW e \in Executors, RecordCaptcha(e)
        PROVE  Placed'
    BY <1>24, ZenonT(60)
    DEF RecordCaptcha, WriteJob, WriteItem, NextItem, TypeOK, Placed, rows, broker, sessions,
        cancels, record
  <1>25. ASSUME NEW e \in Executors, LeaveLoop(e)
        PROVE  Placed'
    BY <1>25, PlacedWithin DEF LeaveLoop, TypeOK, rows, broker, sessions, cancels, record
  <1>26. ASSUME NEW e \in Executors, Finalize(e)
        PROVE  Placed'
    <2>1. job[e] \in Jobs /\ status[job[e]] \in JobStatus /\ Verdict(e) \in JobStatus
      BY <1>26, StoredJob, VerdictType DEF Finalize, JobStatus, TerminalJob
    <2>2. status' \in {status, [status EXCEPT ![job[e]] = Verdict(e)]}
      BY <1>26 DEF Finalize, WriteJob
    <2>3. \A i \in Jobs : status'[i] = "absent" <=> status[i] = "absent"
      BY <2>1, <2>2, StoredKept DEF JobStatus, ActiveJob, TerminalJob, WaitingJob
    <2>4. UNCHANGED <<request, cancelling, captcha, queue>> /\ EndJob(e)
      BY <1>26 DEF Finalize, broker, cancels
    <2> QED
      BY <2>3, <2>4, PlacedEnd DEF Placed
  <1>27. ASSUME NEW e \in Executors, Crash(e)
        PROVE  Placed'
    <2>1. job[e] \in Jobs /\ status[job[e]] # "absent"
      BY <1>27, StoredJob DEF Crash, JobStatus, ActiveJob, TerminalJob, WaitingJob
    <2>2. UNCHANGED <<status, request, cancelling, captcha>> /\ EndJob(e)
      BY <1>27 DEF Crash, rows, cancels
    <2>3. \A i \in Jobs : status[i] = "absent" => queue'[i] = 0
      <3>1. \A i \in Jobs \ {job[e]} : queue'[i] = queue[i]
        BY <1>27, <2>1 DEF Crash, TypeOK
      <3> QED
        BY <2>1, <3>1 DEF Placed
    <2> QED
      BY <2>2, <2>3, PlacedEnd
  <1>28. ASSUME NEW e \in Executors, TaskFails(e)
        PROVE  Placed'
    <2>1. UNCHANGED <<status, request, cancelling, captcha, queue>> /\ EndJob(e)
      BY <1>28 DEF TaskFails, rows, broker, cancels
    <2> QED
      BY <2>1, PlacedEnd DEF Placed
  <1>29. ASSUME NEW e \in Executors, Redeliver(e)
        PROVE  Placed'
    BY <1>29, ZenonT(60) DEF Redeliver, TypeOK, Placed, rows, broker, sessions, cancels, record
  <1>30. ASSUME NEW j \in Jobs, DeadlinePasses(j)
        PROVE  Placed'
    BY <1>30 DEF DeadlinePasses, TypeOK, Placed, rows, broker, sessions, cancels, record
  <1>31. ASSUME UNCHANGED vars
        PROVE  Placed'
    BY <1>31 DEF vars, TypeOK, Placed, rows, broker, sessions, cancels, record
  <1> QED
    BY <1>1, <1>2, <1>3, <1>4, <1>5, <1>6, <1>7, <1>8, <1>9, <1>10, <1>11, <1>12, <1>13, <1>14,
       <1>15, <1>16, <1>17, <1>18, <1>19, <1>20, <1>21, <1>22, <1>23, <1>24, <1>25, <1>26, <1>27,
       <1>28, <1>29, <1>30, <1>31
    DEF Next, Create, Cancel, ReportManual, Captcha, ExecuteJob, Fault, ManualStatus

\* A step that writes no removal, takes back no form and no success, and does not
\* touch a broker run that is under way, stays honest.
LEMMA HonestKept ==
  ASSUME TypeOK, Placed, Honest,
         \A j \in Jobs, b \in Brokers :
           item'[j][b] = "verified_removed" => item[j][b] = "verified_removed",
         \A j \in Jobs, b \in Brokers : sent[j][b] > 0 => sent'[j][b] > 0,
         \A b \in Brokers : optout[b].fresh => optout'[b].fresh,
         \A d \in Executors :
           pc'[d] \in {"verifying", "called"} =>
             /\ pc'[d] = pc[d] /\ job'[d] = job[d] /\ current'[d] = current[d]
             /\ accepted'[d] = accepted[d] /\ outcome'[d] = outcome[d]
  PROVE  Honest'
  <1>1. NoFalseRemoval'
    BY DEF Honest, NoFalseRemoval
  <1>2. ASSUME NEW d \in Executors, pc'[d] \in {"verifying", "called"}
        PROVE  /\ pc'[d] = "verifying" => accepted'[d]
               /\ pc'[d] = "called" /\ outcome'[d] = "verified_removed" => accepted'[d]
               /\ accepted'[d] => sent'[job'[d]][current'[d]] > 0
    <2>1. /\ pc'[d] = pc[d] /\ job'[d] = job[d] /\ current'[d] = current[d]
          /\ accepted'[d] = accepted[d] /\ outcome'[d] = outcome[d]
      BY <1>2
    <2>2. job[d] \in Jobs /\ current[d] \in Brokers
      BY <1>2, <2>1 DEF Placed
    <2> QED
      BY <1>2, <2>1, <2>2 DEF Honest
  <1> QED
    BY <1>1, <1>2 DEF Honest


\* An item is written with something else than a removal.
LEMMA ItemWritten ==
  ASSUME TypeOK, NEW j \in Jobs, NEW b \in Brokers, NEW st, st # "verified_removed",
         item' \in {item, [item EXCEPT ![j][b] = st]}
  PROVE  \A i \in Jobs, c \in Brokers :
           item'[i][c] = "verified_removed" => item[i][c] = "verified_removed"
  <1>1. item \in [Jobs -> [Brokers -> ItemRow]]
    BY DEF TypeOK
  <1>2. ASSUME NEW i \in Jobs, NEW c \in Brokers, item'[i][c] = "verified_removed"
        PROVE  item[i][c] = "verified_removed"
    <2>1. CASE item' = item
      BY <1>2, <2>1
    <2>2. CASE item' = [item EXCEPT ![j][b] = st]
      <3>1. CASE i = j /\ c = b
        BY <1>1, <1>2, <2>2, <3>1
      <3>2. CASE i = j /\ c # b
        BY <1>1, <1>2, <2>2, <3>2
      <3>3. CASE i # j
        BY <1>1, <1>2, <2>2, <3>3
      <3> QED
        BY <3>1, <3>2, <3>3
    <2> QED
      BY <2>1, <2>2
  <1> QED
    BY <1>2

\* One more form is counted, and none is lost.
LEMMA SentOnce ==
  ASSUME TypeOK, NEW j \in Jobs, NEW b \in Brokers,
         sent' = [sent EXCEPT ![j][b] = @ + 1]
  PROVE  /\ sent'[j][b] = sent[j][b] + 1 /\ sent[j][b] \in Nat
         /\ \A i \in Jobs, c \in Brokers : i # j \/ c # b => sent'[i][c] = sent[i][c]
  <1>1. sent \in [Jobs -> [Brokers -> Nat]]
    BY DEF TypeOK
  <1>2. sent'[j][b] = sent[j][b] + 1 /\ sent[j][b] \in Nat
    BY <1>1
  <1>3. ASSUME NEW i \in Jobs, NEW c \in Brokers, i # j \/ c # b
        PROVE  sent'[i][c] = sent[i][c]
    <2>1. CASE i = j /\ c # b
      BY <1>1, <2>1
    <2>2. CASE i # j
      BY <1>1, <2>2
    <2> QED
      BY <1>3, <2>1, <2>2
  <1> QED
    BY <1>2, <1>3


-----------------------------------------------------------------------------
(* No false removal. *)

\* Every step keeps the executors honest.
LEMMA HonestStep == TypeOK /\ Placed /\ Honest /\ [Next]_vars => Honest'
  <1> SUFFICES ASSUME TypeOK, Placed, Honest, [Next]_vars PROVE Honest'
    OBVIOUS
  <1>1. ASSUME NEW j \in Jobs, Admit(j)
        PROVE  Honest'
    BY <1>1
    DEF Admit, TypeOK, Placed, Honest, NoFalseRemoval, rows, broker, sessions, cancels, record
  <1>2. ASSUME NEW j \in Jobs, NEW selected \in SUBSET Brokers, NEW preview \in BOOLEAN, Store(j,
               selected, preview)
        PROVE  Honest'
    <2>1. \A i \in Jobs, c \in Brokers :
            item'[i][c] = "verified_removed" => item[i][c] = "verified_removed"
      BY <1>2 DEF Store, NotSelected, TypeOK
    <2>2. UNCHANGED <<sent, optout>>
      BY <1>2 DEF Store, record
    <2>3. \A d \in Executors :
            pc'[d] \in {"verifying", "called"} =>
              /\ pc'[d] = pc[d] /\ job'[d] = job[d] /\ current'[d] = current[d]
              /\ accepted'[d] = accepted[d] /\ outcome'[d] = outcome[d]
      BY <1>2 DEF Store, sessions, TypeOK
    <2> QED
      BY <2>1, <2>2, <2>3, HonestKept
  <1>3. ASSUME NEW j \in Jobs, Enqueue(j)
        PROVE  Honest'
    BY <1>3
    DEF Enqueue, TypeOK, Placed, Honest, NoFalseRemoval, rows, broker, sessions, cancels, record
  <1>4. ASSUME NEW j \in Jobs, LoseEnqueue(j)
        PROVE  Honest'
    BY <1>4
    DEF LoseEnqueue, TypeOK, Placed, Honest, NoFalseRemoval, rows, broker, sessions, cancels,
        record
  <1>5. ASSUME NEW j \in Jobs, CancelLoad(j)
        PROVE  Honest'
    BY <1>5
    DEF CancelLoad, TypeOK, Placed, Honest, NoFalseRemoval, rows, broker, sessions, cancels,
        record
  <1>6. ASSUME NEW j \in Jobs, CancelCommit(j)
        PROVE  Honest'
    BY <1>6, HonestKept DEF CancelCommit, TypeOK, rows, broker, sessions, cancels, record
  <1>7. ASSUME NEW r \in Requests, NEW j \in Jobs, NEW b \in Brokers, ManualLoad(r, j, b)
        PROVE  Honest'
    BY <1>7
    DEF ManualLoad, Load, Executors, TypeOK, Placed, Honest, NoFalseRemoval, rows, broker,
        sessions, cancels, record
  <1>8. ASSUME NEW r \in Requests, NEW st \in ManualStatus, ManualCommit(r, st)
        PROVE  Honest'
    <2>1. r \in Executors /\ job[r] \in Jobs /\ current[r] \in Brokers
      BY <1>8 DEF ManualCommit, Executors, Placed
    <2>2. item' \in {item, [item EXCEPT ![job[r]][current[r]] = st]}
      BY <1>8 DEF ManualCommit
    <2>3. \A i \in Jobs, c \in Brokers :
            item'[i][c] = "verified_removed" => item[i][c] = "verified_removed"
      BY <2>1, <2>2, ItemWritten DEF ManualStatus
    <2>4. \A c \in Brokers : optout[c].fresh => optout'[c].fresh
      <3>1. optout' = [optout EXCEPT ![current[r]] =
                         [status |-> st, fresh |-> optout[current[r]].fresh \/ st = "submitted"]]
        BY <1>8 DEF ManualCommit
      <3> QED
        BY <2>1, <3>1 DEF TypeOK
    <2>5. \A d \in Executors :
            pc'[d] \in {"verifying", "called"} =>
              /\ pc'[d] = pc[d] /\ job'[d] = job[d] /\ current'[d] = current[d]
              /\ accepted'[d] = accepted[d] /\ outcome'[d] = outcome[d]
      <3>1. CASE memStatus[r] \in TerminalJob
        <4>1. EndJob(r)
          BY <1>8, <3>1 DEF ManualCommit
        <4> QED
          BY <2>1, <4>1, EndJobEffect
      <3>2. CASE memStatus[r] \notin TerminalJob
        BY <1>8, <2>1, <3>2, ZenonT(60) DEF ManualCommit, TypeOK
      <3> QED
        BY <3>1, <3>2
    <2>6. UNCHANGED sent
      BY <1>8 DEF ManualCommit, record
    <2> QED
      BY <2>3, <2>4, <2>5, <2>6, HonestKept
  <1>9. ASSUME NEW j \in Jobs, NEW b \in Brokers, CaptchaAges(j, b)
        PROVE  Honest'
    BY <1>9
    DEF CaptchaAges, TypeOK, Placed, Honest, NoFalseRemoval, rows, broker, sessions, cancels,
        record
  <1>10. ASSUME NEW j \in Jobs, NEW b \in Brokers, NEW reply \in {"skipped", "expired"},
                DropCaptcha(j, b, reply)
        PROVE  Honest'
    BY <1>10
    DEF DropCaptcha, TypeOK, Placed, Honest, NoFalseRemoval, rows, broker, sessions, cancels,
        record
  <1>11. ASSUME NEW j \in Jobs, NEW b \in Brokers, SolveCaptcha(j, b)
        PROVE  Honest'
    <2>1. item' \in {item, [item EXCEPT ![j][b] = "pending"]} /\ UNCHANGED <<sent, optout>>
      BY <1>11 DEF SolveCaptcha
    <2>2. \A i \in Jobs, c \in Brokers :
            item'[i][c] = "verified_removed" => item[i][c] = "verified_removed"
      BY <2>1, ItemWritten
    <2>3. \A d \in Executors :
            pc'[d] \in {"verifying", "called"} =>
              /\ pc'[d] = pc[d] /\ job'[d] = job[d] /\ current'[d] = current[d]
              /\ accepted'[d] = accepted[d] /\ outcome'[d] = outcome[d]
      BY <1>11 DEF SolveCaptcha, sessions
    <2> QED
      BY <2>1, <2>2, <2>3, HonestKept
  <1>12. ASSUME NEW w \in Workers, NEW j \in Jobs, Take(w, j)
        PROVE  Honest'
    <2>1. UNCHANGED <<item, sent, optout>>
      BY <1>12 DEF Take, rows, record
    <2>2. \A d \in Executors :
            pc'[d] \in {"verifying", "called"} =>
              /\ pc'[d] = pc[d] /\ job'[d] = job[d] /\ current'[d] = current[d]
              /\ accepted'[d] = accepted[d] /\ outcome'[d] = outcome[d]
      BY <1>12, ZenonT(60) DEF Take, Load, TypeOK, Executors
    <2> QED
      BY <2>1, <2>2, HonestKept
  <1>13. ASSUME NEW e \in Executors, StartExpired(e)
        PROVE  Honest'
    <2>1. UNCHANGED <<item, sent, optout>> /\ EndJob(e)
      BY <1>13 DEF StartExpired, record
    <2>2. \A d \in Executors : pc'[d] \in {"verifying", "called"} => d # e
      BY <2>1, EndJobEffect
    <2> QED
      BY <2>1, <2>2, EndJobEffect, HonestKept
  <1>14. ASSUME NEW e \in Executors, Start(e)
        PROVE  Honest'
    BY <1>14, HonestKept DEF Start, TypeOK, rows, broker, sessions, cancels, record
  <1>15. ASSUME NEW e \in Executors, SeeCancelled(e)
        PROVE  Honest'
    <2>1. UNCHANGED <<item, sent, optout>> /\ EndJob(e)
      BY <1>15 DEF SeeCancelled, rows, record
    <2>2. \A d \in Executors : pc'[d] \in {"verifying", "called"} => d # e
      BY <2>1, EndJobEffect
    <2> QED
      BY <2>1, <2>2, EndJobEffect, HonestKept
  <1>16. ASSUME NEW e \in Executors, SeeExpired(e)
        PROVE  Honest'
    <2>1. UNCHANGED <<item, sent, optout>> /\ EndJob(e)
      BY <1>16 DEF SeeExpired, record
    <2>2. \A d \in Executors : pc'[d] \in {"verifying", "called"} => d # e
      BY <2>1, EndJobEffect
    <2> QED
      BY <2>1, <2>2, EndJobEffect, HonestKept
  <1>17. ASSUME NEW e \in Executors, NEW b \in Brokers, PassOver(e, b)
        PROVE  Honest'
    BY <1>17
    DEF PassOver, Proceed, TypeOK, Placed, Honest, NoFalseRemoval, rows, broker, sessions,
        cancels, record
  <1>18. ASSUME NEW e \in Executors, NEW b \in Brokers, Select(e, b)
        PROVE  Honest'
    BY <1>18, HonestKept DEF Select, Proceed, TypeOK, rows, broker, sessions, cancels, record
  <1>19. ASSUME NEW e \in Executors, NEW st \in {"error", "skipped_fresh"}, SettleWithoutRun(e,
                st)
        PROVE  Honest'
    <2>1. \A i \in Jobs, c \in Brokers :
            item'[i][c] = "verified_removed" => item[i][c] = "verified_removed"
      BY <1>19, ZenonT(60) DEF SettleWithoutRun, WriteItem, Placed, TypeOK
    <2>2. UNCHANGED <<sent, optout>>
      BY <1>19 DEF SettleWithoutRun, record
    <2>3. \A d \in Executors :
            pc'[d] \in {"verifying", "called"} =>
              /\ pc'[d] = pc[d] /\ job'[d] = job[d] /\ current'[d] = current[d]
              /\ accepted'[d] = accepted[d] /\ outcome'[d] = outcome[d]
      BY <1>19 DEF SettleWithoutRun, NextItem, TypeOK
    <2> QED
      BY <2>1, <2>2, <2>3, HonestKept
  <1>20. ASSUME NEW e \in Executors, Begin(e)
        PROVE  Honest'
    <2>1. \A i \in Jobs, c \in Brokers :
            item'[i][c] = "verified_removed" => item[i][c] = "verified_removed"
      BY <1>20, ZenonT(60) DEF Begin, WriteItem, Placed, TypeOK
    <2>2. UNCHANGED <<sent, optout>>
      BY <1>20 DEF Begin, record
    <2>3. \A d \in Executors :
            pc'[d] \in {"verifying", "called"} =>
              /\ pc'[d] = pc[d] /\ job'[d] = job[d] /\ current'[d] = current[d]
              /\ accepted'[d] = accepted[d] /\ outcome'[d] = outcome[d]
      BY <1>20 DEF Begin, TypeOK
    <2> QED
      BY <2>1, <2>2, <2>3, HonestKept
  <1>21. ASSUME NEW e \in Executors, NEW o \in RunnerResult, NEW formSent \in BOOLEAN,
                RunBroker(e, o, formSent)
        PROVE  Honest'
    <2>1. /\ job[e] \in Jobs /\ current[e] \in Brokers
          /\ UNCHANGED <<item, optout, job, current>>
      BY <1>21 DEF RunBroker, Placed, rows
    <2>6. ASSUME formSent
          PROVE  /\ sent'[job[e]][current[e]] > 0
                 /\ \A i \in Jobs, c \in Brokers : sent[i][c] > 0 => sent'[i][c] > 0
      <3>1. sent' = [sent EXCEPT ![job[e]][current[e]] = @ + 1]
        BY <1>21, <2>6 DEF RunBroker
      <3>2. /\ sent'[job[e]][current[e]] = sent[job[e]][current[e]] + 1
            /\ sent[job[e]][current[e]] \in Nat
            /\ \A i \in Jobs, c \in Brokers :
                 i # job[e] \/ c # current[e] => sent'[i][c] = sent[i][c]
        BY <2>1, <3>1, SentOnce
      <3>3. sent'[job[e]][current[e]] > 0
        BY <3>2
      <3>4. ASSUME NEW i \in Jobs, NEW c \in Brokers, sent[i][c] > 0
            PROVE  sent'[i][c] > 0
        BY <3>2, <3>3, <3>4
      <3> QED
        BY <3>3, <3>4
    <2>7. ASSUME ~formSent
          PROVE  \A i \in Jobs, c \in Brokers : sent[i][c] > 0 => sent'[i][c] > 0
      BY <1>21, <2>7 DEF RunBroker
    <2>8. /\ \A i \in Jobs, c \in Brokers : sent[i][c] > 0 => sent'[i][c] > 0
          /\ formSent => sent'[job[e]][current[e]] > 0
      BY <2>6, <2>7
    <2>2. NoFalseRemoval' /\ \A i \in Jobs, c \in Brokers : sent[i][c] > 0 => sent'[i][c] > 0
      BY <2>1, <2>8 DEF Honest, NoFalseRemoval
    <2>3. /\ pc'[e] = "verifying" => accepted'[e]
          /\ ~(pc'[e] = "called" /\ outcome'[e] = "verified_removed")
          /\ accepted'[e] => sent'[job[e]][current[e]] > 0
      <3>1. /\ pc'[e] = (IF Success(e, o) THEN "verifying" ELSE "called")
            /\ outcome'[e] = o /\ accepted'[e] = Success(e, o)
        BY <1>21 DEF RunBroker, TypeOK
      <3>2. Success(e, o) => formSent
        BY <1>21 DEF RunBroker, Success
      <3> QED
        BY <2>8, <3>1, <3>2 DEF RunnerResult
    <2>4. \A d \in Executors \ {e} : /\ pc'[d] = pc[d] /\ accepted'[d] = accepted[d]
                                     /\ outcome'[d] = outcome[d]
      BY <1>21 DEF RunBroker, TypeOK
    <2>5. \A d \in Executors \ {e} :
            pc[d] \in {"verifying", "called"} => job[d] \in Jobs /\ current[d] \in Brokers
      BY DEF Placed
    <2> QED
      BY <2>1, <2>2, <2>3, <2>4, <2>5 DEF Honest
  <1>22. ASSUME NEW e \in Executors, NEW v \in VerifyResult, VerifyRemoval(e, v)
        PROVE  Honest'
    <2>1. UNCHANGED <<item, optout, sent, job, current, accepted>>
      BY <1>22 DEF VerifyRemoval, rows, record
    <2>2. /\ pc[e] = "verifying" /\ pc'[e] = "called"
          /\ \A d \in Executors \ {e} : pc'[d] = pc[d] /\ outcome'[d] = outcome[d]
      BY <1>22 DEF VerifyRemoval, TypeOK
    <2> QED
      BY <2>1, <2>2 DEF Honest, NoFalseRemoval
  <1>23. ASSUME NEW e \in Executors, RecordResult(e)
        PROVE  Honest'
    <2>1. /\ job[e] \in Jobs /\ current[e] \in Brokers /\ pc[e] = "called"
          /\ sent' = sent /\ item' = [item EXCEPT ![job[e]][current[e]] = outcome[e]]
      BY <1>23 DEF RecordResult, WriteItem, Placed
    <2>2. \A c \in Brokers : optout[c].fresh => optout'[c].fresh
      BY <1>23, <2>1 DEF RecordResult, TypeOK
    <2>3. accepted[e] => optout'[current[e]].fresh
      BY <1>23, <2>1 DEF RecordResult, TypeOK
    <2>4. NoFalseRemoval'
      <3>1. ASSUME NEW i \in Jobs, NEW c \in Brokers, item'[i][c] = "verified_removed"
            PROVE  sent[i][c] > 0 /\ optout'[c].fresh
        <4>1. CASE item[i][c] = "verified_removed"
          BY <2>2, <4>1 DEF Honest, NoFalseRemoval
        <4>2. CASE item[i][c] # "verified_removed"
          <5>1. i = job[e] /\ c = current[e] /\ outcome[e] = "verified_removed"
            BY <2>1, <3>1, <4>2 DEF TypeOK
          <5> QED
            BY <2>1, <2>3, <5>1 DEF Honest
        <4> QED
          BY <4>1, <4>2
      <3> QED
        BY <2>1, <3>1 DEF NoFalseRemoval
    <2>5. /\ pc'[e] = "loop" /\ UNCHANGED job
          /\ \A d \in Executors \ {e} :
               /\ pc'[d] = pc[d] /\ current'[d] = current[d]
               /\ accepted'[d] = accepted[d] /\ outcome'[d] = outcome[d]
      BY <1>23 DEF RecordResult, NextItem, TypeOK
    <2> QED
      BY <2>1, <2>4, <2>5 DEF Honest
  <1>24. ASSUME NEW e \in Executors, RecordCaptcha(e)
        PROVE  Honest'
    <2>1. \A i \in Jobs, c \in Brokers :
            item'[i][c] = "verified_removed" => item[i][c] = "verified_removed"
      BY <1>24, ZenonT(60) DEF RecordCaptcha, WriteItem, Placed, TypeOK
    <2>2. sent' = sent /\ \A c \in Brokers : optout[c].fresh => optout'[c].fresh
      BY <1>24, ZenonT(60) DEF RecordCaptcha, record, TypeOK
    <2>3. \A d \in Executors :
            pc'[d] \in {"verifying", "called"} =>
              /\ pc'[d] = pc[d] /\ job'[d] = job[d] /\ current'[d] = current[d]
              /\ accepted'[d] = accepted[d] /\ outcome'[d] = outcome[d]
      BY <1>24 DEF RecordCaptcha, NextItem, TypeOK
    <2> QED
      BY <2>1, <2>2, <2>3, HonestKept
  <1>25. ASSUME NEW e \in Executors, LeaveLoop(e)
        PROVE  Honest'
    BY <1>25, HonestKept DEF LeaveLoop, TypeOK, rows, broker, sessions, cancels, record
  <1>26. ASSUME NEW e \in Executors, Finalize(e)
        PROVE  Honest'
    BY <1>26, HonestKept
    DEF Finalize, WriteJob, EndJob, TypeOK, rows, broker, sessions, cancels, record
  <1>27. ASSUME NEW e \in Executors, Crash(e)
        PROVE  Honest'
    BY <1>27, HonestKept DEF Crash, EndJob, TypeOK, rows, broker, sessions, cancels, record
  <1>28. ASSUME NEW e \in Executors, TaskFails(e)
        PROVE  Honest'
    BY <1>28, HonestKept DEF TaskFails, EndJob, TypeOK, rows, broker, sessions, cancels, record
  <1>29. ASSUME NEW e \in Executors, Redeliver(e)
        PROVE  Honest'
    BY <1>29
    DEF Redeliver, TypeOK, Placed, Honest, NoFalseRemoval, rows, broker, sessions, cancels, record
  <1>30. ASSUME NEW j \in Jobs, DeadlinePasses(j)
        PROVE  Honest'
    BY <1>30
    DEF DeadlinePasses, TypeOK, Placed, Honest, NoFalseRemoval, rows, broker, sessions, cancels,
        record
  <1>31. ASSUME UNCHANGED vars
        PROVE  Honest'
    BY <1>31
    DEF vars, TypeOK, Placed, Honest, NoFalseRemoval, rows, broker, sessions, cancels, record
  <1> QED
    BY <1>1, <1>2, <1>3, <1>4, <1>5, <1>6, <1>7, <1>8, <1>9, <1>10, <1>11, <1>12, <1>13, <1>14,
       <1>15, <1>16, <1>17, <1>18, <1>19, <1>20, <1>21, <1>22, <1>23, <1>24, <1>25, <1>26, <1>27,
       <1>28, <1>29, <1>30, <1>31
    DEF Next, Create, Cancel, ReportManual, Captcha, ExecuteJob, Fault, ManualStatus

\* No status leads back to PENDING.
LEMMA NeverPending ==
  ASSUME NEW from \in JobStatus, CanTransitionJob(from, "pending")
  PROVE  from = "pending"
BY DEF CanTransitionJob, JobTransitions, JobStatus, ActiveJob, TerminalJob, WaitingJob

\* A status other than PENDING is written to a job, or none.
LEMMA StatusWritten ==
  ASSUME TypeOK, NEW j \in Jobs, NEW st, st # "pending",
         status' \in {status, [status EXCEPT ![j] = st]}
  PROVE  \A i \in Jobs : status[i] # "pending" => status'[i] # "pending"
BY DEF TypeOK

\* The verdict on a job that has begun is not PENDING.
LEMMA VerdictForward ==
  ASSUME NEW e \in Executors, memStatus[e] # "pending"
  PROVE  Verdict(e) # "pending"
BY DEF Verdict, FinalJobStatus

\* No job goes back to PENDING, no captcha is asked for, and the executors at work
\* were at work with the same copy of their job.
LEMMA ForwardKept ==
  ASSUME TypeOK, Placed, Forward,
         \A j \in Jobs : status[j] # "pending" => status'[j] # "pending",
         \A j \in Jobs, b \in Brokers : captcha'[j][b] # "none" => captcha[j][b] # "none",
         \A d \in Executors :
           pc'[d] # "idle" =>
             /\ pc[d] # "idle" /\ job'[d] = job[d] /\ memStatus'[d] = memStatus[d]
             /\ pc'[d] \notin {"loaded", "manual"} => pc[d] \notin {"loaded", "manual"}
  PROVE  Forward'
  <1>1. \A j \in Jobs, b \in Brokers : captcha'[j][b] # "none" => status'[j] # "pending"
    BY DEF Forward
  <1>2. ASSUME NEW d \in Executors, pc'[d] # "idle"
        PROVE  /\ memStatus'[d] # "pending" => status'[job'[d]] # "pending"
               /\ pc'[d] \notin {"loaded", "manual"} => memStatus'[d] # "pending"
    <2>1. job[d] \in Jobs /\ job'[d] = job[d] /\ memStatus'[d] = memStatus[d]
      BY <1>2 DEF Placed
    <2> QED
      BY <1>2, <2>1 DEF Forward
  <1> QED
    BY <1>1, <1>2 DEF Forward


-----------------------------------------------------------------------------
(* One form per item. *)

\* No step leads back to PENDING.
LEMMA ForwardStep == TypeOK /\ Placed /\ Unasked /\ Forward /\ [Next]_vars => Forward'
  <1> SUFFICES ASSUME TypeOK, Placed, Unasked, Forward, [Next]_vars PROVE Forward'
    OBVIOUS
  <1>1. ASSUME NEW j \in Jobs, Admit(j)
        PROVE  Forward'
    BY <1>1 DEF Admit, TypeOK, Placed, Forward, rows, broker, sessions, cancels, record
  <1>2. ASSUME NEW j \in Jobs, NEW selected \in SUBSET Brokers, NEW preview \in BOOLEAN, Store(j,
               selected, preview)
        PROVE  Forward'
    <2>1. status[j] = "absent" /\ \A d \in Executors : job[d] # j
      BY <1>2 DEF Store, Placed
    <2>2. \A i \in Jobs \ {j} : status'[i] = status[i]
      BY <1>2 DEF Store, TypeOK
    <2>3. UNCHANGED <<captcha, pc, job, memStatus>>
      BY <1>2 DEF Store, sessions
    <2>4. \A i \in Jobs, c \in Brokers : captcha'[i][c] # "none" => status'[i] # "pending"
      BY <2>1, <2>2, <2>3 DEF Forward, Unasked
    <2>5. \A d \in Executors : pc[d] # "idle" => status'[job[d]] = status[job[d]]
      BY <2>1, <2>2 DEF Placed
    <2> QED
      BY <2>3, <2>4, <2>5 DEF Forward
  <1>3. ASSUME NEW j \in Jobs, Enqueue(j)
        PROVE  Forward'
    BY <1>3 DEF Enqueue, TypeOK, Placed, Forward, rows, broker, sessions, cancels, record
  <1>4. ASSUME NEW j \in Jobs, LoseEnqueue(j)
        PROVE  Forward'
    BY <1>4 DEF LoseEnqueue, TypeOK, Placed, Forward, rows, broker, sessions, cancels, record
  <1>5. ASSUME NEW j \in Jobs, CancelLoad(j)
        PROVE  Forward'
    BY <1>5 DEF CancelLoad, TypeOK, Placed, Forward, rows, broker, sessions, cancels, record
  <1>6. ASSUME NEW j \in Jobs, CancelCommit(j)
        PROVE  Forward'
    BY <1>6 DEF CancelCommit, TypeOK, Placed, Forward, rows, broker, sessions, cancels, record
  <1>7. ASSUME NEW r \in Requests, NEW j \in Jobs, NEW b \in Brokers, ManualLoad(r, j, b)
        PROVE  Forward'
    BY <1>7
    DEF ManualLoad, Load, Executors, TypeOK, Placed, Forward, rows, broker, sessions, cancels,
        record
  <1>8. ASSUME NEW r \in Requests, NEW st \in ManualStatus, ManualCommit(r, st)
        PROVE  Forward'
    <2>1. r \in Executors /\ pc[r] = "manual" /\ UNCHANGED <<status, captcha>>
      BY <1>8 DEF ManualCommit, Executors
    <2>2. CASE memStatus[r] \in TerminalJob
      <3>1. EndJob(r)
        BY <1>8, <2>2 DEF ManualCommit
      <3> QED
        BY <2>1, <3>1, EndJobEffect, ForwardKept
    <2>3. CASE memStatus[r] \notin TerminalJob
      BY <1>8, <2>1, <2>3, ForwardKept DEF ManualCommit, TypeOK
    <2> QED
      BY <2>2, <2>3
  <1>9. ASSUME NEW j \in Jobs, NEW b \in Brokers, CaptchaAges(j, b)
        PROVE  Forward'
    BY <1>9 DEF CaptchaAges, TypeOK, Placed, Forward, rows, broker, sessions, cancels, record
  <1>10. ASSUME NEW j \in Jobs, NEW b \in Brokers, NEW reply \in {"skipped", "expired"},
                DropCaptcha(j, b, reply)
        PROVE  Forward'
    BY <1>10 DEF DropCaptcha, TypeOK, Placed, Forward, rows, broker, sessions, cancels, record
  <1>11. ASSUME NEW j \in Jobs, NEW b \in Brokers, SolveCaptcha(j, b)
        PROVE  Forward'
    <2>1. captcha[j][b] # "none"
      BY <1>11 DEF SolveCaptcha
    <2>2. status[j] \in JobStatus /\ status[j] # "pending"
      BY <2>1, ZenonT(60) DEF Forward, Unasked, TypeOK
    <2>3. ~CanTransitionJob(status[j], "pending")
      BY <2>2, NeverPending
    <2> QED
      BY <1>11, <2>3 DEF SolveCaptcha, Forward, sessions
  <1>12. ASSUME NEW w \in Workers, NEW j \in Jobs, Take(w, j)
        PROVE  Forward'
    <2>1. w \in Executors /\ UNCHANGED <<status, captcha>>
      BY <1>12 DEF Take, Executors, rows
    <2>2. CASE status[j] \in TerminalJob
      BY <1>12, <2>1, <2>2 DEF Take, Forward
    <2>3. CASE status[j] \notin TerminalJob
      <3>1. /\ pc' = [pc EXCEPT ![w] = "loaded"] /\ job' = [job EXCEPT ![w] = j]
            /\ memStatus' = [memStatus EXCEPT ![w] = status[j]]
        BY <1>12, <2>3 DEF Take, Load
      <3> QED
        BY <2>1, <3>1 DEF Forward, TypeOK
    <2> QED
      BY <2>2, <2>3
  <1>13. ASSUME NEW e \in Executors, StartExpired(e)
        PROVE  Forward'
    BY <1>13, ForwardKept
    DEF StartExpired, EndJob, TypeOK, rows, broker, sessions, cancels, record
  <1>14. ASSUME NEW e \in Executors, Start(e)
        PROVE  Forward'
    BY <1>14 DEF Start, TypeOK, Placed, Forward, rows, broker, sessions, cancels, record
  <1>15. ASSUME NEW e \in Executors, SeeCancelled(e)
        PROVE  Forward'
    BY <1>15, ForwardKept
    DEF SeeCancelled, EndJob, TypeOK, rows, broker, sessions, cancels, record
  <1>16. ASSUME NEW e \in Executors, SeeExpired(e)
        PROVE  Forward'
    BY <1>16, ForwardKept DEF SeeExpired, EndJob, TypeOK, rows, broker, sessions, cancels, record
  <1>17. ASSUME NEW e \in Executors, NEW b \in Brokers, PassOver(e, b)
        PROVE  Forward'
    BY <1>17
    DEF PassOver, Proceed, TypeOK, Placed, Forward, rows, broker, sessions, cancels, record
  <1>18. ASSUME NEW e \in Executors, NEW b \in Brokers, Select(e, b)
        PROVE  Forward'
    BY <1>18, ZenonT(60)
    DEF Select, Proceed, TypeOK, Placed, Forward, rows, broker, sessions, cancels, record
  <1>19. ASSUME NEW e \in Executors, NEW st \in {"error", "skipped_fresh"}, SettleWithoutRun(e,
                st)
        PROVE  Forward'
    BY <1>19
    DEF SettleWithoutRun, WriteItem, NextItem, TypeOK, Placed, Forward, rows, broker, sessions,
        cancels, record
  <1>20. ASSUME NEW e \in Executors, Begin(e)
        PROVE  Forward'
    BY <1>20
    DEF Begin, WriteItem, TypeOK, Placed, Forward, rows, broker, sessions, cancels, record
  <1>21. ASSUME NEW e \in Executors, NEW o \in RunnerResult, NEW formSent \in BOOLEAN,
                RunBroker(e, o, formSent)
        PROVE  Forward'
    BY <1>21
    DEF RunBroker, Success, TypeOK, Placed, Forward, rows, broker, sessions, cancels, record
  <1>22. ASSUME NEW e \in Executors, NEW v \in VerifyResult, VerifyRemoval(e, v)
        PROVE  Forward'
    BY <1>22 DEF VerifyRemoval, TypeOK, Placed, Forward, rows, broker, sessions, cancels, record
  <1>23. ASSUME NEW e \in Executors, RecordResult(e)
        PROVE  Forward'
    BY <1>23
    DEF RecordResult, WriteItem, NextItem, RecordEgress, TypeOK, Placed, Forward, rows, broker,
        sessions, cancels, record
  <1>24. ASSUME NEW e \in Executors, RecordCaptcha(e)
        PROVE  Forward'
    <2>1. /\ job[e] \in Jobs /\ current[e] \in Brokers
          /\ pc[e] = "called" /\ memStatus[e] # "pending"
      BY <1>24 DEF RecordCaptcha, Placed, Forward
    <2>2. status' \in {status, [status EXCEPT ![job[e]] = "waiting_captcha"]}
      BY <1>24 DEF RecordCaptcha, WriteJob
    <2>3. \A i \in Jobs : status[i] # "pending" => status'[i] # "pending"
      BY <2>1, <2>2, StatusWritten
    <2>4. status[job[e]] # "pending"
      BY <2>1 DEF Forward
    <2>5. captcha' = [captcha EXCEPT ![job[e]][current[e]] = "pending"]
      BY <1>24 DEF RecordCaptcha
    <2>6. \A i \in Jobs \ {job[e]} : captcha'[i] = captcha[i]
      BY <2>5 DEF TypeOK
    <2>7. \A i \in Jobs, c \in Brokers : captcha'[i][c] # "none" => status'[i] # "pending"
      BY <2>3, <2>4, <2>6 DEF Forward
    <2>8. /\ UNCHANGED job /\ pc'[e] = "loop" /\ memStatus'[e] = "waiting_captcha"
          /\ \A d \in Executors \ {e} : pc'[d] = pc[d] /\ memStatus'[d] = memStatus[d]
      BY <1>24 DEF RecordCaptcha, NextItem, TypeOK
    <2>9. \A d \in Executors \ {e} : pc[d] # "idle" => job[d] \in Jobs
      BY DEF Placed
    <2> QED
      BY <2>1, <2>3, <2>4, <2>7, <2>8, <2>9 DEF Forward
  <1>25. ASSUME NEW e \in Executors, LeaveLoop(e)
        PROVE  Forward'
    BY <1>25 DEF LeaveLoop, TypeOK, Placed, Forward, rows, broker, sessions, cancels, record
  <1>26. ASSUME NEW e \in Executors, Finalize(e)
        PROVE  Forward'
    <2>1. job[e] \in Jobs /\ memStatus[e] # "pending"
      BY <1>26 DEF Finalize, Placed, Forward
    <2>2. status' \in {status, [status EXCEPT ![job[e]] = Verdict(e)]}
      BY <1>26 DEF Finalize, WriteJob
    <2>3. \A i \in Jobs : status[i] # "pending" => status'[i] # "pending"
      BY <2>1, <2>2, StatusWritten, VerdictForward
    <2>4. EndJob(e) /\ UNCHANGED captcha
      BY <1>26 DEF Finalize
    <2> QED
      BY <2>3, <2>4, EndJobEffect, ForwardKept
  <1>27. ASSUME NEW e \in Executors, Crash(e)
        PROVE  Forward'
    BY <1>27 DEF Crash, EndJob, TypeOK, Placed, Forward, rows, broker, sessions, cancels, record
  <1>28. ASSUME NEW e \in Executors, TaskFails(e)
        PROVE  Forward'
    BY <1>28
    DEF TaskFails, EndJob, TypeOK, Placed, Forward, rows, broker, sessions, cancels, record
  <1>29. ASSUME NEW e \in Executors, Redeliver(e)
        PROVE  Forward'
    BY <1>29 DEF Redeliver, TypeOK, Placed, Forward, rows, broker, sessions, cancels, record
  <1>30. ASSUME NEW j \in Jobs, DeadlinePasses(j)
        PROVE  Forward'
    BY <1>30 DEF DeadlinePasses, TypeOK, Placed, Forward, rows, broker, sessions, cancels, record
  <1>31. ASSUME UNCHANGED vars
        PROVE  Forward'
    BY <1>31 DEF vars, TypeOK, Placed, Forward, rows, broker, sessions, cancels, record
  <1> QED
    BY <1>1, <1>2, <1>3, <1>4, <1>5, <1>6, <1>7, <1>8, <1>9, <1>10, <1>11, <1>12, <1>13, <1>14,
       <1>15, <1>16, <1>17, <1>18, <1>19, <1>20, <1>21, <1>22, <1>23, <1>24, <1>25, <1>26, <1>27,
       <1>28, <1>29, <1>30, <1>31
    DEF Next, Create, Cancel, ReportManual, Captcha, ExecuteJob, Fault, ManualStatus

\* With the same captchas and no stored job gone, no captcha comes to be asked for.
LEMMA UnaskedKept ==
  ASSUME Unasked,
         \A j \in Jobs : status'[j] = "absent" => status[j] = "absent",
         \A j \in Jobs, b \in Brokers : captcha'[j][b] # "none" => captcha[j][b] # "none"
  PROVE  Unasked'
BY DEF Unasked


\* No step asks for a captcha of a job that is not stored.
LEMMA UnaskedStep == TypeOK /\ Placed /\ Unasked /\ [Next]_vars => Unasked'
  <1> SUFFICES ASSUME TypeOK, Placed, Unasked, [Next]_vars PROVE Unasked'
    OBVIOUS
  <1>1. ASSUME NEW j \in Jobs, Admit(j)
        PROVE  Unasked'
    BY <1>1 DEF Admit, TypeOK, Placed, Unasked, rows, broker, sessions, cancels, record
  <1>2. ASSUME NEW j \in Jobs, NEW selected \in SUBSET Brokers, NEW preview \in BOOLEAN, Store(j,
               selected, preview)
        PROVE  Unasked'
    <2>1. \A i \in Jobs : status'[i] = "absent" => status[i] = "absent"
      BY <1>2 DEF Store, TypeOK
    <2> QED
      BY <1>2, <2>1, UnaskedKept DEF Store
  <1>3. ASSUME NEW j \in Jobs, Enqueue(j)
        PROVE  Unasked'
    BY <1>3 DEF Enqueue, TypeOK, Placed, Unasked, rows, broker, sessions, cancels, record
  <1>4. ASSUME NEW j \in Jobs, LoseEnqueue(j)
        PROVE  Unasked'
    BY <1>4 DEF LoseEnqueue, TypeOK, Placed, Unasked, rows, broker, sessions, cancels, record
  <1>5. ASSUME NEW j \in Jobs, CancelLoad(j)
        PROVE  Unasked'
    BY <1>5 DEF CancelLoad, TypeOK, Placed, Unasked, rows, broker, sessions, cancels, record
  <1>6. ASSUME NEW j \in Jobs, CancelCommit(j)
        PROVE  Unasked'
    BY <1>6, UnaskedKept DEF CancelCommit, TypeOK, rows, broker, sessions, cancels, record
  <1>7. ASSUME NEW r \in Requests, NEW j \in Jobs, NEW b \in Brokers, ManualLoad(r, j, b)
        PROVE  Unasked'
    BY <1>7
    DEF ManualLoad, Load, Executors, TypeOK, Placed, Unasked, rows, broker, sessions, cancels,
        record
  <1>8. ASSUME NEW r \in Requests, NEW st \in ManualStatus, ManualCommit(r, st)
        PROVE  Unasked'
    BY <1>8
    DEF ManualCommit, EndJob, Executors, TypeOK, Placed, Unasked, rows, broker, sessions, cancels,
        record
  <1>9. ASSUME NEW j \in Jobs, NEW b \in Brokers, CaptchaAges(j, b)
        PROVE  Unasked'
    BY <1>9, UnaskedKept DEF CaptchaAges, TypeOK, rows, broker, sessions, cancels, record
  <1>10. ASSUME NEW j \in Jobs, NEW b \in Brokers, NEW reply \in {"skipped", "expired"},
                DropCaptcha(j, b, reply)
        PROVE  Unasked'
    BY <1>10 DEF DropCaptcha, TypeOK, Placed, Unasked, rows, broker, sessions, cancels, record
  <1>11. ASSUME NEW j \in Jobs, NEW b \in Brokers, SolveCaptcha(j, b)
        PROVE  Unasked'
    <2>1. captcha[j][b] # "none"
      BY <1>11 DEF SolveCaptcha
    <2>2. status[j] # "absent"
      BY <2>1 DEF Unasked
    <2>3. CASE ~CanTransitionJob(status[j], "pending")
      BY <1>11, <2>3, UnaskedKept DEF SolveCaptcha
    <2>4. CASE CanTransitionJob(status[j], "pending")
      <3>1. /\ captcha' = [captcha EXCEPT ![j][b] = "solved"]
            /\ status' = [status EXCEPT ![j] = "pending"]
        BY <1>11, <2>4 DEF SolveCaptcha
      <3>2. \A i \in Jobs \ {j} : status'[i] = status[i] /\ captcha'[i] = captcha[i]
        BY <3>1 DEF TypeOK
      <3>3. status'[j] # "absent"
        BY <3>1 DEF TypeOK
      <3> QED
        BY <3>2, <3>3 DEF Unasked
    <2> QED
      BY <2>3, <2>4
  <1>12. ASSUME NEW w \in Workers, NEW j \in Jobs, Take(w, j)
        PROVE  Unasked'
    BY <1>12
    DEF Take, Load, Executors, TypeOK, Placed, Unasked, rows, broker, sessions, cancels, record
  <1>13. ASSUME NEW e \in Executors, StartExpired(e)
        PROVE  Unasked'
    BY <1>13, UnaskedKept
    DEF StartExpired, EndJob, TypeOK, rows, broker, sessions, cancels, record
  <1>14. ASSUME NEW e \in Executors, Start(e)
        PROVE  Unasked'
    BY <1>14 DEF Start, TypeOK, Placed, Unasked, rows, broker, sessions, cancels, record
  <1>15. ASSUME NEW e \in Executors, SeeCancelled(e)
        PROVE  Unasked'
    BY <1>15
    DEF SeeCancelled, EndJob, TypeOK, Placed, Unasked, rows, broker, sessions, cancels, record
  <1>16. ASSUME NEW e \in Executors, SeeExpired(e)
        PROVE  Unasked'
    BY <1>16, UnaskedKept DEF SeeExpired, EndJob, TypeOK, rows, broker, sessions, cancels, record
  <1>17. ASSUME NEW e \in Executors, NEW b \in Brokers, PassOver(e, b)
        PROVE  Unasked'
    BY <1>17
    DEF PassOver, Proceed, TypeOK, Placed, Unasked, rows, broker, sessions, cancels, record
  <1>18. ASSUME NEW e \in Executors, NEW b \in Brokers, Select(e, b)
        PROVE  Unasked'
    BY <1>18 DEF Select, Proceed, TypeOK, Placed, Unasked, rows, broker, sessions, cancels, record
  <1>19. ASSUME NEW e \in Executors, NEW st \in {"error", "skipped_fresh"}, SettleWithoutRun(e,
                st)
        PROVE  Unasked'
    BY <1>19
    DEF SettleWithoutRun, WriteItem, NextItem, TypeOK, Placed, Unasked, rows, broker, sessions,
        cancels, record
  <1>20. ASSUME NEW e \in Executors, Begin(e)
        PROVE  Unasked'
    BY <1>20
    DEF Begin, WriteItem, TypeOK, Placed, Unasked, rows, broker, sessions, cancels, record
  <1>21. ASSUME NEW e \in Executors, NEW o \in RunnerResult, NEW formSent \in BOOLEAN,
                RunBroker(e, o, formSent)
        PROVE  Unasked'
    BY <1>21
    DEF RunBroker, Success, TypeOK, Placed, Unasked, rows, broker, sessions, cancels, record
  <1>22. ASSUME NEW e \in Executors, NEW v \in VerifyResult, VerifyRemoval(e, v)
        PROVE  Unasked'
    BY <1>22 DEF VerifyRemoval, TypeOK, Placed, Unasked, rows, broker, sessions, cancels, record
  <1>23. ASSUME NEW e \in Executors, RecordResult(e)
        PROVE  Unasked'
    BY <1>23
    DEF RecordResult, WriteItem, NextItem, RecordEgress, TypeOK, Placed, Unasked, rows, broker,
        sessions, cancels, record
  <1>24. ASSUME NEW e \in Executors, RecordCaptcha(e)
        PROVE  Unasked'
    <2>1. job[e] \in Jobs /\ status[job[e]] # "absent"
      BY <1>24 DEF RecordCaptcha, Placed
    <2>2. status' \in {status, [status EXCEPT ![job[e]] = "waiting_captcha"]}
      BY <1>24 DEF RecordCaptcha, WriteJob
    <2>3. \A i \in Jobs : status'[i] = "absent" => status[i] = "absent"
      BY <2>2 DEF TypeOK
    <2>4. captcha' = [captcha EXCEPT ![job[e]][current[e]] = "pending"]
      BY <1>24 DEF RecordCaptcha
    <2>5. \A i \in Jobs \ {job[e]} : captcha'[i] = captcha[i]
      BY <2>4 DEF TypeOK
    <2> QED
      BY <2>1, <2>3, <2>5 DEF Unasked
  <1>25. ASSUME NEW e \in Executors, LeaveLoop(e)
        PROVE  Unasked'
    BY <1>25 DEF LeaveLoop, TypeOK, Placed, Unasked, rows, broker, sessions, cancels, record
  <1>26. ASSUME NEW e \in Executors, Finalize(e)
        PROVE  Unasked'
    <2>1. status' \in {status, [status EXCEPT ![job[e]] = Verdict(e)]} /\ UNCHANGED captcha
      BY <1>26 DEF Finalize, WriteJob
    <2>2. Verdict(e) # "absent"
      BY VerdictType DEF JobStatus, ActiveJob, TerminalJob, WaitingJob
    <2>3. \A i \in Jobs : status'[i] = "absent" => status[i] = "absent"
      BY <2>1, <2>2 DEF TypeOK
    <2> QED
      BY <2>1, <2>3, UnaskedKept
  <1>27. ASSUME NEW e \in Executors, Crash(e)
        PROVE  Unasked'
    BY <1>27 DEF Crash, EndJob, TypeOK, Placed, Unasked, rows, broker, sessions, cancels, record
  <1>28. ASSUME NEW e \in Executors, TaskFails(e)
        PROVE  Unasked'
    BY <1>28
    DEF TaskFails, EndJob, TypeOK, Placed, Unasked, rows, broker, sessions, cancels, record
  <1>29. ASSUME NEW e \in Executors, Redeliver(e)
        PROVE  Unasked'
    BY <1>29 DEF Redeliver, TypeOK, Placed, Unasked, rows, broker, sessions, cancels, record
  <1>30. ASSUME NEW j \in Jobs, DeadlinePasses(j)
        PROVE  Unasked'
    BY <1>30 DEF DeadlinePasses, TypeOK, Placed, Unasked, rows, broker, sessions, cancels, record
  <1>31. ASSUME UNCHANGED vars
        PROVE  Unasked'
    BY <1>31 DEF vars, TypeOK, Placed, Unasked, rows, broker, sessions, cancels, record
  <1> QED
    BY <1>1, <1>2, <1>3, <1>4, <1>5, <1>6, <1>7, <1>8, <1>9, <1>10, <1>11, <1>12, <1>13, <1>14,
       <1>15, <1>16, <1>17, <1>18, <1>19, <1>20, <1>21, <1>22, <1>23, <1>24, <1>25, <1>26, <1>27,
       <1>28, <1>29, <1>30, <1>31
    DEF Next, Create, Cancel, ReportManual, Captcha, ExecuteJob, Fault, ManualStatus

\* A captcha is never put back in the queue: the transition table refuses it.
LEMMA CaptchaRefused ==
  ASSUME TypeOK, Unasked, Forward, NEW j \in Jobs, NEW b \in Brokers, SolveCaptcha(j, b)
  PROVE  UNCHANGED <<status, item, queue, captcha>>
  <1>1. captcha[j][b] # "none"
    BY DEF SolveCaptcha
  <1>2. status[j] \in JobStatus /\ status[j] # "pending"
    BY <1>1 DEF Forward, Unasked, TypeOK
  <1>3. ~CanTransitionJob(status[j], "pending")
    BY <1>2, NeverPending
  <1> QED
    BY <1>3 DEF SolveCaptcha

\* The queue stays, and no executor takes another job.
LEMMA OneMessageKept ==
  ASSUME Placed, OneMessage, queue' = queue,
         \A j \in Jobs : request'[j] = "stored" => request[j] = "stored",
         \A d \in Executors : job'[d] \in {job[d], NoJob},
         \A d \in Executors :
           pc'[d] # "idle" => pc[d] # "idle" /\ pc'[d] # "manual" /\ job'[d] = job[d]
  PROVE  OneMessage'
  <1>1. \A j \in Jobs : queue'[j] <= 1
    BY DEF OneMessage
  <1>2. ASSUME NEW j \in Jobs, request'[j] = "stored"
        PROVE  queue'[j] = 0 /\ \A e \in Executors : job'[e] # j
    <2>1. queue[j] = 0 /\ \A e \in Executors : job[e] # j
      BY <1>2 DEF OneMessage
    <2> QED
      BY <2>1, RemediationAssumption
  <1>3. \A d \in Executors : pc'[d] # "idle" => pc'[d] # "manual" /\ queue'[job'[d]] = 0
    BY DEF OneMessage
  <1>4. ASSUME NEW c \in Executors, NEW d \in Executors, pc'[c] # "idle", job'[d] = job'[c]
        PROVE  c = d
    <2>1. pc[c] # "idle" /\ job'[c] = job[c] /\ job[c] \in Jobs
      BY <1>4 DEF Placed
    <2>2. job[d] = job[c]
      BY <1>4, <2>1, RemediationAssumption
    <2> QED
      BY <2>1, <2>2 DEF OneMessage
  <1> QED
    BY <1>1, <1>2, <1>3, <1>4 DEF OneMessage


\* Without overlapping deliveries every step keeps one message per job.
LEMMA OneMessageStep ==
  ASSUME "overlap" \notin Events, "manual" \notin Events
  PROVE  TypeOK /\ Placed /\ Unasked /\ Forward /\ OneMessage /\ [Next]_vars => OneMessage'
  <1> SUFFICES ASSUME TypeOK, Placed, Unasked, Forward, OneMessage, [Next]_vars PROVE OneMessage'
    OBVIOUS
  <1>1. ASSUME NEW j \in Jobs, Admit(j)
        PROVE  OneMessage'
    <2>1. UNCHANGED <<queue, pc, job>>
      BY <1>1 DEF Admit, sessions
    <2>2. \A i \in Jobs : request'[i] = "stored" => request[i] = "stored"
      BY <1>1 DEF Admit, TypeOK
    <2>3. \A d \in Executors : pc[d] # "idle" => pc[d] # "manual"
      BY DEF OneMessage
    <2> QED
      BY <2>1, <2>2, <2>3, OneMessageKept
  <1>2. ASSUME NEW j \in Jobs, NEW selected \in SUBSET Brokers, NEW preview \in BOOLEAN, Store(j,
               selected, preview)
        PROVE  OneMessage'
    BY <1>2, ZenonT(60)
    DEF Store, TypeOK, Placed, OneMessage, rows, broker, sessions, cancels, record
  <1>3. ASSUME NEW j \in Jobs, Enqueue(j)
        PROVE  OneMessage'
    <2>1. queue[j] = 0 /\ \A d \in Executors : job[d] # j
      BY <1>3 DEF Enqueue, OneMessage
    <2>8. /\ queue' = [queue EXCEPT ![j] = @ + 1]
          /\ request' = [request EXCEPT ![j] = "done"]
          /\ UNCHANGED <<pc, job>>
      BY <1>3 DEF Enqueue, sessions
    <2>9. queue'[j] = 1 /\ \A i \in Jobs \ {j} : queue'[i] = queue[i]
      <3>1. queue \in [Jobs -> Nat]
        BY DEF TypeOK
      <3>2. queue'[j] = 0 + 1
        BY <2>1, <2>8, <3>1
      <3>3. \A i \in Jobs \ {j} : queue'[i] = queue[i]
        BY <2>8, <3>1
      <3> QED
        BY <3>2, <3>3
    <2>10. request'[j] = "done" /\ \A i \in Jobs \ {j} : request'[i] = request[i]
      BY <2>8 DEF TypeOK
    <2>2. /\ queue'[j] = 1 /\ request'[j] = "done" /\ UNCHANGED <<pc, job>>
          /\ \A i \in Jobs \ {j} : queue'[i] = queue[i] /\ request'[i] = request[i]
      BY <2>8, <2>9, <2>10
    <2>3. \A d \in Executors : pc[d] # "idle" => job[d] \in Jobs
      BY DEF Placed
    <2>4. \A i \in Jobs : queue'[i] <= 1
      BY <2>2 DEF OneMessage
    <2>5. ASSUME NEW i \in Jobs, request'[i] = "stored"
          PROVE  queue'[i] = 0 /\ \A d \in Executors : job'[d] # i
      BY <2>2, <2>5 DEF OneMessage
    <2>6. \A d \in Executors : pc'[d] # "idle" => pc'[d] # "manual" /\ queue'[job'[d]] = 0
      BY <2>1, <2>2, <2>3 DEF OneMessage
    <2>7. \A d, e \in Executors : pc'[d] # "idle" /\ job'[d] = job'[e] => d = e
      BY <2>2 DEF OneMessage
    <2> QED
      BY <2>4, <2>5, <2>6, <2>7 DEF OneMessage
  <1>4. ASSUME NEW j \in Jobs, LoseEnqueue(j)
        PROVE  OneMessage'
    BY <1>4, OneMessageKept
    DEF LoseEnqueue, TypeOK, rows, broker, sessions, cancels, record, OneMessage
  <1>5. ASSUME NEW j \in Jobs, CancelLoad(j)
        PROVE  OneMessage'
    BY <1>5 DEF CancelLoad, TypeOK, Placed, OneMessage, rows, broker, sessions, cancels, record
  <1>6. ASSUME NEW j \in Jobs, CancelCommit(j)
        PROVE  OneMessage'
    BY <1>6 DEF CancelCommit, TypeOK, Placed, OneMessage, rows, broker, sessions, cancels, record
  <1>7. ASSUME NEW r \in Requests, NEW j \in Jobs, NEW b \in Brokers, ManualLoad(r, j, b)
        PROVE  OneMessage'
    BY <1>7
    DEF ManualLoad, Load, Executors, TypeOK, Placed, rows, broker, sessions, cancels, record
  <1>8. ASSUME NEW r \in Requests, NEW st \in ManualStatus, ManualCommit(r, st)
        PROVE  OneMessage'
    BY <1>8
    DEF ManualCommit, EndJob, Executors, TypeOK, Placed, OneMessage, rows, broker, sessions,
        cancels, record
  <1>9. ASSUME NEW j \in Jobs, NEW b \in Brokers, CaptchaAges(j, b)
        PROVE  OneMessage'
    BY <1>9, OneMessageKept
    DEF CaptchaAges, TypeOK, rows, broker, sessions, cancels, record, OneMessage
  <1>10. ASSUME NEW j \in Jobs, NEW b \in Brokers, NEW reply \in {"skipped", "expired"},
                DropCaptcha(j, b, reply)
        PROVE  OneMessage'
    BY <1>10 DEF DropCaptcha, TypeOK, Placed, OneMessage, rows, broker, sessions, cancels, record
  <1>11. ASSUME NEW j \in Jobs, NEW b \in Brokers, SolveCaptcha(j, b)
        PROVE  OneMessage'
    <2>1. UNCHANGED <<queue, request, pc, job>>
      BY <1>11, CaptchaRefused DEF SolveCaptcha, sessions
    <2> QED
      BY <2>1 DEF OneMessage
  <1>12. ASSUME NEW w \in Workers, NEW j \in Jobs, Take(w, j)
        PROVE  OneMessage'
    <2>11. /\ w \in Executors /\ UNCHANGED request /\ queue[j] > 0 /\ queue[j] \in Nat
           /\ queue' = [queue EXCEPT ![j] = @ - 1]
      BY <1>12 DEF Take, Executors, TypeOK
    <2>12. queue[j] <= 1
      BY DEF OneMessage
    <2>1. w \in Executors /\ queue[j] = 1 /\ request[j] # "stored" /\ UNCHANGED request
      BY <2>11, <2>12 DEF OneMessage
    <2>2. queue'[j] = 0 /\ \A i \in Jobs \ {j} : queue'[i] = queue[i]
      <3>1. queue \in [Jobs -> Nat]
        BY DEF TypeOK
      <3>2. queue'[j] = 1 - 1
        BY <2>1, <2>11, <3>1
      <3>3. \A i \in Jobs \ {j} : queue'[i] = queue[i]
        BY <2>11, <3>1
      <3> QED
        BY <3>2, <3>3
    <2>3. \A d \in Executors : pc[d] # "idle" => job[d] \in Jobs /\ job[d] # j
      BY <2>1 DEF Placed, OneMessage
    <2>4. \A d \in Executors : job[d] # j
      BY <2>3 DEF Placed
    <2>5. \A d \in Executors \ {w} : pc'[d] = pc[d] /\ job'[d] = job[d]
      BY <1>12, ZenonT(60) DEF Take, Load, TypeOK
    <2>6. \/ pc'[w] = "idle" /\ job'[w] = job[w]
          \/ pc'[w] = "loaded" /\ job'[w] = j
      BY <1>12, <2>1, ZenonT(60) DEF Take, Load, TypeOK
    <2>7. \A i \in Jobs : queue'[i] <= 1
      BY <2>2 DEF OneMessage
    <2>8. ASSUME NEW i \in Jobs, request'[i] = "stored"
          PROVE  queue'[i] = 0 /\ \A d \in Executors : job'[d] # i
      BY <2>1, <2>2, <2>5, <2>6, <2>8 DEF OneMessage
    <2>9. \A d \in Executors : pc'[d] # "idle" => pc'[d] # "manual" /\ queue'[job'[d]] = 0
      BY <2>2, <2>3, <2>5, <2>6 DEF OneMessage
    <2>10. ASSUME NEW d \in Executors, NEW e \in Executors, pc'[d] # "idle", job'[d] = job'[e]
           PROVE  d = e
      <3>1. CASE d = w
        BY <2>4, <2>5, <2>6, <2>10, <3>1
      <3>2. CASE e = w
        BY <2>1, <2>3, <2>4, <2>5, <2>6, <2>10, <3>2 DEF OneMessage, Placed
      <3>3. CASE d # w /\ e # w
        BY <2>5, <2>10, <3>3 DEF OneMessage
      <3> QED
        BY <3>1, <3>2, <3>3
    <2> QED
      BY <2>7, <2>8, <2>9, <2>10 DEF OneMessage
  <1>13. ASSUME NEW e \in Executors, StartExpired(e)
        PROVE  OneMessage'
    <2>1. EndJob(e) /\ UNCHANGED <<queue, request>>
      BY <1>13 DEF StartExpired, broker
    <2>2. \A d \in Executors : job'[d] \in {job[d], NoJob}
      BY <2>1, EndJobEffect
    <2>3. \A d \in Executors : pc'[d] # "idle" =>
            pc[d] # "idle" /\ pc'[d] # "manual" /\ job'[d] = job[d]
      BY <2>1, EndJobEffect DEF OneMessage
    <2> QED
      BY <2>1, <2>2, <2>3, OneMessageKept
  <1>14. ASSUME NEW e \in Executors, Start(e)
        PROVE  OneMessage'
    <2>1. UNCHANGED <<queue, request, job>> /\ pc[e] # "idle" /\ pc'[e] = "loop"
      BY <1>14 DEF Start, broker, TypeOK
    <2>2. \A d \in Executors \ {e} : pc'[d] = pc[d]
      BY <1>14 DEF Start, TypeOK
    <2>3. \A d \in Executors : pc[d] # "idle" => pc[d] # "manual"
      BY DEF OneMessage
    <2> QED
      BY <2>1, <2>2, <2>3, OneMessageKept
  <1>15. ASSUME NEW e \in Executors, SeeCancelled(e)
        PROVE  OneMessage'
    <2>1. EndJob(e) /\ UNCHANGED <<queue, request>>
      BY <1>15 DEF SeeCancelled, broker
    <2>2. \A d \in Executors : job'[d] \in {job[d], NoJob}
      BY <2>1, EndJobEffect
    <2>3. \A d \in Executors : pc'[d] # "idle" =>
            pc[d] # "idle" /\ pc'[d] # "manual" /\ job'[d] = job[d]
      BY <2>1, EndJobEffect DEF OneMessage
    <2> QED
      BY <2>1, <2>2, <2>3, OneMessageKept
  <1>16. ASSUME NEW e \in Executors, SeeExpired(e)
        PROVE  OneMessage'
    <2>1. EndJob(e) /\ UNCHANGED <<queue, request>>
      BY <1>16 DEF SeeExpired, broker
    <2>2. \A d \in Executors : job'[d] \in {job[d], NoJob}
      BY <2>1, EndJobEffect
    <2>3. \A d \in Executors : pc'[d] # "idle" =>
            pc[d] # "idle" /\ pc'[d] # "manual" /\ job'[d] = job[d]
      BY <2>1, EndJobEffect DEF OneMessage
    <2> QED
      BY <2>1, <2>2, <2>3, OneMessageKept
  <1>17. ASSUME NEW e \in Executors, NEW b \in Brokers, PassOver(e, b)
        PROVE  OneMessage'
    <2>1. UNCHANGED <<queue, request, pc, job>>
      BY <1>17 DEF PassOver, Proceed, broker
    <2> QED
      BY <2>1 DEF OneMessage
  <1>18. ASSUME NEW e \in Executors, NEW b \in Brokers, Select(e, b)
        PROVE  OneMessage'
    <2>1. UNCHANGED <<queue, request, job>> /\ pc[e] # "idle" /\ pc'[e] = "checked"
      BY <1>18 DEF Select, Proceed, broker, TypeOK
    <2>2. \A d \in Executors \ {e} : pc'[d] = pc[d]
      BY <1>18 DEF Select, TypeOK
    <2>3. \A d \in Executors : pc[d] # "idle" => pc[d] # "manual"
      BY DEF OneMessage
    <2> QED
      BY <2>1, <2>2, <2>3, OneMessageKept
  <1>19. ASSUME NEW e \in Executors, NEW st \in {"error", "skipped_fresh"}, SettleWithoutRun(e,
                st)
        PROVE  OneMessage'
    <2>1. UNCHANGED <<queue, request, job>> /\ pc[e] # "idle" /\ pc'[e] = "loop"
      BY <1>19 DEF SettleWithoutRun, NextItem, broker, TypeOK
    <2>2. \A d \in Executors \ {e} : pc'[d] = pc[d]
      BY <1>19 DEF SettleWithoutRun, NextItem, TypeOK
    <2>3. \A d \in Executors : pc[d] # "idle" => pc[d] # "manual"
      BY DEF OneMessage
    <2> QED
      BY <2>1, <2>2, <2>3, OneMessageKept
  <1>20. ASSUME NEW e \in Executors, Begin(e)
        PROVE  OneMessage'
    <2>1. UNCHANGED <<queue, request, job>> /\ pc[e] # "idle" /\ pc'[e] = "calling"
      BY <1>20 DEF Begin, broker, TypeOK
    <2>2. \A d \in Executors \ {e} : pc'[d] = pc[d]
      BY <1>20 DEF Begin, TypeOK
    <2>3. \A d \in Executors : pc[d] # "idle" => pc[d] # "manual"
      BY DEF OneMessage
    <2> QED
      BY <2>1, <2>2, <2>3, OneMessageKept
  <1>21. ASSUME NEW e \in Executors, NEW o \in RunnerResult, NEW formSent \in BOOLEAN,
                RunBroker(e, o, formSent)
        PROVE  OneMessage'
    <2>1. UNCHANGED <<queue, request, job>> /\ pc[e] # "idle" /\ pc'[e] \in {"verifying", "called"}
      BY <1>21 DEF RunBroker, broker, TypeOK
    <2>2. \A d \in Executors \ {e} : pc'[d] = pc[d]
      BY <1>21 DEF RunBroker, TypeOK
    <2>3. \A d \in Executors : pc[d] # "idle" => pc[d] # "manual"
      BY DEF OneMessage
    <2> QED
      BY <2>1, <2>2, <2>3, OneMessageKept
  <1>22. ASSUME NEW e \in Executors, NEW v \in VerifyResult, VerifyRemoval(e, v)
        PROVE  OneMessage'
    <2>1. UNCHANGED <<queue, request, job>> /\ pc[e] # "idle" /\ pc'[e] = "called"
      BY <1>22 DEF VerifyRemoval, broker, TypeOK
    <2>2. \A d \in Executors \ {e} : pc'[d] = pc[d]
      BY <1>22 DEF VerifyRemoval, TypeOK
    <2>3. \A d \in Executors : pc[d] # "idle" => pc[d] # "manual"
      BY DEF OneMessage
    <2> QED
      BY <2>1, <2>2, <2>3, OneMessageKept
  <1>23. ASSUME NEW e \in Executors, RecordResult(e)
        PROVE  OneMessage'
    <2>1. UNCHANGED <<queue, request, job>> /\ pc[e] # "idle" /\ pc'[e] = "loop"
      BY <1>23 DEF RecordResult, NextItem, broker, TypeOK
    <2>2. \A d \in Executors \ {e} : pc'[d] = pc[d]
      BY <1>23 DEF RecordResult, NextItem, TypeOK
    <2>3. \A d \in Executors : pc[d] # "idle" => pc[d] # "manual"
      BY DEF OneMessage
    <2> QED
      BY <2>1, <2>2, <2>3, OneMessageKept
  <1>24. ASSUME NEW e \in Executors, RecordCaptcha(e)
        PROVE  OneMessage'
    <2>1. UNCHANGED <<queue, request, job>> /\ pc[e] # "idle" /\ pc'[e] = "loop"
      BY <1>24 DEF RecordCaptcha, NextItem, broker, TypeOK
    <2>2. \A d \in Executors \ {e} : pc'[d] = pc[d]
      BY <1>24 DEF RecordCaptcha, NextItem, TypeOK
    <2>3. \A d \in Executors : pc[d] # "idle" => pc[d] # "manual"
      BY DEF OneMessage
    <2> QED
      BY <2>1, <2>2, <2>3, OneMessageKept
  <1>25. ASSUME NEW e \in Executors, LeaveLoop(e)
        PROVE  OneMessage'
    <2>1. UNCHANGED <<queue, request, job>> /\ pc[e] # "idle" /\ pc'[e] = "finalize"
      BY <1>25 DEF LeaveLoop, broker, TypeOK
    <2>2. \A d \in Executors \ {e} : pc'[d] = pc[d]
      BY <1>25 DEF LeaveLoop, TypeOK
    <2>3. \A d \in Executors : pc[d] # "idle" => pc[d] # "manual"
      BY DEF OneMessage
    <2> QED
      BY <2>1, <2>2, <2>3, OneMessageKept
  <1>26. ASSUME NEW e \in Executors, Finalize(e)
        PROVE  OneMessage'
    <2>1. EndJob(e) /\ UNCHANGED <<queue, request>>
      BY <1>26 DEF Finalize, broker
    <2>2. \A d \in Executors : job'[d] \in {job[d], NoJob}
      BY <2>1, EndJobEffect
    <2>3. \A d \in Executors : pc'[d] # "idle" =>
            pc[d] # "idle" /\ pc'[d] # "manual" /\ job'[d] = job[d]
      BY <2>1, EndJobEffect DEF OneMessage
    <2> QED
      BY <2>1, <2>2, <2>3, OneMessageKept
  <1>27. ASSUME NEW e \in Executors, Crash(e)
        PROVE  OneMessage'
    <2>1. EndJob(e) /\ UNCHANGED request /\ pc[e] # "idle" /\ job[e] \in Jobs
      BY <1>27 DEF Crash, Placed
    <2>2. /\ queue[job[e]] = 0 /\ request[job[e]] # "stored"
          /\ \A d \in Executors \ {e} : job[d] # job[e]
      BY <2>1 DEF OneMessage
    <2>3. queue'[job[e]] <= 1 /\ \A i \in Jobs \ {job[e]} : queue'[i] = queue[i]
      <3>1. queue' = [queue EXCEPT ![job[e]] = IF held[e] THEN @ + 1 ELSE @]
        BY <1>27 DEF Crash
      <3>2. queue'[job[e]] = IF held[e] THEN queue[job[e]] + 1 ELSE queue[job[e]]
        BY <2>1, <3>1 DEF TypeOK
      <3>3. \A i \in Jobs \ {job[e]} : queue'[i] = queue[i]
        BY <3>1 DEF TypeOK
      <3> QED
        BY <2>2, <3>2, <3>3
    <2>4. /\ pc'[e] = "idle" /\ job'[e] = NoJob
          /\ \A d \in Executors \ {e} : pc'[d] = pc[d] /\ job'[d] = job[d]
      BY <2>1, EndJobEffect
    <2>5. \A i \in Jobs : queue'[i] <= 1
      BY <2>3 DEF OneMessage
    <2>6. ASSUME NEW i \in Jobs, request'[i] = "stored"
          PROVE  queue'[i] = 0 /\ \A d \in Executors : job'[d] # i
      <3>1. i # job[e] /\ queue[i] = 0 /\ \A d \in Executors : job[d] # i
        BY <2>1, <2>2, <2>6 DEF OneMessage
      <3> QED
        BY <2>3, <2>4, <3>1, RemediationAssumption
    <2>7. ASSUME NEW d \in Executors, pc'[d] # "idle"
          PROVE  pc'[d] # "manual" /\ queue'[job'[d]] = 0
      <3>1. d # e /\ pc[d] # "idle" /\ job[d] \in Jobs /\ job[d] # job[e]
        BY <2>2, <2>4, <2>7 DEF Placed
      <3> QED
        BY <2>3, <2>4, <3>1 DEF OneMessage
    <2>8. ASSUME NEW c \in Executors, NEW d \in Executors, pc'[c] # "idle", job'[d] = job'[c]
          PROVE  c = d
      <3>1. c # e /\ pc[c] # "idle" /\ job[c] \in Jobs
        BY <2>4, <2>8 DEF Placed
      <3> QED
        BY <2>4, <2>8, <3>1, RemediationAssumption DEF OneMessage
    <2> QED
      BY <2>5, <2>6, <2>7, <2>8 DEF OneMessage
  <1>28. ASSUME NEW e \in Executors, TaskFails(e)
        PROVE  OneMessage'
    <2>1. EndJob(e) /\ UNCHANGED <<queue, request>>
      BY <1>28 DEF TaskFails, broker
    <2>2. \A d \in Executors : job'[d] \in {job[d], NoJob}
      BY <2>1, EndJobEffect
    <2>3. \A d \in Executors : pc'[d] # "idle" =>
            pc[d] # "idle" /\ pc'[d] # "manual" /\ job'[d] = job[d]
      BY <2>1, EndJobEffect DEF OneMessage
    <2> QED
      BY <2>1, <2>2, <2>3, OneMessageKept
  <1>29. ASSUME NEW e \in Executors, Redeliver(e)
        PROVE  OneMessage'
    BY <1>29 DEF Redeliver, TypeOK, Placed, rows, broker, sessions, cancels, record
  <1>30. ASSUME NEW j \in Jobs, DeadlinePasses(j)
        PROVE  OneMessage'
    BY <1>30
    DEF DeadlinePasses, TypeOK, Placed, OneMessage, rows, broker, sessions, cancels, record
  <1>31. ASSUME UNCHANGED vars
        PROVE  OneMessage'
    BY <1>31 DEF vars, TypeOK, Placed, OneMessage, rows, broker, sessions, cancels, record
  <1> QED
    BY <1>1, <1>2, <1>3, <1>4, <1>5, <1>6, <1>7, <1>8, <1>9, <1>10, <1>11, <1>12, <1>13, <1>14,
       <1>15, <1>16, <1>17, <1>18, <1>19, <1>20, <1>21, <1>22, <1>23, <1>24, <1>25, <1>26, <1>27,
       <1>28, <1>29, <1>30, <1>31
    DEF Next, Create, Cancel, ReportManual, Captcha, ExecuteJob, Fault, ManualStatus

\* Nothing is sent, a stored item does not come back to PENDING, and no executor
\* selects an item.
LEMMA FormOnceKept ==
  ASSUME Placed, FormOnce, sent' = sent,
         \A j \in Jobs : status'[j] = "absent" => status[j] = "absent",
         \A j \in Jobs, b \in Brokers :
           item'[j][b] = "pending" => item[j][b] = "pending" \/ status[j] = "absent",
         \A d \in Executors :
           pc'[d] \in {"checked", "calling"} =>
             pc'[d] = pc[d] /\ job'[d] = job[d] /\ current'[d] = current[d]
  PROVE  FormOnce'
  <1>1. ASSUME NEW j \in Jobs, NEW b \in Brokers
        PROVE  /\ sent'[j][b] <= 1
               /\ status'[j] = "absent" => sent'[j][b] = 0
               /\ sent'[j][b] > 0 => item'[j][b] # "pending"
    BY DEF FormOnce
  <1>2. ASSUME NEW d \in Executors, pc'[d] \in {"checked", "calling"}
        PROVE  /\ sent'[job'[d]][current'[d]] = 0
               /\ pc'[d] = "calling" => item'[job'[d]][current'[d]] # "pending"
    <2>1. /\ pc'[d] = pc[d] /\ job'[d] = job[d] /\ current'[d] = current[d]
          /\ job[d] \in Jobs /\ current[d] \in Brokers /\ status[job[d]] # "absent"
      BY <1>2 DEF Placed
    <2> QED
      BY <1>2, <2>1 DEF FormOnce
  <1> QED
    BY <1>1, <1>2 DEF FormOnce

\* What an item is written to that is not PENDING.
LEMMA ItemSettled ==
  ASSUME TypeOK, NEW j \in Jobs, NEW b \in Brokers, NEW st, st # "pending",
         item' \in {item, [item EXCEPT ![j][b] = st]}
  PROVE  \A i \in Jobs, c \in Brokers : item'[i][c] = "pending" => item[i][c] = "pending"
  <1>1. item \in [Jobs -> [Brokers -> ItemRow]]
    BY DEF TypeOK
  <1>2. ASSUME NEW i \in Jobs, NEW c \in Brokers, item'[i][c] = "pending"
        PROVE  item[i][c] = "pending"
    <2>1. CASE item' = item
      BY <1>2, <2>1
    <2>2. CASE item' = [item EXCEPT ![j][b] = st]
      <3>1. CASE i = j /\ c = b
        BY <1>1, <1>2, <2>2, <3>1
      <3>2. CASE i = j /\ c # b
        BY <1>1, <1>2, <2>2, <3>2
      <3>3. CASE i # j
        BY <1>1, <1>2, <2>2, <3>3
      <3> QED
        BY <3>1, <3>2, <3>3
    <2> QED
      BY <2>1, <2>2
  <1> QED
    BY <1>2


\* Without overlapping deliveries no step sends a form again.
LEMMA FormOnceStep ==
  ASSUME "overlap" \notin Events, "manual" \notin Events
  PROVE  TypeOK /\ Placed /\ Unasked /\ Forward /\ OneMessage /\ FormOnce /\ [Next]_vars
         => FormOnce'
  <1> SUFFICES ASSUME TypeOK, Placed, Unasked, Forward, OneMessage, FormOnce, [Next]_vars
               PROVE  FormOnce'
    OBVIOUS
  <1>1. ASSUME NEW j \in Jobs, Admit(j)
        PROVE  FormOnce'
    <2>1. UNCHANGED <<sent, status, item, pc, job, current>>
      BY <1>1 DEF Admit, rows, record, sessions
    <2> QED
      BY <2>1, FormOnceKept
  <1>2. ASSUME NEW j \in Jobs, NEW selected \in SUBSET Brokers, NEW preview \in BOOLEAN, Store(j,
               selected, preview)
        PROVE  FormOnce'
    <2>1. UNCHANGED <<sent, pc, job, current>>
      BY <1>2 DEF Store, record, sessions
    <2>2. \A i \in Jobs : status'[i] = "absent" => status[i] = "absent"
      BY <1>2 DEF Store, TypeOK
    <2>3. status[j] = "absent" /\ \A i \in Jobs \ {j} : item'[i] = item[i]
      BY <1>2 DEF Store, Placed, TypeOK
    <2> QED
      BY <2>1, <2>2, <2>3, FormOnceKept
  <1>3. ASSUME NEW j \in Jobs, Enqueue(j)
        PROVE  FormOnce'
    <2>1. UNCHANGED <<sent, status, item, pc, job, current>>
      BY <1>3 DEF Enqueue, rows, record, sessions
    <2> QED
      BY <2>1, FormOnceKept
  <1>4. ASSUME NEW j \in Jobs, LoseEnqueue(j)
        PROVE  FormOnce'
    <2>1. UNCHANGED <<sent, status, item, pc, job, current>>
      BY <1>4 DEF LoseEnqueue, rows, record, sessions
    <2> QED
      BY <2>1, FormOnceKept
  <1>5. ASSUME NEW j \in Jobs, CancelLoad(j)
        PROVE  FormOnce'
    <2>1. UNCHANGED <<sent, status, item, pc, job, current>>
      BY <1>5 DEF CancelLoad, rows, record, sessions
    <2> QED
      BY <2>1, FormOnceKept
  <1>6. ASSUME NEW j \in Jobs, CancelCommit(j)
        PROVE  FormOnce'
    <2>1. UNCHANGED <<sent, pc, job, current>>
      BY <1>6 DEF CancelCommit, record, sessions
    <2>2. \A i \in Jobs : status'[i] = "absent" => status[i] = "absent"
      BY <1>6 DEF CancelCommit, TypeOK
    <2>3. \A i \in Jobs, c \in Brokers : item'[i][c] = "pending" => item[i][c] = "pending"
      <3>1. item' = [item EXCEPT ![j] =
                       [c \in Brokers |->
                          IF cancelItem[j][c] \in {"pending", "running", "captcha_needed"}
                          THEN "cancelled" ELSE item[j][c]]]
        BY <1>6 DEF CancelCommit
      <3>2. ASSUME NEW i \in Jobs, NEW c \in Brokers, item'[i][c] = "pending"
            PROVE  item[i][c] = "pending"
        <4>1. CASE i = j
          BY <3>1, <3>2, <4>1 DEF TypeOK
        <4>2. CASE i # j
          BY <3>1, <3>2, <4>2 DEF TypeOK
        <4> QED
          BY <4>1, <4>2
      <3> QED
        BY <3>2
    <2> QED
      BY <2>1, <2>2, <2>3, FormOnceKept
  <1>7. ASSUME NEW r \in Requests, NEW j \in Jobs, NEW b \in Brokers, ManualLoad(r, j, b)
        PROVE  FormOnce'
    BY <1>7 DEF ManualLoad
  <1>8. ASSUME NEW r \in Requests, NEW st \in ManualStatus, ManualCommit(r, st)
        PROVE  FormOnce'
    <2>1. r \in Executors /\ pc[r] = "manual"
      BY <1>8 DEF ManualCommit, Executors
    <2> QED
      BY <2>1 DEF OneMessage
  <1>9. ASSUME NEW j \in Jobs, NEW b \in Brokers, CaptchaAges(j, b)
        PROVE  FormOnce'
    <2>1. UNCHANGED <<sent, status, item, pc, job, current>>
      BY <1>9 DEF CaptchaAges, rows, record, sessions
    <2> QED
      BY <2>1, FormOnceKept
  <1>10. ASSUME NEW j \in Jobs, NEW b \in Brokers, NEW reply \in {"skipped", "expired"},
                DropCaptcha(j, b, reply)
        PROVE  FormOnce'
    <2>1. UNCHANGED <<sent, status, item, pc, job, current>>
      BY <1>10 DEF DropCaptcha, rows, record, sessions
    <2> QED
      BY <2>1, FormOnceKept
  <1>11. ASSUME NEW j \in Jobs, NEW b \in Brokers, SolveCaptcha(j, b)
        PROVE  FormOnce'
    <2>1. UNCHANGED <<sent, status, item, pc, job, current>>
      BY <1>11, CaptchaRefused DEF SolveCaptcha, sessions
    <2> QED
      BY <2>1, FormOnceKept
  <1>12. ASSUME NEW w \in Workers, NEW j \in Jobs, Take(w, j)
        PROVE  FormOnce'
    <2>1. UNCHANGED <<sent, status, item, current>>
      BY <1>12 DEF Take, rows, record
    <2>2. \A d \in Executors :
            pc'[d] \in {"checked", "calling"} =>
              pc'[d] = pc[d] /\ job'[d] = job[d] /\ current'[d] = current[d]
      BY <1>12, <2>1, ZenonT(60) DEF Take, Load, Executors, TypeOK
    <2> QED
      BY <2>1, <2>2, FormOnceKept
  <1>13. ASSUME NEW e \in Executors, StartExpired(e)
        PROVE  FormOnce'
    <2>1. UNCHANGED <<sent, item>> /\ EndJob(e)
      BY <1>13 DEF StartExpired, record, rows
    <2>2. \A i \in Jobs : status'[i] = "absent" => status[i] = "absent"
      BY <1>13 DEF StartExpired, TypeOK
    <2>3. \A d \in Executors :
            pc'[d] \in {"checked", "calling"} =>
              pc'[d] = pc[d] /\ job'[d] = job[d] /\ current'[d] = current[d]
      BY <2>1, EndJobEffect
    <2> QED
      BY <2>1, <2>2, <2>3, FormOnceKept
  <1>14. ASSUME NEW e \in Executors, Start(e)
        PROVE  FormOnce'
    <2>1. UNCHANGED <<sent, item, job, current>>
      BY <1>14 DEF Start, record, rows
    <2>2. \A i \in Jobs : status'[i] = "absent" => status[i] = "absent"
      BY <1>14 DEF Start, TypeOK
    <2>3. \A d \in Executors :
            pc'[d] \in {"checked", "calling"} =>
              pc'[d] = pc[d] /\ job'[d] = job[d] /\ current'[d] = current[d]
      BY <1>14, <2>1 DEF Start, TypeOK
    <2> QED
      BY <2>1, <2>2, <2>3, FormOnceKept
  <1>15. ASSUME NEW e \in Executors, SeeCancelled(e)
        PROVE  FormOnce'
    <2>1. UNCHANGED <<sent, item>> /\ EndJob(e)
      BY <1>15 DEF SeeCancelled, record, rows
    <2>2. \A i \in Jobs : status'[i] = "absent" => status[i] = "absent"
      BY <1>15 DEF SeeCancelled, rows
    <2>3. \A d \in Executors :
            pc'[d] \in {"checked", "calling"} =>
              pc'[d] = pc[d] /\ job'[d] = job[d] /\ current'[d] = current[d]
      BY <2>1, EndJobEffect
    <2> QED
      BY <2>1, <2>2, <2>3, FormOnceKept
  <1>16. ASSUME NEW e \in Executors, SeeExpired(e)
        PROVE  FormOnce'
    <2>1. UNCHANGED <<sent, item>> /\ EndJob(e)
      BY <1>16 DEF SeeExpired, record, rows
    <2>2. \A i \in Jobs : status'[i] = "absent" => status[i] = "absent"
      BY <1>16 DEF SeeExpired, TypeOK
    <2>3. \A d \in Executors :
            pc'[d] \in {"checked", "calling"} =>
              pc'[d] = pc[d] /\ job'[d] = job[d] /\ current'[d] = current[d]
      BY <2>1, EndJobEffect
    <2> QED
      BY <2>1, <2>2, <2>3, FormOnceKept
  <1>17. ASSUME NEW e \in Executors, NEW b \in Brokers, PassOver(e, b)
        PROVE  FormOnce'
    <2>1. UNCHANGED <<sent, item, job, current>>
      BY <1>17 DEF PassOver, Proceed, record, rows
    <2>2. \A i \in Jobs : status'[i] = "absent" => status[i] = "absent"
      BY <1>17 DEF PassOver, Proceed, rows, TypeOK
    <2>3. \A d \in Executors :
            pc'[d] \in {"checked", "calling"} =>
              pc'[d] = pc[d] /\ job'[d] = job[d] /\ current'[d] = current[d]
      BY <1>17, <2>1 DEF PassOver, Proceed, TypeOK
    <2> QED
      BY <2>1, <2>2, <2>3, FormOnceKept
  <1>18. ASSUME NEW e \in Executors, NEW b \in Brokers, Select(e, b)
        PROVE  FormOnce'
    <2>1. UNCHANGED <<sent, item, status, job>> /\ item[job[e]][b] = "pending" /\ job[e] \in Jobs
      BY <1>18 DEF Select, Proceed, record, rows, Placed
    <2>2. /\ pc'[e] = "checked" /\ current'[e] = b
          /\ \A d \in Executors \ {e} : pc'[d] = pc[d] /\ current'[d] = current[d]
      BY <1>18 DEF Select, TypeOK
    <2>3. sent[job[e]][b] = 0
      <3>1. sent \in [Jobs -> [Brokers -> Nat]]
        BY DEF TypeOK
      <3>2. ~(sent[job[e]][b] > 0)
        BY <2>1 DEF FormOnce
      <3> QED
        BY <2>1, <3>1, <3>2
    <2> QED
      BY <2>1, <2>2, <2>3 DEF FormOnce
  <1>19. ASSUME NEW e \in Executors, NEW st \in {"error", "skipped_fresh"}, SettleWithoutRun(e,
                st)
        PROVE  FormOnce'
    <2>1. /\ job[e] \in Jobs /\ current[e] \in Brokers /\ sent' = sent
          /\ item' = [item EXCEPT ![job[e]][current[e]] = st] /\ st # "pending"
      BY <1>19 DEF SettleWithoutRun, WriteItem, Placed, record
    <2>2. \A i \in Jobs, c \in Brokers :
            item'[i][c] = "pending" => item[i][c] = "pending" \/ status[i] = "absent"
      BY <2>1, ItemSettled
    <2>3. \A i \in Jobs : status'[i] = "absent" => status[i] = "absent"
      BY <1>19, <2>1 DEF SettleWithoutRun, WriteJob, TypeOK
    <2>4. \A d \in Executors :
            pc'[d] \in {"checked", "calling"} =>
              pc'[d] = pc[d] /\ job'[d] = job[d] /\ current'[d] = current[d]
      BY <1>19 DEF SettleWithoutRun, NextItem, TypeOK
    <2> QED
      BY <2>1, <2>2, <2>3, <2>4, FormOnceKept
  <1>20. ASSUME NEW e \in Executors, Begin(e)
        PROVE  FormOnce'
    <2>1. /\ job[e] \in Jobs /\ current[e] \in Brokers /\ pc[e] = "checked"
          /\ UNCHANGED <<sent, status, job, current>>
          /\ item' = [item EXCEPT ![job[e]][current[e]] = "running"]
      BY <1>20 DEF Begin, WriteItem, Placed, record
    <2>2. \A i \in Jobs, c \in Brokers : item'[i][c] = "pending" => item[i][c] = "pending"
      BY <2>1, ItemSettled
    <2>3. sent[job[e]][current[e]] = 0 /\ item'[job[e]][current[e]] # "pending"
      BY <2>1, ZenonT(60) DEF FormOnce, TypeOK
    <2>4. pc'[e] = "calling" /\ \A d \in Executors \ {e} : pc'[d] = pc[d]
      BY <1>20 DEF Begin, TypeOK
    <2>5. \A d \in Executors :
            pc[d] \in {"checked", "calling"} => job[d] \in Jobs /\ current[d] \in Brokers
      BY DEF Placed
    <2>6. \A i \in Jobs, c \in Brokers :
            /\ sent'[i][c] <= 1
            /\ status'[i] = "absent" => sent'[i][c] = 0
            /\ sent'[i][c] > 0 => item'[i][c] # "pending"
      BY <2>1, <2>2 DEF FormOnce
    <2>7. \A d \in Executors :
            /\ pc'[d] \in {"checked", "calling"} => sent'[job'[d]][current'[d]] = 0
            /\ pc'[d] = "calling" => item'[job'[d]][current'[d]] # "pending"
      BY <2>1, <2>2, <2>3, <2>4, <2>5 DEF FormOnce
    <2> QED
      BY <2>6, <2>7 DEF FormOnce
  <1>21. ASSUME NEW e \in Executors, NEW o \in RunnerResult, NEW formSent \in BOOLEAN,
                RunBroker(e, o, formSent)
        PROVE  FormOnce'
    <2>1. /\ job[e] \in Jobs /\ current[e] \in Brokers /\ pc[e] = "calling"
          /\ UNCHANGED <<item, status, job, current>>
          /\ \A d \in Executors \ {e} : pc'[d] = pc[d]
      BY <1>21 DEF RunBroker, rows, Placed, TypeOK
    <2>2. pc'[e] \notin {"checked", "calling"}
      BY <1>21 DEF RunBroker, TypeOK
    <2>3. /\ sent[job[e]][current[e]] = 0 /\ item[job[e]][current[e]] # "pending"
          /\ status[job[e]] # "absent"
          /\ \A d \in Executors \ {e} : job[d] # job[e]
      BY <2>1 DEF FormOnce, OneMessage, Placed
    <2>4. CASE ~formSent
      <3>1. sent' = sent
        BY <1>21, <2>4 DEF RunBroker
      <3>2. \A d \in Executors :
              pc'[d] \in {"checked", "calling"} =>
                pc'[d] = pc[d] /\ job'[d] = job[d] /\ current'[d] = current[d]
        BY <2>1, <2>2
      <3> QED
        BY <2>1, <3>1, <3>2, FormOnceKept
    <2>5. CASE formSent
      <3>1. sent' = [sent EXCEPT ![job[e]][current[e]] = @ + 1]
        BY <1>21, <2>5 DEF RunBroker
      <3>2. /\ sent'[job[e]][current[e]] = 1
            /\ \A i \in Jobs, c \in Brokers :
                 i # job[e] \/ c # current[e] => sent'[i][c] = sent[i][c]
        <4>1. /\ sent'[job[e]][current[e]] = sent[job[e]][current[e]] + 1
              /\ \A i \in Jobs, c \in Brokers :
                   i # job[e] \/ c # current[e] => sent'[i][c] = sent[i][c]
          BY <2>1, <3>1, SentOnce
        <4> QED
          BY <2>3, <4>1
      <3>3. ASSUME NEW i \in Jobs, NEW c \in Brokers
            PROVE  /\ sent'[i][c] <= 1
                   /\ status'[i] = "absent" => sent'[i][c] = 0
                   /\ sent'[i][c] > 0 => item'[i][c] # "pending"
        BY <2>1, <2>3, <3>2 DEF FormOnce
      <3>4. ASSUME NEW d \in Executors, pc'[d] \in {"checked", "calling"}
            PROVE  /\ sent'[job'[d]][current'[d]] = 0
                   /\ pc'[d] = "calling" => item'[job'[d]][current'[d]] # "pending"
        <4>1. d # e /\ pc'[d] = pc[d] /\ job[d] \in Jobs /\ current[d] \in Brokers
          BY <2>1, <2>2, <3>4 DEF Placed
        <4> QED
          BY <2>1, <2>3, <3>2, <3>4, <4>1 DEF FormOnce
      <3> QED
        BY <3>3, <3>4 DEF FormOnce
    <2> QED
      BY <2>4, <2>5
  <1>22. ASSUME NEW e \in Executors, NEW v \in VerifyResult, VerifyRemoval(e, v)
        PROVE  FormOnce'
    <2>1. UNCHANGED <<sent, item, job, current>>
      BY <1>22 DEF VerifyRemoval, record, rows
    <2>2. \A i \in Jobs : status'[i] = "absent" => status[i] = "absent"
      BY <1>22 DEF VerifyRemoval, rows, TypeOK
    <2>3. \A d \in Executors :
            pc'[d] \in {"checked", "calling"} =>
              pc'[d] = pc[d] /\ job'[d] = job[d] /\ current'[d] = current[d]
      BY <1>22, <2>1 DEF VerifyRemoval, TypeOK
    <2> QED
      BY <2>1, <2>2, <2>3, FormOnceKept
  <1>23. ASSUME NEW e \in Executors, RecordResult(e)
        PROVE  FormOnce'
    <2>1. /\ job[e] \in Jobs /\ current[e] \in Brokers /\ sent' = sent
          /\ item' = [item EXCEPT ![job[e]][current[e]] = outcome[e]] /\ outcome[e] # "pending"
      BY <1>23 DEF RecordResult, WriteItem, Placed, RunnerResult, VerifyResult, TypeOK
    <2>2. \A i \in Jobs, c \in Brokers :
            item'[i][c] = "pending" => item[i][c] = "pending" \/ status[i] = "absent"
      BY <2>1, ItemSettled
    <2>3. \A i \in Jobs : status'[i] = "absent" => status[i] = "absent"
      BY <1>23, <2>1 DEF RecordResult, WriteJob, TypeOK
    <2>4. \A d \in Executors :
            pc'[d] \in {"checked", "calling"} =>
              pc'[d] = pc[d] /\ job'[d] = job[d] /\ current'[d] = current[d]
      BY <1>23 DEF RecordResult, NextItem, TypeOK
    <2> QED
      BY <2>1, <2>2, <2>3, <2>4, FormOnceKept
  <1>24. ASSUME NEW e \in Executors, RecordCaptcha(e)
        PROVE  FormOnce'
    <2>1. /\ job[e] \in Jobs /\ current[e] \in Brokers /\ sent' = sent
          /\ item' = [item EXCEPT ![job[e]][current[e]] = "captcha_needed"]
          /\ "captcha_needed" # "pending"
      BY <1>24 DEF RecordCaptcha, WriteItem, Placed, record
    <2>2. \A i \in Jobs, c \in Brokers :
            item'[i][c] = "pending" => item[i][c] = "pending" \/ status[i] = "absent"
      BY <2>1, ItemSettled
    <2>3. \A i \in Jobs : status'[i] = "absent" => status[i] = "absent"
      BY <1>24, <2>1 DEF RecordCaptcha, WriteJob, TypeOK
    <2>4. \A d \in Executors :
            pc'[d] \in {"checked", "calling"} =>
              pc'[d] = pc[d] /\ job'[d] = job[d] /\ current'[d] = current[d]
      BY <1>24 DEF RecordCaptcha, NextItem, TypeOK
    <2> QED
      BY <2>1, <2>2, <2>3, <2>4, FormOnceKept
  <1>25. ASSUME NEW e \in Executors, LeaveLoop(e)
        PROVE  FormOnce'
    <2>1. UNCHANGED <<sent, item, job, current>>
      BY <1>25 DEF LeaveLoop, record, rows
    <2>2. \A i \in Jobs : status'[i] = "absent" => status[i] = "absent"
      BY <1>25 DEF LeaveLoop, rows, TypeOK
    <2>3. \A d \in Executors :
            pc'[d] \in {"checked", "calling"} =>
              pc'[d] = pc[d] /\ job'[d] = job[d] /\ current'[d] = current[d]
      BY <1>25, <2>1 DEF LeaveLoop, TypeOK
    <2> QED
      BY <2>1, <2>2, <2>3, FormOnceKept
  <1>26. ASSUME NEW e \in Executors, Finalize(e)
        PROVE  FormOnce'
    <2>1. UNCHANGED <<sent, item>> /\ EndJob(e)
      BY <1>26 DEF Finalize, record, rows
    <2>2. \A i \in Jobs : status'[i] = "absent" => status[i] = "absent"
      <3>1. status' \in {status, [status EXCEPT ![job[e]] = Verdict(e)]}
        BY <1>26 DEF Finalize, WriteJob
      <3>2. Verdict(e) # "absent"
        BY VerdictType DEF JobStatus, ActiveJob, TerminalJob, WaitingJob
      <3> QED
        BY <3>1, <3>2 DEF TypeOK
    <2>3. \A d \in Executors :
            pc'[d] \in {"checked", "calling"} =>
              pc'[d] = pc[d] /\ job'[d] = job[d] /\ current'[d] = current[d]
      BY <2>1, EndJobEffect
    <2> QED
      BY <2>1, <2>2, <2>3, FormOnceKept
  <1>27. ASSUME NEW e \in Executors, Crash(e)
        PROVE  FormOnce'
    <2>1. UNCHANGED <<sent, item>> /\ EndJob(e)
      BY <1>27 DEF Crash, record, rows
    <2>2. \A i \in Jobs : status'[i] = "absent" => status[i] = "absent"
      BY <1>27 DEF Crash, rows
    <2>3. \A d \in Executors :
            pc'[d] \in {"checked", "calling"} =>
              pc'[d] = pc[d] /\ job'[d] = job[d] /\ current'[d] = current[d]
      BY <2>1, EndJobEffect
    <2> QED
      BY <2>1, <2>2, <2>3, FormOnceKept
  <1>28. ASSUME NEW e \in Executors, TaskFails(e)
        PROVE  FormOnce'
    <2>1. UNCHANGED <<sent, item>> /\ EndJob(e)
      BY <1>28 DEF TaskFails, record, rows
    <2>2. \A i \in Jobs : status'[i] = "absent" => status[i] = "absent"
      BY <1>28 DEF TaskFails, rows
    <2>3. \A d \in Executors :
            pc'[d] \in {"checked", "calling"} =>
              pc'[d] = pc[d] /\ job'[d] = job[d] /\ current'[d] = current[d]
      BY <2>1, EndJobEffect
    <2> QED
      BY <2>1, <2>2, <2>3, FormOnceKept
  <1>29. ASSUME NEW e \in Executors, Redeliver(e)
        PROVE  FormOnce'
    BY <1>29 DEF Redeliver
  <1>30. ASSUME NEW j \in Jobs, DeadlinePasses(j)
        PROVE  FormOnce'
    <2>1. UNCHANGED <<sent, status, item, pc, job, current>>
      BY <1>30 DEF DeadlinePasses, rows, record, sessions
    <2> QED
      BY <2>1, FormOnceKept
  <1>31. ASSUME UNCHANGED vars
        PROVE  FormOnce'
    <2>1. UNCHANGED <<sent, status, item, pc, job, current>>
      BY <1>31 DEF vars, rows, record, sessions
    <2> QED
      BY <2>1, FormOnceKept
  <1> QED
    BY <1>1, <1>2, <1>3, <1>4, <1>5, <1>6, <1>7, <1>8, <1>9, <1>10, <1>11, <1>12, <1>13, <1>14,
       <1>15, <1>16, <1>17, <1>18, <1>19, <1>20, <1>21, <1>22, <1>23, <1>24, <1>25, <1>26, <1>27,
       <1>28, <1>29, <1>30, <1>31
    DEF Next, Create, Cancel, ReportManual, Captcha, ExecuteJob, Fault, ManualStatus

-----------------------------------------------------------------------------
(* Ledger rows. *)

\* What keeps every result held, and takes nothing back, keeps what was run recorded.
LEMMA RecordedKept ==
  ASSUME TypeOK, Recorded,
         \A j \in Jobs : \A b \in ran'[j] : b \in ran[j] \/ \E e \in Executors : Holds(e, j, b)',
         \A j \in Jobs : ledger[j] \subseteq ledger'[j],
         \A j \in Jobs, b \in Brokers : captcha[j][b] # "none" => captcha'[j][b] # "none",
         \A e \in Executors, j \in Jobs, b \in Brokers :
           Holds(e, j, b) =>
             Holds(e, j, b)' \/ b \in ledger'[j] \/ captcha'[j][b] # "none"
  PROVE  Recorded'
  <1>1. ran \in [Jobs -> SUBSET Brokers]
    BY DEF TypeOK
  <1>2. SUFFICES ASSUME NEW j \in Jobs, NEW b \in ran'[j],
                        ~ \E e \in Executors : Holds(e, j, b)'
                 PROVE  b \in ledger'[j] \/ captcha'[j][b] # "none"
    BY DEF Recorded
  <1>3. b \in ran[j] /\ b \in Brokers
    BY <1>1, <1>2
  <1>4. b \in ledger[j] \/ captcha[j][b] # "none" \/ \E e \in Executors : Holds(e, j, b)
    BY <1>3 DEF Recorded
  <1> QED
    BY <1>2, <1>3, <1>4

\* ... in particular a step that runs nothing and leaves alone who holds a result.
LEMMA RecordedAsBefore ==
  ASSUME TypeOK, Recorded, ran' = ran, ledger' = ledger,
         \A j \in Jobs, b \in Brokers : captcha[j][b] # "none" => captcha'[j][b] # "none",
         \A e \in Executors :
           pc[e] \in {"verifying", "called"} =>
             pc'[e] \in {"verifying", "called"} /\ job'[e] = job[e] /\ current'[e] = current[e]
  PROVE  Recorded'
BY RecordedKept DEF Holds

\* While no executor dies or fails, no result is dropped before it is written.
LEMMA RecordedStep ==
  ASSUME "crash" \notin Events, "fail" \notin Events
  PROVE  TypeOK /\ Placed /\ Recorded /\ [Next]_vars => Recorded'
  <1> SUFFICES ASSUME TypeOK, Placed, Recorded, [Next]_vars PROVE Recorded'
    OBVIOUS
  <1>1. ASSUME NEW j \in Jobs, Admit(j)
        PROVE  Recorded'
    BY <1>1, RecordedAsBefore DEF Admit, TypeOK, rows, sessions, cancels, record
  <1>2. ASSUME NEW j \in Jobs, NEW selected \in SUBSET Brokers, NEW preview \in BOOLEAN,
               Store(j, selected, preview)
        PROVE  Recorded'
    BY <1>2, RecordedAsBefore DEF Store, TypeOK, sessions, cancels, record
  <1>3. ASSUME NEW j \in Jobs, Enqueue(j)
        PROVE  Recorded'
    BY <1>3, RecordedAsBefore DEF Enqueue, TypeOK, rows, sessions, cancels, record
  <1>4. ASSUME NEW j \in Jobs, LoseEnqueue(j)
        PROVE  Recorded'
    BY <1>4, RecordedAsBefore DEF LoseEnqueue, TypeOK, rows, sessions, cancels, record
  <1>5. ASSUME NEW j \in Jobs, CancelLoad(j)
        PROVE  Recorded'
    BY <1>5, RecordedAsBefore DEF CancelLoad, TypeOK, rows, broker, sessions, record
  <1>6. ASSUME NEW j \in Jobs, CancelCommit(j)
        PROVE  Recorded'
    BY <1>6, RecordedAsBefore DEF CancelCommit, TypeOK, broker, sessions, record
  <1>7. ASSUME NEW r \in Requests, NEW j \in Jobs, NEW b \in Brokers, ManualLoad(r, j, b)
        PROVE  Recorded'
    BY <1>7, RecordedAsBefore
    DEF ManualLoad, Load, Executors, TypeOK, rows, broker, cancels, record
  <1>8. ASSUME NEW r \in Requests, NEW st \in ManualStatus, ManualCommit(r, st)
        PROVE  Recorded'
    BY <1>8, RecordedAsBefore, ZenonT(60)
    DEF ManualCommit, EndJob, Executors, TypeOK, broker, cancels, record
  <1>9. ASSUME NEW j \in Jobs, NEW b \in Brokers, CaptchaAges(j, b)
        PROVE  Recorded'
    BY <1>9, RecordedAsBefore DEF CaptchaAges, TypeOK, broker, sessions, cancels, record
  <1>10. ASSUME NEW j \in Jobs, NEW b \in Brokers, NEW reply \in {"skipped", "expired"},
                DropCaptcha(j, b, reply)
        PROVE  Recorded'
    BY <1>10, RecordedAsBefore DEF DropCaptcha, TypeOK, broker, sessions, cancels
  <1>11. ASSUME NEW j \in Jobs, NEW b \in Brokers, SolveCaptcha(j, b)
        PROVE  Recorded'
    <2>1. \A i \in Jobs, c \in Brokers : captcha[i][c] # "none" => captcha'[i][c] # "none"
      <3>1. captcha' = captcha \/ captcha' = [captcha EXCEPT ![j][b] = "solved"]
        BY <1>11 DEF SolveCaptcha
      <3>2. captcha \in [Jobs -> [Brokers -> {"none", "pending", "overdue", "solved", "skipped",
                                             "expired"}]]
        BY DEF TypeOK
      <3> QED
        BY <3>1, <3>2
    <2> QED
      BY <1>11, <2>1, RecordedAsBefore DEF SolveCaptcha, sessions
  <1>12. ASSUME NEW w \in Workers, NEW j \in Jobs, Take(w, j)
        PROVE  Recorded'
    BY <1>12, RecordedAsBefore DEF Take, Load, Executors, TypeOK, rows, cancels, record
  <1>13. ASSUME NEW e \in Executors, StartExpired(e)
        PROVE  Recorded'
    BY <1>13, RecordedAsBefore DEF StartExpired, EndJob, TypeOK, broker, cancels, record
  <1>14. ASSUME NEW e \in Executors, Start(e)
        PROVE  Recorded'
    BY <1>14, RecordedAsBefore DEF Start, TypeOK, broker, cancels, record
  <1>15. ASSUME NEW e \in Executors, SeeCancelled(e)
        PROVE  Recorded'
    BY <1>15, RecordedAsBefore DEF SeeCancelled, EndJob, TypeOK, rows, broker, cancels, record
  <1>16. ASSUME NEW e \in Executors, SeeExpired(e)
        PROVE  Recorded'
    BY <1>16, RecordedAsBefore DEF SeeExpired, EndJob, TypeOK, broker, cancels, record
  <1>17. ASSUME NEW e \in Executors, NEW b \in Brokers, PassOver(e, b)
        PROVE  Recorded'
    BY <1>17, RecordedAsBefore DEF PassOver, Proceed, TypeOK, rows, broker, cancels, record
  <1>18. ASSUME NEW e \in Executors, NEW b \in Brokers, Select(e, b)
        PROVE  Recorded'
    BY <1>18, RecordedAsBefore DEF Select, Proceed, TypeOK, rows, broker, cancels, record
  <1>19. ASSUME NEW e \in Executors, NEW st \in {"error", "skipped_fresh"},
                SettleWithoutRun(e, st)
        PROVE  Recorded'
    BY <1>19, RecordedAsBefore DEF SettleWithoutRun, NextItem, TypeOK, broker, cancels, record
  <1>20. ASSUME NEW e \in Executors, Begin(e)
        PROVE  Recorded'
    BY <1>20, RecordedAsBefore DEF Begin, TypeOK, broker, cancels, record
  <1>21. ASSUME NEW e \in Executors, NEW o \in RunnerResult, NEW formSent \in BOOLEAN,
                RunBroker(e, o, formSent)
        PROVE  Recorded'
    <2>1. Holds(e, job[e], current[e])'
      BY <1>21 DEF RunBroker, Holds, TypeOK, sessions
    <2>2. \A j \in Jobs : \A b \in ran'[j] : b \in ran[j] \/ (j = job[e] /\ b = current[e])
      BY <1>21 DEF RunBroker, TypeOK
    <2>3. \A d \in Executors, j \in Jobs, b \in Brokers : Holds(d, j, b) => Holds(d, j, b)'
      BY <1>21 DEF RunBroker, Holds, TypeOK
    <2> QED
      BY <1>21, <2>1, <2>2, <2>3, RecordedKept DEF RunBroker, rows
  <1>22. ASSUME NEW e \in Executors, NEW v \in VerifyResult, VerifyRemoval(e, v)
        PROVE  Recorded'
    BY <1>22, RecordedAsBefore DEF VerifyRemoval, TypeOK, rows, broker, cancels, record
  <1>23. ASSUME NEW e \in Executors, RecordResult(e)
        PROVE  Recorded'
    <2>1. /\ job[e] \in Jobs => current[e] \in ledger'[job[e]]
          /\ \A j \in Jobs : ledger[j] \subseteq ledger'[j]
      BY <1>23 DEF RecordResult, RecordEgress, TypeOK
    <2>2. \A d \in Executors, j \in Jobs, b \in Brokers :
            Holds(d, j, b) => Holds(d, j, b)' \/ (j = job[e] /\ b = current[e])
      BY <1>23 DEF RecordResult, NextItem, Holds, TypeOK
    <2> QED
      BY <1>23, <2>1, <2>2, RecordedKept DEF RecordResult
  <1>24. ASSUME NEW e \in Executors, RecordCaptcha(e)
        PROVE  Recorded'
    <2>1. /\ job[e] \in Jobs /\ current[e] \in Brokers
             => captcha'[job[e]][current[e]] # "none"
          /\ \A j \in Jobs, b \in Brokers : captcha[j][b] # "none" => captcha'[j][b] # "none"
      <3>1. captcha' = [captcha EXCEPT ![job[e]][current[e]] = "pending"]
        BY <1>24 DEF RecordCaptcha
      <3>2. captcha \in [Jobs -> [Brokers -> {"none", "pending", "overdue", "solved", "skipped",
                                             "expired"}]]
        BY DEF TypeOK
      <3> QED
        BY <3>1, <3>2
    <2>2. \A d \in Executors, j \in Jobs, b \in Brokers :
            Holds(d, j, b) => Holds(d, j, b)' \/ (j = job[e] /\ b = current[e])
      BY <1>24 DEF RecordCaptcha, NextItem, Holds, TypeOK
    <2> QED
      BY <1>24, <2>1, <2>2, RecordedKept DEF RecordCaptcha, record
  <1>25. ASSUME NEW e \in Executors, LeaveLoop(e)
        PROVE  Recorded'
    BY <1>25, RecordedAsBefore DEF LeaveLoop, TypeOK, rows, broker, cancels, record
  <1>26. ASSUME NEW e \in Executors, Finalize(e)
        PROVE  Recorded'
    BY <1>26, RecordedAsBefore DEF Finalize, EndJob, TypeOK, broker, cancels, record
  <1>27. ASSUME NEW e \in Executors, Crash(e)
        PROVE  Recorded'
    BY <1>27 DEF Crash
  <1>28. ASSUME NEW e \in Executors, TaskFails(e)
        PROVE  Recorded'
    BY <1>28 DEF TaskFails
  <1>29. ASSUME NEW e \in Executors, Redeliver(e)
        PROVE  Recorded'
    BY <1>29, RecordedAsBefore DEF Redeliver, TypeOK, rows, cancels, record
  <1>30. ASSUME NEW j \in Jobs, DeadlinePasses(j)
        PROVE  Recorded'
    BY <1>30, RecordedAsBefore DEF DeadlinePasses, TypeOK, rows, broker, sessions, cancels, record
  <1>31. ASSUME UNCHANGED vars
        PROVE  Recorded'
    BY <1>31, RecordedAsBefore DEF vars, TypeOK, rows, broker, sessions, cancels, record
  <1> QED
    BY <1>1, <1>2, <1>3, <1>4, <1>5, <1>6, <1>7, <1>8, <1>9, <1>10, <1>11, <1>12, <1>13, <1>14,
       <1>15, <1>16, <1>17, <1>18, <1>19, <1>20, <1>21, <1>22, <1>23, <1>24, <1>25, <1>26, <1>27,
       <1>28, <1>29, <1>30, <1>31
    DEF Next, Create, Cancel, ReportManual, Captcha, ExecuteJob, Fault, ManualStatus

-----------------------------------------------------------------------------
(* The theorems. *)

\* Initially nothing is stored, queued or at work.
LEMMA InitHolds ==
  Init => TypeOK /\ Placed /\ Unasked /\ Honest /\ Forward /\ OneMessage /\ FormOnce
  <1> SUFFICES ASSUME Init
               PROVE  TypeOK /\ Placed /\ Unasked /\ Honest /\ Forward /\ OneMessage /\ FormOnce
    OBVIOUS
  <1>1. TypeOK
    BY DEF Init, TypeOK, Stage, JobStatus, ActiveJob, NoItems, ItemRow, RunnerResult
  <1>2. Placed /\ Unasked
    BY RemediationAssumption DEF Init, Placed, Unasked
  <1>3. Honest /\ Forward
    BY DEF Init, Honest, NoFalseRemoval, NoItems, NotSelected, Forward
  <1>4. OneMessage /\ FormOnce
    BY DEF Init, OneMessage, FormOnce
  <1> QED
    BY <1>1, <1>2, <1>3, <1>4

\* Every variable keeps its type, with any number of jobs, brokers and workers and
\* under every fault.
THEOREM TypesKept == Spec => []TypeOK
  <1>1. TypeOK /\ Placed /\ Unasked /\ [Next]_vars => (TypeOK /\ Placed /\ Unasked)'
    BY TypeStep, PlacedStep, UnaskedStep
  <1> QED
    BY <1>1, InitHolds, PTL DEF Spec

\* No item is reported VERIFIED_REMOVED unless its job sent the form and the broker
\* accepted a submission, whatever is cancelled, redelivered, reported or lost.
THEOREM RemovalsAreReal == Spec => []NoFalseRemoval
  <1>1. /\ TypeOK /\ Placed /\ Unasked /\ Honest /\ [Next]_vars
        => (TypeOK /\ Placed /\ Unasked /\ Honest)'
    BY TypeStep, PlacedStep, UnaskedStep, HonestStep
  <1>2. Honest => NoFalseRemoval
    BY DEF Honest
  <1> QED
    BY <1>1, <1>2, InitHolds, PTL DEF Spec

\* While no message is delivered beside the worker that holds it and no user reports
\* a manual step, a job sends a broker's form at most once: crashes, lost messages,
\* cancellations and deadlines included.
THEOREM FormsAreSentOnce ==
  ASSUME "overlap" \notin Events, "manual" \notin Events
  PROVE  Spec => []OneFormPerItem
  <1> DEFINE Inv == TypeOK /\ Placed /\ Unasked /\ Forward /\ OneMessage /\ FormOnce
  <1>1. Inv /\ [Next]_vars => Inv'
    BY TypeStep, PlacedStep, UnaskedStep, ForwardStep, OneMessageStep, FormOnceStep
  <1>2. Inv => OneFormPerItem
    BY DEF FormOnce, OneFormPerItem
  <1>3. Init => Inv
    BY InitHolds
  <1> QED
    BY <1>1, <1>2, <1>3, PTL DEF Spec

\* As long as no executor dies and no task fails, a broker the browser was run for has
\* its row in the egress ledger, or a captcha, as soon as its job is not executed any
\* more: overlapping deliveries, manual reports, cancellations and deadlines included.
THEOREM RunsAreLedgered ==
  ASSUME "crash" \notin Events, "fail" \notin Events
  PROVE  Spec => []BrokerRunIsLedgered
  <1> DEFINE Inv == TypeOK /\ Placed /\ Unasked /\ Recorded
  <1>1. Inv /\ [Next]_vars => Inv'
    BY TypeStep, PlacedStep, UnaskedStep, RecordedStep
  <1>2. Recorded => BrokerRunIsLedgered
    BY DEF Recorded, Holds, BrokerRunIsLedgered, InFlight
  <1>3. Init => Inv
    BY InitHolds DEF Init, Recorded
  <1> QED
    BY <1>1, <1>2, <1>3, PTL DEF Spec

-----------------------------------------------------------------------------
(* Finished jobs are settled. *)

\* The job statuses that claim the items were worked off.
Finished == {"completed", "partial", "failed"}

\* A job has not finished before its executor has, its executor's copies are its items
\* but for those a cancellation closed, and a finished job has no item left to run.
Settling ==
  /\ \A e \in Executors : pc[e] # "idle" => status[job[e]] \notin Finished
  /\ \A e \in Executors, b \in Brokers :
       pc[e] # "idle" => item[job[e]][b] \in {memItem[e][b], "cancelled"}
  /\ \A j \in Jobs, b \in Brokers :
       status[j] \in Finished => item[j][b] \notin {"pending", "running"}

\* Ending a job leaves the copies of the other executors.
LEMMA EndJobCopies ==
  ASSUME TypeOK, NEW e \in Executors, EndJob(e)
  PROVE  \A d \in Executors \ {e} : memItem'[d] = memItem[d]
BY DEF EndJob, TypeOK

\* A step that finishes no job, reopens no item of a finished one, and keeps the copies
\* of the executors at work.
LEMMA SettlingKept ==
  ASSUME Placed, Settling,
         \A j \in Jobs : status'[j] \in Finished => status[j] \in Finished,
         \A j \in Jobs, b \in Brokers :
           status[j] \in Finished => item'[j][b] \in {item[j][b], "cancelled"},
         \A d \in Executors :
           pc'[d] # "idle" =>
             /\ pc[d] # "idle" /\ job'[d] = job[d]
             /\ \A b \in Brokers : item'[job[d]][b] \in {memItem'[d][b], "cancelled"}
  PROVE  Settling'
  <1>1. ASSUME NEW d \in Executors, pc'[d] # "idle"
        PROVE  status'[job'[d]] \notin Finished
    <2>1. pc[d] # "idle" /\ job'[d] = job[d] /\ job[d] \in Jobs
      BY <1>1 DEF Placed
    <2> QED
      BY <2>1 DEF Settling
  <1>2. \A d \in Executors, b \in Brokers :
          pc'[d] # "idle" => item'[job'[d]][b] \in {memItem'[d][b], "cancelled"}
    OBVIOUS
  <1>3. \A j \in Jobs, b \in Brokers :
          status'[j] \in Finished => item'[j][b] \notin {"pending", "running"}
    BY DEF Settling
  <1> QED
    BY <1>1, <1>2, <1>3 DEF Settling

\* An executor that ends without finishing its job.
LEMMA SettlingEnd ==
  ASSUME TypeOK, Placed, Settling, NEW e \in Executors, EndJob(e), UNCHANGED item,
         \A j \in Jobs : status'[j] \in {status[j], "timed_out"}
  PROVE  Settling'
  <1>1. \A d \in Executors :
          pc'[d] # "idle" => pc[d] # "idle" /\ job'[d] = job[d] /\ memItem'[d] = memItem[d]
    BY EndJobEffect, EndJobCopies
  <1>2. \A j \in Jobs : status'[j] \in Finished => status[j] \in Finished
    BY DEF Finished
  <1>3. \A d \in Executors :
          pc'[d] # "idle" =>
            /\ pc[d] # "idle" /\ job'[d] = job[d]
            /\ \A b \in Brokers : item'[job[d]][b] \in {memItem'[d][b], "cancelled"}
    BY <1>1 DEF Settling
  <1> QED
    BY <1>2, <1>3, SettlingKept

\* An executor that writes its current item, alone on its job.
LEMMA SettlingWrite ==
  ASSUME TypeOK, Placed, OneMessage, Settling, NEW e \in Executors, NEW st, WriteItem(e, st),
         pc[e] \in {"checked", "called"}, UNCHANGED job,
         \A d \in Executors \ {e} : pc'[d] = pc[d],
         \A j \in Jobs : status'[j] \in {status[j], "waiting_captcha"}
  PROVE  Settling'
  <1>1. pc[e] # "idle" /\ job[e] \in Jobs /\ current[e] \in Brokers
    BY DEF Placed
  <1>2. /\ \A b \in Brokers : item'[job[e]][b] \in {memItem'[e][b], "cancelled"}
        /\ \A j \in Jobs : j # job[e] => item'[j] = item[j]
        /\ \A d \in Executors : d # e => memItem'[d] = memItem[d]
    <2>1. /\ item'[job[e]][current[e]] = st /\ memItem'[e][current[e]] = st
          /\ \A b \in Brokers :
               b # current[e] => /\ item'[job[e]][b] = item[job[e]][b]
                                 /\ memItem'[e][b] = memItem[e][b]
          /\ \A j \in Jobs : j # job[e] => item'[j] = item[j]
          /\ \A d \in Executors : d # e => memItem'[d] = memItem[d]
      <3>1. /\ item'[job[e]][current[e]] = st
            /\ \A b \in Brokers : b # current[e] => item'[job[e]][b] = item[job[e]][b]
            /\ \A j \in Jobs : j # job[e] => item'[j] = item[j]
        BY <1>1 DEF WriteItem, TypeOK
      <3>2. /\ memItem'[e][current[e]] = st
            /\ \A b \in Brokers : b # current[e] => memItem'[e][b] = memItem[e][b]
            /\ \A d \in Executors : d # e => memItem'[d] = memItem[d]
        BY <1>1 DEF WriteItem, TypeOK
      <3> QED
        BY <3>1, <3>2
    <2> QED
      BY <1>1, <2>1 DEF Settling
  <1>3. \A j \in Jobs : status'[j] \in Finished => status[j] \in Finished
    BY DEF Finished
  <1>4. status[job[e]] \notin Finished
    BY <1>1 DEF Settling
  <1>5. ASSUME NEW d \in Executors, pc'[d] # "idle"
        PROVE  /\ pc[d] # "idle" /\ job'[d] = job[d]
               /\ \A b \in Brokers : item'[job[d]][b] \in {memItem'[d][b], "cancelled"}
    <2>1. CASE d = e
      BY <1>1, <1>2, <2>1
    <2>2. CASE d # e
      <3>1. pc[d] # "idle" /\ job[d] # job[e] /\ job[d] \in Jobs
        BY <1>1, <1>5, <2>2 DEF OneMessage, Placed
      <3> QED
        BY <1>2, <2>2, <3>1 DEF Settling
    <2> QED
      BY <2>1, <2>2
  <1>6. \A j \in Jobs, b \in Brokers :
          status[j] \in Finished => item'[j][b] \in {item[j][b], "cancelled"}
    BY <1>2, <1>4
  <1> QED
    BY <1>3, <1>5, <1>6, SettlingKept

\* The verdict finishes a job only when no item is open in the copies.
LEMMA VerdictFinishes ==
  ASSUME NEW e \in Executors, Verdict(e) \in Finished, Verdict(e) # memStatus[e]
  PROVE  \A b \in Brokers : memItem[e][b] \notin {"pending", "running"}
  <1>1. MemItems(e) \cap OpenItem = {}
    BY DEF Verdict, Finished, TerminalJob
  <1> QED
    BY <1>1 DEF MemItems, OpenItem, NotSelected

\* The steps that touch neither jobs nor the executors.
LEMMA SettlingElsewhere ==
  ASSUME Settling, UNCHANGED <<status, item, pc, job, memItem>>
  PROVE  Settling'
BY DEF Settling

\* A job is finished by its one executor, from copies in which nothing is left to run.
LEMMA SettlingStep ==
  ASSUME "overlap" \notin Events, "manual" \notin Events
  PROVE  TypeOK /\ Placed /\ Unasked /\ Forward /\ OneMessage /\ Settling /\ [Next]_vars
         => Settling'
  <1> SUFFICES ASSUME TypeOK, Placed, Unasked, Forward, OneMessage, Settling, [Next]_vars
               PROVE  Settling'
    OBVIOUS
  <1>1. ASSUME NEW j \in Jobs,
               Admit(j) \/ Enqueue(j) \/ LoseEnqueue(j) \/ CancelLoad(j) \/ DeadlinePasses(j)
        PROVE  Settling'
    BY <1>1, SettlingElsewhere
    DEF Admit, Enqueue, LoseEnqueue, CancelLoad, DeadlinePasses, rows, sessions
  <1>2. ASSUME NEW j \in Jobs, NEW selected \in SUBSET Brokers, NEW preview \in BOOLEAN,
               Store(j, selected, preview)
        PROVE  Settling'
    <2>1. status[j] = "absent" /\ \A d \in Executors : job[d] # j
      BY <1>2 DEF Store, Placed
    <2>2. /\ status'[j] = "pending"
          /\ \A i \in Jobs : i # j => status'[i] = status[i] /\ item'[i] = item[i]
          /\ UNCHANGED <<pc, job, memItem>>
      BY <1>2 DEF Store, TypeOK, sessions
    <2>3. \A i \in Jobs : status'[i] \in Finished => status[i] \in Finished
      BY <2>2 DEF Finished
    <2>4. \A i \in Jobs, b \in Brokers :
            status[i] \in Finished => item'[i][b] \in {item[i][b], "cancelled"}
      BY <2>1, <2>2 DEF Finished
    <2>5. \A d \in Executors : pc[d] # "idle" => job[d] \in Jobs /\ item'[job[d]] = item[job[d]]
      BY <2>1, <2>2 DEF Placed
    <2>6. \A d \in Executors :
            pc'[d] # "idle" =>
              /\ pc[d] # "idle" /\ job'[d] = job[d]
              /\ \A b \in Brokers : item'[job[d]][b] \in {memItem'[d][b], "cancelled"}
      BY <2>2, <2>5 DEF Settling
    <2> QED
      BY <2>3, <2>4, <2>6, SettlingKept
  <1>3. ASSUME NEW j \in Jobs, CancelCommit(j)
        PROVE  Settling'
    <2>1. /\ UNCHANGED <<pc, job, memItem>>
          /\ \A i \in Jobs : status'[i] \in {status[i], "cancelled"}
      BY <1>3 DEF CancelCommit, TypeOK, sessions
    <2>2. \A i \in Jobs, b \in Brokers : item'[i][b] \in {item[i][b], "cancelled"}
      <3>1. item' = [item EXCEPT ![j] =
                       [b \in Brokers |->
                          IF cancelItem[j][b] \in {"pending", "running", "captcha_needed"}
                          THEN "cancelled" ELSE item[j][b]]]
        BY <1>3 DEF CancelCommit
      <3> QED
        BY <3>1 DEF TypeOK
    <2>3. \A i \in Jobs : status'[i] \in Finished => status[i] \in Finished
      BY <2>1 DEF Finished
    <2>4. ASSUME NEW d \in Executors, pc'[d] # "idle"
          PROVE  /\ pc[d] # "idle" /\ job'[d] = job[d]
                 /\ \A b \in Brokers : item'[job[d]][b] \in {memItem'[d][b], "cancelled"}
      <3>1. pc[d] # "idle" /\ job[d] \in Jobs
        BY <2>1, <2>4 DEF Placed
      <3> QED
        BY <2>1, <2>2, <3>1 DEF Settling
    <2> QED
      BY <2>2, <2>3, <2>4, SettlingKept
  <1>4. ASSUME NEW r \in Requests, ReportManual(r)
        PROVE  Settling'
    <2>1. PICK st \in ManualStatus : ManualCommit(r, st)
      BY <1>4 DEF ReportManual, ManualLoad, ManualStatus
    <2> QED
      BY <2>1 DEF ManualCommit, OneMessage, Executors
  <1>5. ASSUME NEW j \in Jobs, NEW b \in Brokers, Captcha(j, b)
        PROVE  Settling'
    <2>1. UNCHANGED <<status, item, pc, job, memItem>>
      BY <1>5, CaptchaRefused DEF Captcha, CaptchaAges, DropCaptcha, SolveCaptcha, sessions
    <2> QED
      BY <2>1, SettlingElsewhere
  <1>6. ASSUME NEW w \in Workers, NEW j \in Jobs, Take(w, j)
        PROVE  Settling'
    <2>1. UNCHANGED <<status, item>>
      BY <1>6 DEF Take, rows
    <2>2. CASE status[j] \in TerminalJob
      BY <1>6, <2>1, <2>2, SettlingElsewhere DEF Take
    <2>3. CASE status[j] \notin TerminalJob
      <3>1. /\ w \in Executors
            /\ job'[w] = j /\ memItem'[w] = item[j]
            /\ \A d \in Executors : d # w => /\ pc'[d] = pc[d] /\ job'[d] = job[d]
                                             /\ memItem'[d] = memItem[d]
        <4>1. /\ w \in Executors
              /\ pc' = [pc EXCEPT ![w] = "loaded"]
              /\ job' = [job EXCEPT ![w] = j]
              /\ memItem' = [memItem EXCEPT ![w] = item[j]]
          BY <1>6, <2>3 DEF Take, Load, Executors
        <4> QED
          BY <4>1 DEF TypeOK
      <3>2. status[j] \notin Finished
        BY <2>3 DEF Finished, TerminalJob
      <3>3. ASSUME NEW d \in Executors, pc'[d] # "idle"
            PROVE  /\ status'[job'[d]] \notin Finished
                   /\ \A b \in Brokers : item'[job'[d]][b] \in {memItem'[d][b], "cancelled"}
        BY <2>1, <3>1, <3>2, <3>3 DEF Settling
      <3> QED
        BY <2>1, <3>3 DEF Settling
    <2> QED
      BY <2>2, <2>3
  <1>7. ASSUME NEW e \in Executors,
               StartExpired(e) \/ SeeCancelled(e) \/ SeeExpired(e) \/ Crash(e) \/ TaskFails(e)
        PROVE  Settling'
    <2>1. EndJob(e) /\ UNCHANGED item
      BY <1>7 DEF StartExpired, SeeCancelled, SeeExpired, Crash, TaskFails, rows
    <2>2. status' \in {status, [status EXCEPT ![job[e]] = "timed_out"]}
      BY <1>7 DEF StartExpired, SeeCancelled, SeeExpired, Crash, TaskFails, rows
    <2>3. \A j \in Jobs : status'[j] \in {status[j], "timed_out"}
      BY <2>2 DEF TypeOK
    <2> QED
      BY <2>1, <2>3, SettlingEnd
  <1>8. ASSUME NEW e \in Executors,
               Start(e) \/ LeaveLoop(e) \/ \E b \in Brokers : PassOver(e, b) \/ Select(e, b)
        PROVE  Settling'
    <2>1. /\ UNCHANGED <<item, job>> /\ pc[e] # "idle"
          /\ \A d \in Executors : d # e => pc'[d] = pc[d]
      BY <1>8 DEF Start, LeaveLoop, PassOver, Select, Proceed, TypeOK, rows
    <2>2. status' \in {status, [status EXCEPT ![job[e]] = "running"]}
      BY <1>8 DEF Start, LeaveLoop, PassOver, Select, rows
    <2>3. memItem' \in {memItem, [memItem EXCEPT ![e] = item[job[e]]]}
      BY <1>8 DEF Start, LeaveLoop, PassOver, Select, Proceed
    <2>4. \A j \in Jobs : status'[j] \in Finished => status[j] \in Finished
      BY <2>2 DEF TypeOK, Finished
    <2>5. \A d \in Executors : memItem'[d] \in {memItem[d], item[job[d]]}
      <3>1. CASE memItem' = memItem
        BY <3>1
      <3>2. CASE memItem' = [memItem EXCEPT ![e] = item[job[e]]]
        BY <3>2 DEF TypeOK
      <3> QED
        BY <2>3, <3>1, <3>2
    <2>6. \A d \in Executors :
            pc'[d] # "idle" =>
              /\ pc[d] # "idle" /\ job'[d] = job[d]
              /\ \A b \in Brokers : item'[job[d]][b] \in {memItem'[d][b], "cancelled"}
      BY <2>1, <2>5 DEF Settling
    <2> QED
      BY <2>1, <2>4, <2>6, SettlingKept
  <1>9. ASSUME NEW e \in Executors, NEW st \in {"error", "skipped_fresh"},
               SettleWithoutRun(e, st)
        PROVE  Settling'
    <2>1. \A d \in Executors \ {e} : pc'[d] = pc[d]
      BY <1>9 DEF SettleWithoutRun, NextItem, TypeOK
    <2> QED
      BY <1>9, <2>1, SettlingWrite DEF SettleWithoutRun
  <1>10. ASSUME NEW e \in Executors, Begin(e)
         PROVE  Settling'
    <2>1. \A d \in Executors \ {e} : pc'[d] = pc[d]
      BY <1>10 DEF Begin, TypeOK
    <2> QED
      BY <1>10, <2>1, SettlingWrite DEF Begin
  <1>11. ASSUME NEW e \in Executors,
                (\E o \in RunnerResult, formSent \in BOOLEAN : RunBroker(e, o, formSent))
                \/ (\E v \in VerifyResult : VerifyRemoval(e, v))
         PROVE  Settling'
    <2>1. /\ UNCHANGED <<status, item, job, memItem>> /\ pc[e] # "idle"
          /\ \A d \in Executors : d # e => pc'[d] = pc[d]
      <3>1. /\ UNCHANGED <<status, item, job, memItem>> /\ pc[e] # "idle"
            /\ \E stage \in Stage : pc' = [pc EXCEPT ![e] = stage]
        BY <1>11 DEF RunBroker, VerifyRemoval, Stage, rows
      <3> QED
        BY <3>1 DEF TypeOK
    <2> QED
      BY <2>1 DEF Settling
  <1>12. ASSUME NEW e \in Executors, RecordResult(e)
         PROVE  Settling'
    <2>1. \A d \in Executors \ {e} : pc'[d] = pc[d]
      BY <1>12 DEF RecordResult, NextItem, TypeOK
    <2> QED
      BY <1>12, <2>1, SettlingWrite DEF RecordResult
  <1>13. ASSUME NEW e \in Executors, RecordCaptcha(e)
         PROVE  Settling'
    <2>1. \A d \in Executors \ {e} : pc'[d] = pc[d]
      BY <1>13 DEF RecordCaptcha, NextItem, TypeOK
    <2>2. \A j \in Jobs : status'[j] \in {status[j], "waiting_captcha"}
      BY <1>13 DEF RecordCaptcha, WriteJob, TypeOK
    <2>3. WriteItem(e, "captcha_needed") /\ pc[e] = "called" /\ UNCHANGED job
      BY <1>13 DEF RecordCaptcha
    <2> QED
      BY <2>1, <2>2, <2>3, SettlingWrite
  <1>14. ASSUME NEW e \in Executors, Finalize(e)
         PROVE  Settling'
    <2>1. /\ pc[e] = "finalize" /\ job[e] \in Jobs /\ EndJob(e) /\ UNCHANGED item
          /\ status' = status \/ (status' = [status EXCEPT ![job[e]] = Verdict(e)]
                                  /\ Verdict(e) # memStatus[e])
      BY <1>14 DEF Finalize, WriteJob, Placed
    <2>2. \A d \in Executors :
            pc'[d] # "idle" => /\ d # e /\ pc[d] # "idle" /\ job'[d] = job[d]
                               /\ memItem'[d] = memItem[d]
      BY <2>1, EndJobEffect, EndJobCopies
    <2>3. \A j \in Jobs : j # job[e] => status'[j] = status[j]
      BY <2>1 DEF TypeOK
    <2>4. ASSUME NEW d \in Executors, pc'[d] # "idle"
          PROVE  /\ status'[job'[d]] \notin Finished
                 /\ \A b \in Brokers : item'[job'[d]][b] \in {memItem'[d][b], "cancelled"}
      <3>1. job[d] \in Jobs /\ job[d] # job[e]
        BY <2>1, <2>2, <2>4 DEF OneMessage, Placed
      <3> QED
        BY <2>1, <2>2, <2>3, <2>4, <3>1 DEF Settling
    <2>5. ASSUME NEW j \in Jobs, NEW b \in Brokers, status'[j] \in Finished
          PROVE  item[j][b] \notin {"pending", "running"}
      <3>1. CASE status'[j] = status[j]
        BY <2>5, <3>1 DEF Settling
      <3>2. CASE status'[j] # status[j]
        <4>1. j = job[e] /\ status'[j] = Verdict(e) /\ Verdict(e) # memStatus[e]
          BY <2>1, <2>3, <3>2 DEF TypeOK
        <4>2. memItem[e][b] \notin {"pending", "running"}
          BY <2>5, <4>1, VerdictFinishes
        <4>3. item[j][b] \in {memItem[e][b], "cancelled"}
          BY <2>1, <4>1 DEF Settling
        <4> QED
          BY <4>2, <4>3
      <3> QED
        BY <3>1, <3>2
    <2> QED
      BY <2>1, <2>4, <2>5 DEF Settling
  <1>15. ASSUME NEW e \in Executors, Redeliver(e)
         PROVE  Settling'
    BY <1>15 DEF Redeliver
  <1>16. ASSUME UNCHANGED vars
         PROVE  Settling'
    BY <1>16, SettlingElsewhere DEF vars, rows, sessions
  <1> QED
    BY <1>1, <1>2, <1>3, <1>4, <1>5, <1>6, <1>7, <1>8, <1>9, <1>10, <1>11, <1>12, <1>13, <1>14,
       <1>15, <1>16
    DEF Next, Create, Cancel, ExecuteJob, Fault

\* While no message is delivered beside the worker that holds it and no user reports a
\* manual step, a job that is COMPLETED, PARTIAL or FAILED has no item left to run,
\* whatever crashes, fails, expires or is cancelled.
THEOREM FinishedJobsAreSettled ==
  ASSUME "overlap" \notin Events, "manual" \notin Events
  PROVE  Spec => []FinishedJobIsSettled
  <1> DEFINE Inv == TypeOK /\ Placed /\ Unasked /\ Forward /\ OneMessage /\ Settling
  <1>1. Inv /\ [Next]_vars => Inv'
    BY TypeStep, PlacedStep, UnaskedStep, ForwardStep, OneMessageStep, SettlingStep
  <1>2. Inv => FinishedJobIsSettled
    BY DEF Settling, FinishedJobIsSettled, Finished, Settled
  <1>3. Init => Inv
    BY InitHolds DEF Init, Settling, Finished
  <1> QED
    BY <1>1, <1>2, <1>3, PTL DEF Spec

-----------------------------------------------------------------------------
(* Jobs that wait for a captcha have one. *)

\* The executor is in the middle of an item.
AtItem(e) == pc[e] \in {"checked", "calling", "verifying", "called"}

\* An item is at a captcha, or was when it was cancelled, exactly when it has one; none
\* is solved, because that is refused; a job waits for one it has, its executor knows of
\* those it has read, and it is never in the middle of an item that has one.
Asked ==
  /\ \A j \in Jobs, b \in Brokers :
       /\ captcha[j][b] # "none" => item[j][b] \in {"captcha_needed", "cancelled"}
       /\ item[j][b] = "captcha_needed" => captcha[j][b] # "none"
       /\ captcha[j][b] # "solved"
  /\ \A j \in Jobs : status[j] = "waiting_captcha" => \E b \in Brokers : captcha[j][b] # "none"
  /\ \A e \in Executors :
       /\ AtItem(e) => captcha[job[e]][current[e]] = "none"
       /\ \A b \in Brokers :
            pc[e] # "idle" /\ memItem[e][b] = "captcha_needed" => captcha[job[e]][b] # "none"

\* A step that asks for no captcha and reopens no item that has one.
LEMMA AskedKept ==
  ASSUME Placed, Asked,
         \A j \in Jobs, b \in Brokers :
           /\ captcha'[j][b] = "none" <=> captcha[j][b] = "none"
           /\ captcha'[j][b] \in {captcha[j][b], "overdue", "skipped", "expired"}
           /\ captcha[j][b] # "none" => item'[j][b] \in {item[j][b], "cancelled"}
           /\ item'[j][b] = "captcha_needed" => item[j][b] = "captcha_needed",
         \A j \in Jobs : status'[j] = "waiting_captcha" =>
           status[j] = "waiting_captcha" \/ \E b \in Brokers : captcha[j][b] # "none",
         \A d \in Executors :
           AtItem(d)' => AtItem(d) /\ job'[d] = job[d] /\ current'[d] = current[d],
         \A d \in Executors :
           pc'[d] # "idle" =>
             /\ pc[d] # "idle" /\ job'[d] = job[d]
             /\ \A b \in Brokers :
                  memItem'[d][b] = "captcha_needed" =>
                    "captcha_needed" \in {memItem[d][b], item[job[d]][b]}
  PROVE  Asked'
  <1>1. \A j \in Jobs, b \in Brokers :
          /\ captcha'[j][b] # "none" => item'[j][b] \in {"captcha_needed", "cancelled"}
          /\ item'[j][b] = "captcha_needed" => captcha'[j][b] # "none"
          /\ captcha'[j][b] # "solved"
    BY DEF Asked
  <1>2. \A j \in Jobs :
          status'[j] = "waiting_captcha" => \E b \in Brokers : captcha'[j][b] # "none"
    BY DEF Asked
  <1>3. ASSUME NEW d \in Executors, AtItem(d)'
        PROVE  captcha'[job'[d]][current'[d]] = "none"
    <2>1. AtItem(d) /\ job[d] \in Jobs /\ current[d] \in Brokers
      BY <1>3 DEF AtItem, Placed
    <2> QED
      BY <1>3, <2>1 DEF Asked
  <1>4. ASSUME NEW d \in Executors, NEW b \in Brokers,
               pc'[d] # "idle", memItem'[d][b] = "captcha_needed"
        PROVE  captcha'[job'[d]][b] # "none"
    <2>1. pc[d] # "idle" /\ job[d] \in Jobs /\ job'[d] = job[d]
      BY <1>4 DEF Placed
    <2>2. captcha[job[d]][b] # "none"
      BY <1>4, <2>1 DEF Asked
    <2> QED
      BY <2>1, <2>2
  <1> QED
    BY <1>1, <1>2, <1>3, <1>4 DEF Asked

\* A step that leaves the captchas and the items.
LEMMA AskedOn ==
  ASSUME Placed, Asked, UNCHANGED <<captcha, item>>,
         \A j \in Jobs : status'[j] = "waiting_captcha" =>
           status[j] = "waiting_captcha" \/ \E b \in Brokers : captcha[j][b] # "none",
         \A d \in Executors :
           AtItem(d)' => AtItem(d) /\ job'[d] = job[d] /\ current'[d] = current[d],
         \A d \in Executors :
           pc'[d] # "idle" =>
             pc[d] # "idle" /\ job'[d] = job[d] /\ memItem'[d] \in {memItem[d], item[job[d]]}
  PROVE  Asked'
BY AskedKept

\* An executor that ends.
LEMMA AskedEnd ==
  ASSUME TypeOK, Placed, Asked, NEW e \in Executors, EndJob(e), UNCHANGED <<captcha, item>>,
         \A j \in Jobs : status'[j] = "waiting_captcha" =>
           status[j] = "waiting_captcha" \/ \E b \in Brokers : captcha[j][b] # "none"
  PROVE  Asked'
  <1>1. \A d \in Executors :
          pc'[d] # "idle" => /\ pc'[d] = pc[d] /\ job'[d] = job[d] /\ current'[d] = current[d]
                             /\ memItem'[d] = memItem[d]
    BY EndJobEffect, EndJobCopies
  <1>2. \A d \in Executors :
          AtItem(d)' => AtItem(d) /\ job'[d] = job[d] /\ current'[d] = current[d]
    BY <1>1 DEF AtItem
  <1> QED
    BY <1>1, <1>2, AskedOn

\* What writing the current item changes.
LEMMA ItemEffect ==
  ASSUME TypeOK, NEW e \in Executors, NEW st, WriteItem(e, st),
         job[e] \in Jobs, current[e] \in Brokers
  PROVE  /\ item'[job[e]][current[e]] = st /\ memItem'[e][current[e]] = st
         /\ \A j \in Jobs, b \in Brokers :
              j # job[e] \/ b # current[e] => item'[j][b] = item[j][b]
         /\ \A d \in Executors, b \in Brokers :
              d # e \/ b # current[e] => memItem'[d][b] = memItem[d][b]
  <1>1. /\ item'[job[e]][current[e]] = st
        /\ \A j \in Jobs, b \in Brokers :
             j # job[e] \/ b # current[e] => item'[j][b] = item[j][b]
    BY DEF WriteItem, TypeOK
  <1>2. /\ memItem'[e][current[e]] = st
        /\ \A d \in Executors, b \in Brokers :
             d # e \/ b # current[e] => memItem'[d][b] = memItem[d][b]
    BY DEF WriteItem, TypeOK
  <1> QED
    BY <1>1, <1>2

\* An executor that writes its current item, but not for a captcha.
LEMMA AskedWrite ==
  ASSUME TypeOK, Placed, Asked, NEW e \in Executors, NEW st, WriteItem(e, st),
         AtItem(e), st # "captcha_needed", UNCHANGED <<captcha, status, job>>,
         \A d \in Executors : pc'[d] # "idle" => pc[d] # "idle",
         \A d \in Executors : AtItem(d)' => AtItem(d) /\ current'[d] = current[d]
  PROVE  Asked'
  <1>1. job[e] \in Jobs /\ current[e] \in Brokers
    BY DEF AtItem, Placed
  <1>2. captcha[job[e]][current[e]] = "none"
    BY DEF Asked
  <1>3. \A j \in Jobs, b \in Brokers :
          /\ captcha[j][b] # "none" => item'[j][b] \in {item[j][b], "cancelled"}
          /\ item'[j][b] = "captcha_needed" => item[j][b] = "captcha_needed"
    BY <1>1, <1>2, ItemEffect
  <1>4. \A d \in Executors, b \in Brokers :
          memItem'[d][b] = "captcha_needed" => memItem[d][b] = "captcha_needed"
    BY <1>1, ItemEffect
  <1> QED
    BY <1>3, <1>4, AskedKept

\* The verdict lets a job wait for a captcha that its executor has read.
LEMMA VerdictAsks ==
  ASSUME NEW e \in Executors, Verdict(e) = "waiting_captcha", Verdict(e) # memStatus[e]
  PROVE  \E b \in Brokers : memItem[e][b] = "captcha_needed"
  <1>1. MemItems(e) \cap OpenItem # {}
    BY DEF Verdict, FinalJobStatus
  <1>2. "captcha_needed" \in MemItems(e)
    BY <1>1 DEF Verdict
  <1> QED
    BY <1>2 DEF MemItems

\* A captcha is asked for with its item, by the job's one executor.
LEMMA AskedStep ==
  ASSUME "overlap" \notin Events, "manual" \notin Events
  PROVE  TypeOK /\ Placed /\ Unasked /\ Forward /\ OneMessage /\ Asked /\ [Next]_vars => Asked'
  <1> SUFFICES ASSUME TypeOK, Placed, Unasked, Forward, OneMessage, Asked, [Next]_vars
               PROVE  Asked'
    OBVIOUS
  <1>1. ASSUME NEW j \in Jobs,
               Admit(j) \/ Enqueue(j) \/ LoseEnqueue(j) \/ CancelLoad(j) \/ DeadlinePasses(j)
        PROVE  Asked'
    <2>1. UNCHANGED <<status, captcha, item, pc, job, current, memItem>>
      BY <1>1 DEF Admit, Enqueue, LoseEnqueue, CancelLoad, DeadlinePasses, rows, sessions
    <2> QED
      BY <2>1, AskedOn DEF AtItem
  <1>2. ASSUME NEW j \in Jobs, NEW selected \in SUBSET Brokers, NEW preview \in BOOLEAN,
               Store(j, selected, preview)
        PROVE  Asked'
    <2>1. \A b \in Brokers : captcha[j][b] = "none"
      BY <1>2 DEF Store, Placed, Unasked
    <2>2. /\ status'[j] = "pending"
          /\ \A i \in Jobs : i # j => status'[i] = status[i] /\ item'[i] = item[i]
          /\ \A b \in Brokers : item'[j][b] # "captcha_needed"
          /\ UNCHANGED <<captcha, pc, job, current, memItem>>
      BY <1>2 DEF Store, TypeOK, sessions, NotSelected
    <2> QED
      BY <2>1, <2>2, AskedKept DEF AtItem
  <1>3. ASSUME NEW j \in Jobs, CancelCommit(j)
        PROVE  Asked'
    <2>1. /\ UNCHANGED <<captcha, pc, job, current, memItem>>
          /\ \A i \in Jobs : status'[i] \in {status[i], "cancelled"}
      BY <1>3 DEF CancelCommit, TypeOK, sessions
    <2>2. \A i \in Jobs, b \in Brokers : item'[i][b] \in {item[i][b], "cancelled"}
      <3>1. item' = [item EXCEPT ![j] =
                       [b \in Brokers |->
                          IF cancelItem[j][b] \in {"pending", "running", "captcha_needed"}
                          THEN "cancelled" ELSE item[j][b]]]
        BY <1>3 DEF CancelCommit
      <3> QED
        BY <3>1 DEF TypeOK
    <2> QED
      BY <2>1, <2>2, AskedKept DEF AtItem
  <1>4. ASSUME NEW r \in Requests, ReportManual(r)
        PROVE  Asked'
    <2>1. PICK st \in ManualStatus : ManualCommit(r, st)
      BY <1>4 DEF ReportManual, ManualLoad, ManualStatus
    <2> QED
      BY <2>1 DEF ManualCommit, OneMessage, Executors
  <1>5. ASSUME NEW j \in Jobs, NEW b \in Brokers, Captcha(j, b)
        PROVE  Asked'
    <2>1. UNCHANGED <<status, item, pc, job, current, memItem>>
      BY <1>5, CaptchaRefused DEF Captcha, CaptchaAges, DropCaptcha, SolveCaptcha, sessions
    <2>2. captcha[j][b] # "none"
      BY <1>5 DEF Captcha, CaptchaAges, DropCaptcha, SolveCaptcha
    <2>3. \E st \in {"overdue", "skipped", "expired"} :
            captcha' \in {captcha, [captcha EXCEPT ![j][b] = st]}
      BY <1>5, CaptchaRefused DEF Captcha, CaptchaAges, DropCaptcha, SolveCaptcha
    <2>4. \A i \in Jobs, c \in Brokers :
            /\ captcha'[i][c] = "none" <=> captcha[i][c] = "none"
            /\ captcha'[i][c] \in {captcha[i][c], "overdue", "skipped", "expired"}
      <3>1. CASE captcha' = captcha
        BY <3>1
      <3>2. CASE captcha' # captcha
        <4>1. PICK st \in {"overdue", "skipped", "expired"} :
                captcha' = [captcha EXCEPT ![j][b] = st]
          BY <2>3, <3>2
        <4>2. st # "none"
          OBVIOUS
        <4>3. captcha \in [Jobs -> [Brokers -> {"none", "pending", "overdue", "solved",
                                               "skipped", "expired"}]]
          BY DEF TypeOK
        <4>4. /\ captcha'[j][b] = st
              /\ \A i \in Jobs, c \in Brokers : i # j \/ c # b => captcha'[i][c] = captcha[i][c]
          BY <4>1, <4>3
        <4> QED
          BY <2>2, <4>2, <4>4
      <3> QED
        BY <3>1, <3>2
    <2> QED
      BY <2>1, <2>4, AskedKept DEF AtItem
  <1>6. ASSUME NEW w \in Workers, NEW j \in Jobs, Take(w, j)
        PROVE  Asked'
    <2>1. UNCHANGED <<status, item, captcha, current>>
      BY <1>6 DEF Take, rows
    <2>2. CASE status[j] \in TerminalJob
      <3>1. UNCHANGED <<pc, job, memItem>>
        BY <1>6, <2>2 DEF Take
      <3> QED
        BY <2>1, <3>1, AskedOn DEF AtItem
    <2>3. CASE status[j] \notin TerminalJob
      <3>1. /\ w \in Executors
            /\ pc' = [pc EXCEPT ![w] = "loaded"]
            /\ job' = [job EXCEPT ![w] = j]
            /\ memItem' = [memItem EXCEPT ![w] = item[j]]
        BY <1>6, <2>3 DEF Take, Load, Executors
      <3>2. /\ pc'[w] = "loaded" /\ job'[w] = j /\ memItem'[w] = item[j]
            /\ \A d \in Executors : d # w => /\ pc'[d] = pc[d] /\ job'[d] = job[d]
                                             /\ memItem'[d] = memItem[d]
        BY <3>1 DEF TypeOK
      <3>3. \A d \in Executors : AtItem(d)' => captcha'[job'[d]][current'[d]] = "none"
        BY <2>1, <3>2 DEF AtItem, Asked
      <3>4. \A d \in Executors, b \in Brokers :
              pc'[d] # "idle" /\ memItem'[d][b] = "captcha_needed"
                => captcha'[job'[d]][b] # "none"
        BY <2>1, <3>2 DEF Asked
      <3> QED
        BY <2>1, <3>3, <3>4 DEF Asked
    <2> QED
      BY <2>2, <2>3
  <1>7. ASSUME NEW e \in Executors,
               StartExpired(e) \/ SeeCancelled(e) \/ SeeExpired(e) \/ Crash(e) \/ TaskFails(e)
        PROVE  Asked'
    <2>1. EndJob(e) /\ UNCHANGED <<captcha, item>>
      BY <1>7 DEF StartExpired, SeeCancelled, SeeExpired, Crash, TaskFails, rows
    <2>2. status' \in {status, [status EXCEPT ![job[e]] = "timed_out"]}
      BY <1>7 DEF StartExpired, SeeCancelled, SeeExpired, Crash, TaskFails, rows
    <2>3. \A j \in Jobs : status'[j] = "waiting_captcha" => status[j] = "waiting_captcha"
      BY <2>2 DEF TypeOK
    <2> QED
      BY <2>1, <2>3, AskedEnd
  <1>8. ASSUME NEW e \in Executors, Start(e) \/ LeaveLoop(e) \/ \E b \in Brokers : PassOver(e, b)
        PROVE  Asked'
    <2>1. /\ UNCHANGED <<captcha, item, job, current>> /\ pc[e] # "idle" /\ ~AtItem(e)'
          /\ \A d \in Executors : d # e => pc'[d] = pc[d]
      BY <1>8 DEF Start, LeaveLoop, PassOver, Proceed, TypeOK, rows, AtItem
    <2>2. status' \in {status, [status EXCEPT ![job[e]] = "running"]}
      BY <1>8 DEF Start, LeaveLoop, PassOver, rows
    <2>3. memItem' = memItem \/ memItem' = [memItem EXCEPT ![e] = item[job[e]]]
      BY <1>8 DEF Start, LeaveLoop, PassOver, Proceed
    <2>4. \A j \in Jobs : status'[j] = "waiting_captcha" => status[j] = "waiting_captcha"
      BY <2>2 DEF TypeOK
    <2>5. \A d \in Executors : memItem'[d] \in {memItem[d], item[job[d]]}
      <3>1. CASE memItem' = memItem
        BY <3>1
      <3>2. CASE memItem' = [memItem EXCEPT ![e] = item[job[e]]]
        BY <3>2 DEF TypeOK
      <3> QED
        BY <2>3, <3>1, <3>2
    <2> QED
      BY <2>1, <2>4, <2>5, AskedOn DEF AtItem
  <1>9. ASSUME NEW e \in Executors, NEW b \in Brokers, Select(e, b)
        PROVE  Asked'
    <2>1. /\ UNCHANGED <<status, captcha, item, job>> /\ pc[e] # "idle" /\ job[e] \in Jobs
          /\ item[job[e]][b] = "pending"
          /\ memItem' = [memItem EXCEPT ![e] = item[job[e]]]
      BY <1>9 DEF Select, Proceed, Placed, rows
    <2>2. /\ pc'[e] = "checked" /\ current'[e] = b
          /\ \A d \in Executors : d # e => pc'[d] = pc[d] /\ current'[d] = current[d]
          /\ memItem'[e] = item[job[e]] /\ \A d \in Executors : d # e => memItem'[d] = memItem[d]
      BY <1>9, <2>1 DEF Select, TypeOK
    <2>3. captcha[job[e]][b] = "none"
      BY <2>1 DEF Asked
    <2>4. \A d \in Executors : AtItem(d)' => captcha'[job'[d]][current'[d]] = "none"
      BY <2>1, <2>2, <2>3 DEF AtItem, Asked
    <2>5. \A d \in Executors, c \in Brokers :
            pc'[d] # "idle" /\ memItem'[d][c] = "captcha_needed"
              => captcha'[job'[d]][c] # "none"
      BY <2>1, <2>2 DEF Asked
    <2> QED
      BY <2>1, <2>4, <2>5 DEF Asked
  <1>10. ASSUME NEW e \in Executors, NEW st \in {"error", "skipped_fresh"},
                SettleWithoutRun(e, st)
         PROVE  Asked'
    <2>1. /\ pc'[e] = "loop"
          /\ \A d \in Executors : d # e => pc'[d] = pc[d] /\ current'[d] = current[d]
      BY <1>10 DEF SettleWithoutRun, NextItem, TypeOK
    <2> QED
      BY <1>10, <2>1, AskedWrite DEF SettleWithoutRun, AtItem
  <1>11. ASSUME NEW e \in Executors, Begin(e)
         PROVE  Asked'
    <2>1. \A d \in Executors : d # e => pc'[d] = pc[d]
      BY <1>11 DEF Begin, TypeOK
    <2> QED
      BY <1>11, <2>1, AskedWrite DEF Begin, AtItem
  <1>12. ASSUME NEW e \in Executors,
                (\E o \in RunnerResult, formSent \in BOOLEAN : RunBroker(e, o, formSent))
                \/ (\E v \in VerifyResult : VerifyRemoval(e, v))
         PROVE  Asked'
    <2>1. /\ UNCHANGED <<status, captcha, item, job, current, memItem>> /\ AtItem(e)
          /\ \E stage \in Stage : pc' = [pc EXCEPT ![e] = stage]
      BY <1>12 DEF RunBroker, VerifyRemoval, Stage, AtItem, rows
    <2>2. \A d \in Executors : d # e => pc'[d] = pc[d]
      BY <2>1 DEF TypeOK
    <2> QED
      BY <2>1, <2>2, AskedOn DEF AtItem
  <1>13. ASSUME NEW e \in Executors, RecordResult(e)
         PROVE  Asked'
    <2>1. /\ pc'[e] = "loop"
          /\ \A d \in Executors : d # e => pc'[d] = pc[d] /\ current'[d] = current[d]
      BY <1>13 DEF RecordResult, NextItem, TypeOK
    <2> QED
      BY <1>13, <2>1, AskedWrite DEF RecordResult, AtItem
  <1>14. ASSUME NEW e \in Executors, RecordCaptcha(e)
         PROVE  Asked'
    <2>1. /\ pc[e] = "called" /\ job[e] \in Jobs /\ current[e] \in Brokers /\ UNCHANGED job
          /\ WriteItem(e, "captcha_needed")
          /\ captcha' = [captcha EXCEPT ![job[e]][current[e]] = "pending"]
          /\ status' \in {status, [status EXCEPT ![job[e]] = "waiting_captcha"]}
      BY <1>14 DEF RecordCaptcha, WriteJob, Placed
    <2>2. /\ pc'[e] = "loop"
          /\ \A d \in Executors : d # e => pc'[d] = pc[d] /\ current'[d] = current[d]
      BY <1>14 DEF RecordCaptcha, NextItem, TypeOK
    <2>3. /\ captcha'[job[e]][current[e]] = "pending"
          /\ \A j \in Jobs, b \in Brokers :
               j # job[e] \/ b # current[e] => captcha'[j][b] = captcha[j][b]
      <3>1. captcha \in [Jobs -> [Brokers -> {"none", "pending", "overdue", "solved",
                                             "skipped", "expired"}]]
        BY DEF TypeOK
      <3>2. captcha' = [captcha EXCEPT ![job[e]][current[e]] = "pending"]
            /\ job[e] \in Jobs /\ current[e] \in Brokers
        BY <2>1
      <3> QED
        BY <3>1, <3>2
    <2>4. \A j \in Jobs : j # job[e] => status'[j] = status[j]
      BY <2>1 DEF TypeOK
    <2>5. \A d \in Executors : d # e /\ pc[d] # "idle" => job[d] \in Jobs /\ job[d] # job[e]
      BY <2>1 DEF OneMessage, Placed
    <2>6. \A j \in Jobs, b \in Brokers :
            /\ captcha'[j][b] # "none" => item'[j][b] \in {"captcha_needed", "cancelled"}
            /\ item'[j][b] = "captcha_needed" => captcha'[j][b] # "none"
            /\ captcha'[j][b] # "solved"
      BY <2>1, <2>3, ItemEffect DEF Asked
    <2>7. \A j \in Jobs :
            status'[j] = "waiting_captcha" => \E b \in Brokers : captcha'[j][b] # "none"
      <3>1. \A j \in Jobs : j # job[e] => captcha'[j] = captcha[j]
        BY <2>1 DEF TypeOK
      <3> QED
        BY <2>1, <2>3, <2>4, <3>1 DEF Asked
    <2>8. \A d \in Executors : AtItem(d)' => captcha'[job'[d]][current'[d]] = "none"
      BY <2>1, <2>2, <2>3, <2>5 DEF AtItem, Asked, Placed
    <2>9. ASSUME NEW d \in Executors, NEW b \in Brokers,
                 pc'[d] # "idle", memItem'[d][b] = "captcha_needed"
          PROVE  captcha'[job'[d]][b] # "none"
      <3>1. CASE d = e /\ b = current[e]
        BY <2>1, <2>3, <3>1
      <3>2. CASE d # e \/ b # current[e]
        <4>1. memItem[d][b] = "captcha_needed" /\ pc[d] # "idle" /\ job[d] \in Jobs
          BY <2>1, <2>2, <2>9, <3>2, ItemEffect DEF Placed
        <4>2. captcha[job[d]][b] # "none"
          BY <4>1 DEF Asked
        <4> QED
          BY <2>1, <2>3, <4>1, <4>2
      <3> QED
        BY <3>1, <3>2
    <2> QED
      BY <2>6, <2>7, <2>8, <2>9 DEF Asked
  <1>15. ASSUME NEW e \in Executors, Finalize(e)
         PROVE  Asked'
    <2>1. /\ pc[e] = "finalize" /\ job[e] \in Jobs /\ EndJob(e) /\ UNCHANGED <<captcha, item>>
          /\ status' = status \/ (status' = [status EXCEPT ![job[e]] = Verdict(e)]
                                  /\ Verdict(e) # memStatus[e])
      BY <1>15 DEF Finalize, WriteJob, Placed
    <2>2. ASSUME NEW j \in Jobs, status'[j] = "waiting_captcha", status[j] # "waiting_captcha"
          PROVE  \E b \in Brokers : captcha[j][b] # "none"
      <3>1. j = job[e] /\ Verdict(e) = "waiting_captcha" /\ Verdict(e) # memStatus[e]
        BY <2>1, <2>2 DEF TypeOK
      <3>2. PICK b \in Brokers : memItem[e][b] = "captcha_needed"
        BY <3>1, VerdictAsks
      <3> QED
        BY <2>1, <3>1, <3>2 DEF Asked
    <2> QED
      BY <2>1, <2>2, AskedEnd
  <1>16. ASSUME NEW e \in Executors, Redeliver(e)
         PROVE  Asked'
    BY <1>16 DEF Redeliver
  <1>17. ASSUME UNCHANGED vars
         PROVE  Asked'
    <2>1. UNCHANGED <<status, captcha, item, pc, job, current, memItem>>
      BY <1>17 DEF vars, rows, sessions
    <2> QED
      BY <2>1, AskedOn DEF AtItem
  <1> QED
    BY <1>1, <1>2, <1>3, <1>4, <1>5, <1>6, <1>7, <1>8, <1>9, <1>10, <1>11, <1>12, <1>13, <1>14,
       <1>15, <1>16, <1>17
    DEF Next, Create, Cancel, ExecuteJob, Fault

\* While no message is delivered beside the worker that holds it and no user reports a
\* manual step, a job that waits for a captcha has one to wait for, and each of its captchas
\* is listed unless the user dropped it, whatever crashes, fails, expires or is cancelled.
THEOREM WaitingJobsShowCaptchas ==
  ASSUME "overlap" \notin Events, "manual" \notin Events
  PROVE  Spec => []WaitingJobShowsCaptcha
  <1> DEFINE Inv == TypeOK /\ Placed /\ Unasked /\ Forward /\ OneMessage /\ Asked
  <1>1. Inv /\ [Next]_vars => Inv'
    BY TypeStep, PlacedStep, UnaskedStep, ForwardStep, OneMessageStep, AskedStep
  <1>2. Inv => WaitingJobShowsCaptcha
    <2> SUFFICES ASSUME Inv, NEW j \in Jobs, status[j] = "waiting_captcha"
                 PROVE  /\ \E b \in Brokers :
                              /\ captcha[j][b] # "none"
                              /\ item[j][b] \in {"captcha_needed", "cancelled"}
                        /\ \A b \in Brokers :
                             item[j][b] = "captcha_needed" => Listed(j, b) \/ Dropped(j, b)
      BY DEF WaitingJobShowsCaptcha
    <2>1. \E b \in Brokers :
            captcha[j][b] # "none" /\ item[j][b] \in {"captcha_needed", "cancelled"}
      <3>1. PICK b \in Brokers : captcha[j][b] # "none"
        BY DEF Asked
      <3>2. item[j][b] \in {"captcha_needed", "cancelled"}
        BY <3>1 DEF Asked
      <3> QED
        BY <3>1, <3>2
    <2>2. \A b \in Brokers :
            captcha[j][b] \in {"none", "pending", "overdue", "solved", "skipped", "expired"}
      <3>1. captcha \in [Jobs -> [Brokers -> {"none", "pending", "overdue", "solved",
                                             "skipped", "expired"}]]
        BY DEF TypeOK
      <3> QED
        BY <3>1
    <2>3. \A b \in Brokers : item[j][b] = "captcha_needed" => Listed(j, b) \/ Dropped(j, b)
      BY <2>2 DEF Asked, Listed, Dropped
    <2> QED
      BY <2>1, <2>3
  <1>3. Init => Inv
    <2> SUFFICES ASSUME Init PROVE Asked
      BY InitHolds
    <2>1. \A j \in Jobs : status[j] = "absent"
      BY DEF Init
    <2>2. \A j \in Jobs, b \in Brokers : captcha[j][b] = "none" /\ item[j][b] = NotSelected
      BY DEF Init, NoItems
    <2>3. \A d \in Executors : pc[d] = "idle"
      BY DEF Init
    <2> QED
      BY <2>1, <2>2, <2>3 DEF Asked, AtItem, NotSelected
  <1> QED
    BY <1>1, <1>2, <1>3, PTL DEF Spec

-----------------------------------------------------------------------------
(* The quota, and the recheck window it protects. *)

\* The jobs that count against the quota, or will when their request goes on.
ActiveOrAdmitted == {j \in Jobs : status[j] \in ActiveJob \/ request[j] = "admitted"}

\* Nobody cancels, and only an active job is executed.
Busy ==
  /\ \A j \in Jobs : ~cancelling[j]
  /\ \A e \in Executors : pc[e] # "idle" => status[job[e]] \in ActiveJob

\* One request at a time is admitted, and the quota has room for its job.
Counted ==
  /\ IsFiniteSet({j \in Jobs : request[j] # "idle"})
  /\ \A i, j \in Jobs : request[i] = "admitted" /\ request[j] = "admitted" => i = j
  /\ Cardinality(ActiveOrAdmitted) <= MaxJobs

\* What counts is requested.
LEMMA CountedFinite ==
  ASSUME TypeOK, Placed, Counted
  PROVE  IsFiniteSet(ActiveOrAdmitted) /\ Cardinality(ActiveOrAdmitted) \in Nat
  <1>1. ActiveOrAdmitted \in SUBSET {j \in Jobs : request[j] # "idle"}
    BY DEF ActiveOrAdmitted, ActiveJob, WaitingJob, Placed
  <1>2. IsFiniteSet({j \in Jobs : request[j] # "idle"})
    BY DEF Counted
  <1>3. IsFiniteSet(ActiveOrAdmitted)
    BY <1>1, <1>2, FS_Subset
  <1> QED
    BY <1>3, FS_CardinalityType

\* Nothing is requested, no job becomes active but the admitted one, and the jobs that are
\* executed are active.
LEMMA CountedKept ==
  ASSUME TypeOK, Placed, Counted,
         \A j \in Jobs : request'[j] # "idle" => request[j] # "idle",
         \A j \in Jobs : request'[j] = "admitted" => request[j] = "admitted",
         \A j \in Jobs :
           status'[j] \in ActiveJob => status[j] \in ActiveJob \/ request[j] = "admitted",
         \A j \in Jobs : ~cancelling'[j],
         \A d \in Executors : pc'[d] # "idle" => status'[job'[d]] \in ActiveJob
  PROVE  Busy' /\ Counted'
  <1>1. IsFiniteSet({j \in Jobs : request'[j] # "idle"})
    <2>1. {j \in Jobs : request'[j] # "idle"} \in SUBSET {j \in Jobs : request[j] # "idle"}
      OBVIOUS
    <2> QED
      BY <2>1, FS_Subset DEF Counted
  <1>2. \A i, j \in Jobs : request'[i] = "admitted" /\ request'[j] = "admitted" => i = j
    BY DEF Counted
  <1>3. Cardinality(ActiveOrAdmitted') <= MaxJobs
    <2>1. ActiveOrAdmitted' \in SUBSET ActiveOrAdmitted
      BY DEF ActiveOrAdmitted
    <2>2. Cardinality(ActiveOrAdmitted') <= Cardinality(ActiveOrAdmitted)
      BY <2>1, CountedFinite, FS_Subset
    <2>3. IsFiniteSet(ActiveOrAdmitted') /\ Cardinality(ActiveOrAdmitted') \in Nat
      BY <2>1, CountedFinite, FS_Subset, FS_CardinalityType
    <2> QED
      BY <2>2, <2>3, CountedFinite, RemediationAssumption DEF Counted
  <1>4. Busy'
    BY DEF Busy
  <1> QED
    BY <1>1, <1>2, <1>3, <1>4 DEF Counted

\* The steps that neither request a job nor change its status, and start no executor.
LEMMA CountedElsewhere ==
  ASSUME TypeOK, Placed, Busy, Counted, UNCHANGED <<status, request, cancelling>>,
         \A d \in Executors : pc'[d] # "idle" => pc[d] # "idle" /\ job'[d] = job[d]
  PROVE  Busy' /\ Counted'
  <1>1. \A d \in Executors : pc'[d] # "idle" => status'[job'[d]] \in ActiveJob
    BY DEF Busy
  <1>2. \A j \in Jobs : ~cancelling'[j]
    BY DEF Busy
  <1> QED
    BY <1>1, <1>2, CountedKept

\* An executor that gives its job a status, alone on it: an active one when it goes on.
LEMMA CountedWrite ==
  ASSUME TypeOK, Placed, OneMessage, Busy, Counted, NEW e \in Executors, pc[e] # "idle", NEW st,
         status' \in {status, [status EXCEPT ![job[e]] = st]}, UNCHANGED <<request, cancelling>>,
         \A d \in Executors : pc'[d] # "idle" => pc[d] # "idle" /\ job'[d] = job[d],
         pc'[e] = "idle" \/ st \in ActiveJob
  PROVE  Busy' /\ Counted'
  <1>1. job[e] \in Jobs /\ status[job[e]] \in ActiveJob
    BY DEF Placed, Busy
  <1>2. \A j \in Jobs : j # job[e] => status'[j] = status[j]
    BY DEF TypeOK
  <1>3. status'[job[e]] = status[job[e]] \/ status'[job[e]] = st
    BY <1>1 DEF TypeOK
  <1>4. ASSUME NEW d \in Executors, pc'[d] # "idle"
        PROVE  status'[job'[d]] \in ActiveJob
    <2>1. pc[d] # "idle" /\ job'[d] = job[d] /\ job[d] \in Jobs /\ status[job[d]] \in ActiveJob
      BY <1>4 DEF Placed, Busy
    <2>2. CASE d = e
      BY <1>1, <1>3, <1>4, <2>1, <2>2
    <2>3. CASE d # e
      <3>1. job[d] # job[e]
        BY <2>1, <2>3 DEF OneMessage
      <3> QED
        BY <1>2, <2>1, <3>1
    <2> QED
      BY <2>2, <2>3
  <1>5. \A j \in Jobs : status'[j] \in ActiveJob => status[j] \in ActiveJob
    BY <1>1, <1>2
  <1>6. \A j \in Jobs : ~cancelling'[j]
    BY DEF Busy
  <1> QED
    BY <1>4, <1>5, <1>6, CountedKept

\* An executor that ends.
LEMMA CountedEnd ==
  ASSUME TypeOK, Placed, OneMessage, Busy, Counted, NEW e \in Executors, pc[e] # "idle",
         EndJob(e), NEW st, status' \in {status, [status EXCEPT ![job[e]] = st]},
         UNCHANGED <<request, cancelling>>
  PROVE  Busy' /\ Counted'
  <1>1. \A d \in Executors : pc'[d] # "idle" => pc[d] # "idle" /\ job'[d] = job[d]
    BY EndJobEffect
  <1>2. pc'[e] = "idle"
    BY EndJobEffect
  <1> QED
    BY <1>1, <1>2, CountedWrite

\* A request is admitted where there is room, and its job takes the room; only the one
\* executor of an active job writes it.
LEMMA CountedStep ==
  ASSUME Events \cap {"race", "cancel", "manual", "overlap"} = {}
  PROVE  TypeOK /\ Placed /\ Unasked /\ Forward /\ OneMessage /\ Busy /\ Counted /\ [Next]_vars
         => Busy' /\ Counted'
  <1> SUFFICES ASSUME TypeOK, Placed, Unasked, Forward, OneMessage, Busy, Counted, [Next]_vars
               PROVE  Busy' /\ Counted'
    OBVIOUS
  <1>1. ASSUME NEW j \in Jobs, Admit(j)
        PROVE  Busy' /\ Counted'
    <2>1. /\ request' = [request EXCEPT ![j] = "admitted"]
          /\ \A i \in Jobs : request[i] # "admitted"
          /\ UNCHANGED <<status, pc, job, cancelling>>
      BY <1>1 DEF Admit, rows, sessions, cancels
    <2>2. /\ request'[j] = "admitted"
          /\ \A i \in Jobs : i # j => request'[i] = request[i]
      BY <2>1 DEF TypeOK
    <2>3. IsFiniteSet({i \in Jobs : request'[i] # "idle"})
      <3>1. {i \in Jobs : request'[i] # "idle"} = {i \in Jobs : request[i] # "idle"} \cup {j}
        BY <2>2
      <3> QED
        BY <3>1, FS_AddElement DEF Counted
    <2>4. \A h, i \in Jobs : request'[h] = "admitted" /\ request'[i] = "admitted" => h = i
      BY <2>1, <2>2
    <2>5. Cardinality(ActiveOrAdmitted') <= MaxJobs
      <3>1. ActiveOrAdmitted = ActiveJobs
        BY <2>1 DEF ActiveOrAdmitted, ActiveJobs
      <3>2. ActiveOrAdmitted' = ActiveOrAdmitted \cup {j}
        BY <2>1, <2>2 DEF ActiveOrAdmitted
      <3>3. Cardinality(ActiveOrAdmitted') \in
              {Cardinality(ActiveOrAdmitted), Cardinality(ActiveOrAdmitted) + 1}
        <4>1. IsFiniteSet(ActiveOrAdmitted)
          BY CountedFinite
        <4> HIDE DEF ActiveOrAdmitted
        <4> QED
          BY <3>2, <4>1, FS_AddElement
      <3>4. Cardinality(ActiveOrAdmitted) < MaxJobs
        BY <1>1, <3>1 DEF Admit
      <3>5. Cardinality(ActiveOrAdmitted') \in Nat
        BY <3>2, CountedFinite, FS_AddElement, FS_CardinalityType
      <3> QED
        BY <3>3, <3>4, <3>5, CountedFinite, RemediationAssumption
    <2>6. Busy'
      BY <2>1 DEF Busy
    <2> QED
      BY <2>3, <2>4, <2>5, <2>6 DEF Counted
  <1>2. ASSUME NEW j \in Jobs, NEW selected \in SUBSET Brokers, NEW preview \in BOOLEAN,
               Store(j, selected, preview)
        PROVE  Busy' /\ Counted'
    <2>1. /\ request[j] = "admitted" /\ request' = [request EXCEPT ![j] = "stored"]
          /\ status' = [status EXCEPT ![j] = "pending"] /\ UNCHANGED <<pc, job, cancelling>>
      BY <1>2 DEF Store, sessions, cancels
    <2>2. \A i \in Jobs : i # j => status'[i] = status[i] /\ request'[i] = request[i]
      BY <2>1 DEF TypeOK
    <2>3. request'[j] = "stored"
      BY <2>1 DEF TypeOK
    <2>4. \A d \in Executors : pc[d] # "idle" => job[d] \in Jobs /\ job[d] # j
      BY <2>1 DEF Placed
    <2>5. \A d \in Executors : pc'[d] # "idle" => status'[job'[d]] \in ActiveJob
      BY <2>1, <2>2, <2>4 DEF Busy
    <2>6. \A i \in Jobs : ~cancelling'[i]
      BY <2>1 DEF Busy
    <2> QED
      BY <2>1, <2>2, <2>3, <2>5, <2>6, CountedKept
  <1>3. ASSUME NEW j \in Jobs, Enqueue(j) \/ LoseEnqueue(j)
        PROVE  Busy' /\ Counted'
    <2>1. /\ request[j] = "stored" /\ request' = [request EXCEPT ![j] = "done"]
          /\ UNCHANGED <<status, pc, job, cancelling>>
      BY <1>3 DEF Enqueue, LoseEnqueue, rows, sessions, cancels
    <2>2. \A i \in Jobs : i # j => request'[i] = request[i]
      BY <2>1 DEF TypeOK
    <2>3. request'[j] = "done"
      BY <2>1 DEF TypeOK
    <2>4. \A d \in Executors : pc'[d] # "idle" => status'[job'[d]] \in ActiveJob
      BY <2>1 DEF Busy
    <2>5. \A i \in Jobs : ~cancelling'[i]
      BY <2>1 DEF Busy
    <2> QED
      BY <2>1, <2>2, <2>3, <2>4, <2>5, CountedKept
  <1>4. ASSUME NEW j \in Jobs, Cancel(j)
        PROVE  Busy' /\ Counted'
    BY <1>4 DEF Cancel, CancelLoad, CancelCommit, Busy
  <1>5. ASSUME NEW r \in Requests, ReportManual(r)
        PROVE  Busy' /\ Counted'
    <2>1. PICK st \in ManualStatus : ManualCommit(r, st)
      BY <1>5 DEF ReportManual, ManualLoad, ManualStatus
    <2> QED
      BY <2>1 DEF ManualCommit, OneMessage, Executors
  <1>6. ASSUME NEW j \in Jobs, NEW b \in Brokers, Captcha(j, b)
        PROVE  Busy' /\ Counted'
    <2>1. UNCHANGED <<status, request, pc, job, cancelling>>
      BY <1>6, CaptchaRefused
      DEF Captcha, CaptchaAges, DropCaptcha, SolveCaptcha, sessions, broker, cancels
    <2> QED
      BY <2>1, CountedElsewhere
  <1>7. ASSUME NEW w \in Workers, NEW j \in Jobs, Take(w, j)
        PROVE  Busy' /\ Counted'
    <2>1. UNCHANGED <<status, request, cancelling>>
      BY <1>7 DEF Take, rows, cancels
    <2>2. CASE status[j] \in TerminalJob
      <3>1. UNCHANGED <<pc, job>>
        BY <1>7, <2>2 DEF Take
      <3> QED
        BY <2>1, <3>1, CountedElsewhere
    <2>3. CASE status[j] \notin TerminalJob
      <3>1. /\ w \in Executors /\ job'[w] = j
            /\ \A d \in Executors : d # w => pc'[d] = pc[d] /\ job'[d] = job[d]
        <4>1. /\ w \in Executors
              /\ pc' = [pc EXCEPT ![w] = "loaded"]
              /\ job' = [job EXCEPT ![w] = j]
          BY <1>7, <2>3 DEF Take, Load, Executors
        <4> QED
          BY <4>1 DEF TypeOK
      <3>2. status[j] # "absent"
        <4>1. queue[j] > 0 /\ queue[j] \in Nat
          BY <1>7 DEF Take, TypeOK
        <4>2. queue[j] # 0
          BY <4>1
        <4> QED
          BY <4>2 DEF Placed
      <3>3. status[j] \in ActiveJob
        BY <2>3, <3>2 DEF TypeOK, JobStatus
      <3>4. \A d \in Executors : pc'[d] # "idle" => status'[job'[d]] \in ActiveJob
        BY <2>1, <3>1, <3>3 DEF Busy
      <3>5. \A i \in Jobs : ~cancelling'[i]
        BY <2>1 DEF Busy
      <3> QED
        BY <2>1, <3>4, <3>5, CountedKept
    <2> QED
      BY <2>2, <2>3
  <1>8. ASSUME NEW e \in Executors,
               StartExpired(e) \/ SeeCancelled(e) \/ SeeExpired(e) \/ Crash(e) \/ TaskFails(e)
        PROVE  Busy' /\ Counted'
    <2>1. EndJob(e) /\ pc[e] # "idle" /\ UNCHANGED <<request, cancelling>>
      BY <1>8 DEF StartExpired, SeeCancelled, SeeExpired, Crash, TaskFails, broker, cancels
    <2>2. status' \in {status, [status EXCEPT ![job[e]] = "timed_out"]}
      BY <1>8 DEF StartExpired, SeeCancelled, SeeExpired, Crash, TaskFails, rows
    <2> QED
      BY <2>1, <2>2, CountedEnd
  <1>9. ASSUME NEW e \in Executors, Finalize(e)
        PROVE  Busy' /\ Counted'
    <2>1. EndJob(e) /\ pc[e] # "idle" /\ UNCHANGED <<request, cancelling>>
      BY <1>9 DEF Finalize, broker, cancels
    <2>2. status' \in {status, [status EXCEPT ![job[e]] = Verdict(e)]}
      BY <1>9 DEF Finalize, WriteJob
    <2> QED
      BY <2>1, <2>2, CountedEnd
  <1>10. ASSUME NEW e \in Executors, NEW st \in {"running", "waiting_captcha"},
                status' \in {status, [status EXCEPT ![job[e]] = st]},
                UNCHANGED <<request, job, cancelling>>, pc[e] # "idle",
                \E stage \in Stage : pc' = [pc EXCEPT ![e] = stage]
         PROVE  Busy' /\ Counted'
    <2>1. \A d \in Executors : pc'[d] # "idle" => pc[d] # "idle" /\ job'[d] = job[d]
      BY <1>10 DEF TypeOK
    <2>2. st \in ActiveJob
      BY DEF ActiveJob, WaitingJob
    <2> QED
      BY <1>10, <2>1, <2>2, CountedWrite
  <1>11. ASSUME NEW e \in Executors, Start(e) \/ LeaveLoop(e) \/ Begin(e) \/ RecordResult(e)
         PROVE  Busy' /\ Counted'
    <2>1. /\ pc[e] # "idle" /\ UNCHANGED <<request, job, cancelling>>
          /\ status' \in {status, [status EXCEPT ![job[e]] = "running"]}
      BY <1>11 DEF Start, LeaveLoop, Begin, RecordResult, rows, broker, cancels
    <2>2. \E stage \in Stage : pc' = [pc EXCEPT ![e] = stage]
      BY <1>11 DEF Start, LeaveLoop, Begin, RecordResult, NextItem, Stage
    <2> QED
      BY <1>10, <2>1, <2>2
  <1>12. ASSUME NEW e \in Executors, RecordCaptcha(e)
         PROVE  Busy' /\ Counted'
    <2>1. /\ pc[e] # "idle" /\ UNCHANGED <<request, job, cancelling>>
          /\ status' \in {status, [status EXCEPT ![job[e]] = "waiting_captcha"]}
      BY <1>12 DEF RecordCaptcha, WriteJob, broker, cancels
    <2>2. \E stage \in Stage : pc' = [pc EXCEPT ![e] = stage]
      BY <1>12 DEF RecordCaptcha, NextItem, Stage
    <2> QED
      BY <1>10, <2>1, <2>2
  <1>13. ASSUME NEW e \in Executors, NEW b \in Brokers, PassOver(e, b) \/ Select(e, b)
         PROVE  Busy' /\ Counted'
    <2>1. /\ UNCHANGED <<status, request, job, cancelling>> /\ pc[e] # "idle"
          /\ pc' \in {pc, [pc EXCEPT ![e] = "checked"]}
      BY <1>13 DEF PassOver, Select, Proceed, rows, broker, cancels
    <2>2. \A d \in Executors : pc'[d] # "idle" => pc[d] # "idle"
      BY <2>1 DEF TypeOK
    <2> QED
      BY <2>1, <2>2, CountedElsewhere
  <1>14. ASSUME NEW e \in Executors,
                \/ \E st \in {"error", "skipped_fresh"} : SettleWithoutRun(e, st)
                \/ \E o \in RunnerResult, formSent \in BOOLEAN : RunBroker(e, o, formSent)
                \/ \E v \in VerifyResult : VerifyRemoval(e, v)
         PROVE  Busy' /\ Counted'
    <2>1. pc[e] # "idle" /\ UNCHANGED <<status, request, job, cancelling>>
      BY <1>14 DEF SettleWithoutRun, RunBroker, VerifyRemoval, rows, broker, cancels
    <2>2. \E stage \in Stage : pc' = [pc EXCEPT ![e] = stage]
      BY <1>14 DEF SettleWithoutRun, RunBroker, VerifyRemoval, NextItem, Stage
    <2> QED
      BY <1>10, <2>1, <2>2
  <1>15. ASSUME NEW e \in Executors, Redeliver(e)
         PROVE  Busy' /\ Counted'
    BY <1>15 DEF Redeliver
  <1>16. ASSUME NEW j \in Jobs, DeadlinePasses(j)
         PROVE  Busy' /\ Counted'
    BY <1>16, CountedElsewhere DEF DeadlinePasses, rows, broker, sessions, cancels
  <1>17. ASSUME UNCHANGED vars
         PROVE  Busy' /\ Counted'
    BY <1>17, CountedElsewhere DEF vars, rows, broker, sessions, cancels
  <1> QED
    BY <1>1, <1>2, <1>3, <1>4, <1>5, <1>6, <1>7, <1>8, <1>9, <1>11, <1>12, <1>13, <1>14, <1>15,
       <1>16, <1>17
    DEF Next, Create, ExecuteJob, Fault

\* Nothing is requested, cancelled or executed at first.
LEMMA CountedInit == Init => Busy /\ Counted
  <1> SUFFICES ASSUME Init PROVE Busy /\ Counted
    OBVIOUS
  <1>1. {j \in Jobs : request[j] # "idle"} = {} /\ ActiveOrAdmitted = {}
    BY DEF Init, ActiveOrAdmitted, ActiveJob, WaitingJob
  <1>2. IsFiniteSet({}) /\ Cardinality({}) = 0
    BY FS_EmptySet
  <1>3. \A j \in Jobs : request[j] # "admitted" /\ ~cancelling[j]
    BY DEF Init
  <1>4. \A e \in Executors : pc[e] = "idle"
    BY DEF Init
  <1>5. IsFiniteSet({j \in Jobs : request[j] # "idle"})
    BY <1>1, <1>2
  <1>6. Cardinality(ActiveOrAdmitted) <= MaxJobs
    BY <1>1, <1>2, RemediationAssumption
  <1> QED
    BY <1>3, <1>4, <1>5, <1>6 DEF Busy, Counted

\* While a user sends one create request at a time, cancels no job and reports no manual
\* step, and no message is delivered beside the worker that holds it, the user has no more
\* unfinished jobs than broker_max_concurrent_jobs_per_user.
THEOREM JobQuotaHolds ==
  ASSUME Events \cap {"race", "cancel", "manual", "overlap"} = {}
  PROVE  Spec => []QuotaRespected
  <1> DEFINE Inv == TypeOK /\ Placed /\ Unasked /\ Forward /\ OneMessage /\ Busy /\ Counted
  <1>1. Inv /\ [Next]_vars => Inv'
    BY TypeStep, PlacedStep, UnaskedStep, ForwardStep, OneMessageStep, CountedStep
  <1>2. Inv => QuotaRespected
    <2> SUFFICES ASSUME Inv PROVE Cardinality({j \in Jobs : status[j] \in ActiveJob}) <= MaxJobs
      BY DEF QuotaRespected
    <2> DEFINE active == {j \in Jobs : status[j] \in ActiveJob}
    <2>1. active \in SUBSET ActiveOrAdmitted
      BY DEF ActiveOrAdmitted
    <2>2. Cardinality(active) <= Cardinality(ActiveOrAdmitted) /\ Cardinality(active) \in Nat
      BY <2>1, CountedFinite, FS_Subset, FS_CardinalityType
    <2>3. Cardinality(ActiveOrAdmitted) <= MaxJobs
      BY DEF Counted
    <2> QED
      BY <2>2, <2>3, CountedFinite, RemediationAssumption
  <1>3. Init => Inv
    BY InitHolds, CountedInit
  <1> QED
    BY <1>1, <1>2, <1>3, PTL DEF Spec

-----------------------------------------------------------------------------
\* The executor holds a form the broker accepted.
Accepted(e) == pc[e] \in {"verifying", "called"} /\ accepted[e]

\* A broker whose successes were recorded got no form, or one that the next job finds or
\* that an executor still holds; it got none when the browser is about to run for it.
Windowed ==
  /\ \A b \in Brokers :
       b \notin unconfirmed \cup lost =>
         \/ forms[b] = 0
         \/ forms[b] = 1 /\ (optout[b].fresh \/ \E e \in Executors : Accepted(e) /\ current[e] = b)
  /\ \A e \in Executors :
       /\ pc[e] = "calling" /\ current[e] \notin unconfirmed \cup lost => forms[current[e]] = 0
       /\ pc[e] = "called" /\ outcome[e] = "captcha_needed" => ~accepted[e]

\* Where a user may have one job, one executor is at work.
LEMMA OneBusy ==
  ASSUME MaxJobs = 1, TypeOK, Placed, OneMessage, Busy, Counted,
         NEW d \in Executors, NEW e \in Executors, pc[d] # "idle", pc[e] # "idle"
  PROVE  d = e
  <1>1. job[d] \in ActiveOrAdmitted /\ job[e] \in ActiveOrAdmitted
    BY DEF Placed, Busy, ActiveOrAdmitted
  <1>2. SUFFICES ASSUME job[d] # job[e] PROVE FALSE
    BY DEF OneMessage
  <1>3. Cardinality({job[d]} \cup {job[e]}) = 2
    <2>1. IsFiniteSet({job[d]}) /\ Cardinality({job[d]}) = 1
      BY FS_Singleton
    <2>2. Cardinality({job[d]} \cup {job[e]}) = Cardinality({job[d]}) + 1
      BY <1>2, <2>1, FS_AddElement
    <2> QED
      BY <2>1, <2>2
  <1>4. {job[d]} \cup {job[e]} \in SUBSET ActiveOrAdmitted
    BY <1>1
  <1>5. Cardinality({job[d]} \cup {job[e]}) <= Cardinality(ActiveOrAdmitted)
    BY <1>4, CountedFinite, FS_Subset
  <1>6. Cardinality(ActiveOrAdmitted) <= 1
    BY DEF Counted
  <1> QED
    BY <1>3, <1>5, <1>6, CountedFinite

\* A step that sends nothing, forgets no success, drops no accepted form that is recorded
\* nowhere and starts no browser.
LEMMA WindowedKept ==
  ASSUME Placed, Windowed, UNCHANGED forms,
         unconfirmed \subseteq unconfirmed', lost \subseteq lost',
         \A b \in Brokers : optout[b].fresh => optout'[b].fresh,
         \A d \in Executors :
           Accepted(d) /\ current[d] \notin lost' =>
             \/ Accepted(d)' /\ current'[d] = current[d]
             \/ optout'[current[d]].fresh,
         \A d \in Executors :
           /\ pc'[d] = "calling" => pc[d] = "calling" /\ current'[d] = current[d]
           /\ pc'[d] = "called" /\ outcome'[d] = "captcha_needed" /\ accepted'[d] =>
                pc[d] = "called" /\ outcome[d] = "captcha_needed" /\ accepted[d]
  PROVE  Windowed'
  <1>1. ASSUME NEW b \in Brokers, b \notin unconfirmed' \cup lost', forms'[b] # 0
        PROVE  /\ forms'[b] = 1
               /\ optout'[b].fresh \/ \E e \in Executors : Accepted(e)' /\ current'[e] = b
    <2>1. forms[b] = 1 /\ (optout[b].fresh \/ \E e \in Executors : Accepted(e) /\ current[e] = b)
      BY <1>1 DEF Windowed
    <2>2. CASE optout[b].fresh
      BY <2>1, <2>2
    <2>3. CASE \E e \in Executors : Accepted(e) /\ current[e] = b
      BY <1>1, <2>1, <2>3
    <2> QED
      BY <2>1, <2>2, <2>3
  <1>2. ASSUME NEW e \in Executors, pc'[e] = "calling", current'[e] \notin unconfirmed' \cup lost'
        PROVE  forms'[current'[e]] = 0
    <2>1. pc[e] = "calling" /\ current'[e] = current[e] /\ current[e] \in Brokers
      BY <1>2 DEF Placed
    <2> QED
      BY <1>2, <2>1 DEF Windowed
  <1>3. ASSUME NEW e \in Executors, pc'[e] = "called", outcome'[e] = "captcha_needed"
        PROVE  ~accepted'[e]
    BY <1>3 DEF Windowed
  <1> QED
    BY <1>1, <1>2, <1>3 DEF Windowed

\* A step of an executor that holds no accepted form and starts no browser, and leaves the
\* brokers' rows.
LEMMA WindowedOn ==
  ASSUME Placed, Windowed, UNCHANGED <<forms, unconfirmed, lost, optout>>,
         NEW e \in Executors, ~Accepted(e), pc'[e] \notin {"calling", "verifying", "called"},
         \A d \in Executors :
           d # e => /\ pc'[d] = pc[d] /\ current'[d] = current[d]
                    /\ outcome'[d] = outcome[d] /\ accepted'[d] = accepted[d]
  PROVE  Windowed'
BY WindowedKept DEF Accepted

\* The browser is started where nothing was accepted, and what it is given is recorded
\* before it is started again.
LEMMA WindowedStep ==
  ASSUME MaxJobs = 1, "manual" \notin Events
  PROVE  TypeOK /\ Placed /\ Unasked /\ Forward /\ OneMessage /\ Busy /\ Counted /\ Windowed
         /\ [Next]_vars => Windowed'
  <1> SUFFICES ASSUME TypeOK, Placed, Unasked, Forward, OneMessage, Busy, Counted, Windowed,
                      [Next]_vars
               PROVE  Windowed'
    OBVIOUS
  <1>1. ASSUME UNCHANGED <<forms, unconfirmed, lost, optout, pc, current, outcome, accepted>>
        PROVE  Windowed'
    BY <1>1, WindowedKept DEF Accepted
  <1>2. ASSUME NEW j \in Jobs, Create(j) \/ Cancel(j) \/ DeadlinePasses(j)
        PROVE  Windowed'
    BY <1>1, <1>2
    DEF Create, Admit, Store, Enqueue, LoseEnqueue, Cancel, CancelLoad, CancelCommit,
        DeadlinePasses, rows, sessions, record
  <1>3. ASSUME NEW r \in Requests, ReportManual(r)
        PROVE  Windowed'
    <2>1. PICK st \in ManualStatus : ManualCommit(r, st)
      BY <1>3 DEF ReportManual, ManualLoad, ManualStatus
    <2> QED
      BY <2>1 DEF ManualCommit, OneMessage, Executors
  <1>4. ASSUME NEW j \in Jobs, NEW b \in Brokers, Captcha(j, b)
        PROVE  Windowed'
    BY <1>1, <1>4, CaptchaRefused DEF Captcha, CaptchaAges, DropCaptcha, SolveCaptcha, sessions,
      record
  <1>5. ASSUME NEW w \in Workers, NEW j \in Jobs, Take(w, j)
        PROVE  Windowed'
    <2>1. /\ w \in Executors /\ pc[w] = "idle"
          /\ UNCHANGED <<forms, unconfirmed, lost, optout, current, outcome, accepted>>
          /\ pc' \in {pc, [pc EXCEPT ![w] = "loaded"]}
      BY <1>5 DEF Take, rows, record, Executors
    <2>2. pc'[w] \in {"idle", "loaded"} /\ \A d \in Executors : d # w => pc'[d] = pc[d]
      BY <2>1 DEF TypeOK
    <2> QED
      BY <2>1, <2>2, WindowedOn DEF Accepted
  <1>6. ASSUME NEW e \in Executors,
               StartExpired(e) \/ SeeCancelled(e) \/ SeeExpired(e) \/ Finalize(e)
        PROVE  Windowed'
    <2>1. EndJob(e) /\ UNCHANGED <<forms, unconfirmed, lost, optout>>
          /\ pc[e] \in {"loaded", "loop", "finalize"}
      BY <1>6 DEF StartExpired, SeeCancelled, SeeExpired, Finalize, rows, record
    <2>2. /\ pc'[e] = "idle"
          /\ \A d \in Executors :
               d # e => /\ pc'[d] = pc[d] /\ current'[d] = current[d]
                        /\ outcome'[d] = outcome[d] /\ accepted'[d] = accepted[d]
      BY <2>1 DEF EndJob, TypeOK
    <2> QED
      BY <2>1, <2>2, WindowedOn DEF Accepted
  <1>7. ASSUME NEW e \in Executors, Crash(e) \/ TaskFails(e)
        PROVE  Windowed'
    <2>1. EndJob(e) /\ LoseResult(e) /\ UNCHANGED <<forms, unconfirmed, optout>>
      BY <1>7 DEF Crash, TaskFails, rows
    <2>2. /\ pc'[e] = "idle"
          /\ \A d \in Executors :
               d # e => /\ pc'[d] = pc[d] /\ current'[d] = current[d]
                        /\ outcome'[d] = outcome[d] /\ accepted'[d] = accepted[d]
      BY <2>1 DEF EndJob, TypeOK
    <2>3. lost \subseteq lost' /\ (Accepted(e) => current[e] \in lost')
      BY <2>1 DEF LoseResult, Accepted
    <2> QED
      BY <2>1, <2>2, <2>3, WindowedKept DEF Accepted
  <1>8. ASSUME NEW e \in Executors, Start(e) \/ LeaveLoop(e)
        PROVE  Windowed'
    <2>1. /\ pc[e] \in {"loaded", "loop"}
          /\ UNCHANGED <<forms, unconfirmed, lost, optout, current, outcome, accepted>>
          /\ pc' = [pc EXCEPT ![e] = "loop"] \/ pc' = [pc EXCEPT ![e] = "finalize"]
      BY <1>8 DEF Start, LeaveLoop, rows, record
    <2>2. pc'[e] \in {"loop", "finalize"} /\ \A d \in Executors : d # e => pc'[d] = pc[d]
      BY <2>1 DEF TypeOK
    <2> QED
      BY <2>1, <2>2, WindowedOn DEF Accepted
  <1>9. ASSUME NEW e \in Executors, NEW b \in Brokers, PassOver(e, b) \/ Select(e, b)
        PROVE  Windowed'
    <2>1. CASE PassOver(e, b)
      BY <1>1, <2>1 DEF PassOver, rows, record
    <2>2. CASE Select(e, b)
      <3>1. /\ pc' = [pc EXCEPT ![e] = "checked"] /\ pc[e] = "loop"
            /\ UNCHANGED <<forms, unconfirmed, lost, optout, outcome, accepted>>
            /\ current' = [current EXCEPT ![e] = b]
        BY <2>2 DEF Select, Proceed, rows, record
      <3>2. /\ pc'[e] = "checked"
            /\ \A d \in Executors : d # e => pc'[d] = pc[d] /\ current'[d] = current[d]
        BY <3>1 DEF TypeOK
      <3> QED
        BY <3>1, <3>2, WindowedOn DEF Accepted
    <2> QED
      BY <1>9, <2>1, <2>2
  <1>10. ASSUME NEW e \in Executors, NEW st \in {"error", "skipped_fresh"},
                SettleWithoutRun(e, st)
         PROVE  Windowed'
    <2>1. pc[e] = "checked" /\ NextItem(e) /\ UNCHANGED <<forms, unconfirmed, lost, optout>>
      BY <1>10 DEF SettleWithoutRun, record
    <2>2. /\ pc'[e] = "loop"
          /\ \A d \in Executors :
               d # e => /\ pc'[d] = pc[d] /\ current'[d] = current[d]
                        /\ outcome'[d] = outcome[d] /\ accepted'[d] = accepted[d]
      BY <2>1 DEF NextItem, TypeOK
    <2> QED
      BY <2>1, <2>2, WindowedOn DEF Accepted
  <1>11. ASSUME NEW e \in Executors, Begin(e)
         PROVE  Windowed'
    <2>1. /\ UNCHANGED <<forms, unconfirmed, lost, optout, current, outcome, accepted>>
          /\ current[e] \in Brokers /\ pc[e] = "checked"
          /\ ~optout[current[e]].fresh
          /\ pc' = [pc EXCEPT ![e] = "calling"]
      BY <1>11 DEF Begin, IsFresh, Placed, record
    <2>2. pc'[e] = "calling" /\ \A d \in Executors : d # e => pc[d] = "idle" /\ pc'[d] = "idle"
      <3>1. \A d \in Executors : d # e => pc[d] = "idle"
        BY <2>1, OneBusy
      <3> QED
        BY <2>1, <3>1 DEF TypeOK
    <2>3. \A d \in Executors : ~Accepted(d)
      BY <2>1, <2>2 DEF Accepted
    <2>4. current[e] \notin unconfirmed \cup lost => forms[current[e]] = 0
      BY <2>1, <2>3 DEF Windowed
    <2>5. \A b \in Brokers :
            b \notin unconfirmed' \cup lost' =>
              forms'[b] = 0 \/ (forms'[b] = 1 /\ optout'[b].fresh)
      BY <2>1, <2>3 DEF Windowed
    <2>6. \A d \in Executors :
            /\ pc'[d] = "calling" /\ current'[d] \notin unconfirmed' \cup lost' =>
                 forms'[current'[d]] = 0
            /\ pc'[d] = "called" /\ outcome'[d] = "captcha_needed" => ~accepted'[d]
      BY <2>1, <2>2, <2>4
    <2> QED
      BY <2>5, <2>6 DEF Windowed
  <1>12. ASSUME NEW e \in Executors, NEW o \in RunnerResult, NEW formSent \in BOOLEAN,
                RunBroker(e, o, formSent)
         PROVE  Windowed'
    <2> DEFINE b == current[e]
    <2>1. /\ pc[e] = "calling" /\ b \in Brokers /\ UNCHANGED <<optout, current>>
          /\ outcome' = [outcome EXCEPT ![e] = o]
          /\ accepted' = [accepted EXCEPT ![e] = Success(e, o)]
          /\ pc' = [pc EXCEPT ![e] = IF Success(e, o) THEN "verifying" ELSE "called"]
          /\ forms' = IF formSent THEN [forms EXCEPT ![b] = @ + 1] ELSE forms
          /\ unconfirmed' = IF formSent /\ ~Success(e, o) THEN unconfirmed \cup {b}
                            ELSE unconfirmed
          /\ lost' = lost
      BY <1>12 DEF RunBroker, Placed, rows
    <2>2. /\ Success(e, o) \in BOOLEAN /\ (Success(e, o) => formSent)
          /\ o = "captcha_needed" => ~Success(e, o)
      BY <1>12 DEF RunBroker, Success
    <2>3. \A d \in Executors : d # e => pc[d] = "idle"
      BY <2>1, OneBusy
    <2>4. /\ pc'[e] = IF Success(e, o) THEN "verifying" ELSE "called"
          /\ accepted'[e] = Success(e, o) /\ outcome'[e] = o
          /\ \A d \in Executors : d # e => pc'[d] = "idle"
      BY <2>1, <2>3 DEF TypeOK
    <2>5. \A d \in Executors : ~Accepted(d)
      BY <2>1, <2>3 DEF Accepted
    <2>6. /\ forms'[b] = IF formSent THEN forms[b] + 1 ELSE forms[b]
          /\ \A c \in Brokers : c # b => forms'[c] = forms[c]
      BY <2>1 DEF TypeOK
    <2>7. /\ formSent /\ ~Success(e, o) => b \in unconfirmed'
          /\ unconfirmed \subseteq unconfirmed'
      <3>1. CASE formSent /\ ~Success(e, o)
        BY <2>1, <3>1 DEF TypeOK
      <3>2. CASE ~(formSent /\ ~Success(e, o))
        BY <2>1, <3>2
      <3> QED
        BY <3>1, <3>2
    <2>8. ASSUME NEW c \in Brokers, c \notin unconfirmed' \cup lost'
          PROVE  \/ forms'[c] = 0
                 \/ forms'[c] = 1 /\ (optout'[c].fresh
                                      \/ \E d \in Executors : Accepted(d)' /\ current'[d] = c)
      <3>1. CASE c # b
        BY <2>1, <2>5, <2>6, <2>7, <2>8, <3>1 DEF Windowed
      <3>2. CASE c = b /\ formSent
        <4>1. Success(e, o) /\ b \notin unconfirmed \cup lost
          BY <2>1, <2>7, <2>8, <3>2
        <4>2. forms[b] = 0
          BY <2>1, <4>1 DEF Windowed
        <4>3. Accepted(e)' /\ current'[e] = b
          BY <2>1, <2>4, <4>1 DEF Accepted
        <4> QED
          BY <2>6, <3>2, <4>2, <4>3
      <3>3. CASE c = b /\ ~formSent
        <4>1. b \notin unconfirmed \cup lost
          BY <2>1, <2>7, <2>8, <3>3
        <4>2. forms[b] = 0
          BY <2>1, <4>1 DEF Windowed
        <4> QED
          BY <2>6, <3>3, <4>2
      <3> QED
        BY <3>1, <3>2, <3>3
    <2>9. \A d \in Executors :
            /\ pc'[d] # "calling"
            /\ pc'[d] = "called" /\ outcome'[d] = "captcha_needed" => ~accepted'[d]
      BY <2>2, <2>4
    <2> QED
      BY <2>8, <2>9 DEF Windowed
  <1>13. ASSUME NEW e \in Executors, NEW v \in VerifyResult, VerifyRemoval(e, v)
         PROVE  Windowed'
    <2>1. /\ pc[e] = "verifying" /\ v # "captcha_needed"
          /\ UNCHANGED <<forms, unconfirmed, lost, optout, current, accepted>>
          /\ outcome' = [outcome EXCEPT ![e] = v] /\ pc' = [pc EXCEPT ![e] = "called"]
      BY <1>13 DEF VerifyRemoval, VerifyResult, rows, record
    <2>2. /\ pc'[e] = "called" /\ outcome'[e] = v
          /\ \A d \in Executors : d # e => pc'[d] = pc[d] /\ outcome'[d] = outcome[d]
      BY <2>1 DEF TypeOK
    <2> QED
      BY <2>1, <2>2, WindowedKept DEF Accepted
  <1>14. ASSUME NEW e \in Executors, RecordResult(e)
         PROVE  Windowed'
    <2>1. /\ pc[e] = "called" /\ current[e] \in Brokers /\ accepted[e] \in BOOLEAN
          /\ optout' = [optout EXCEPT ![current[e]] =
                          [status |-> outcome[e], fresh |-> @.fresh \/ accepted[e]]]
          /\ NextItem(e) /\ UNCHANGED <<forms, unconfirmed, lost>>
      BY <1>14 DEF RecordResult, Placed, TypeOK
    <2>2. /\ pc'[e] = "loop"
          /\ \A d \in Executors :
               d # e => /\ pc'[d] = pc[d] /\ current'[d] = current[d]
                        /\ outcome'[d] = outcome[d] /\ accepted'[d] = accepted[d]
      BY <2>1 DEF NextItem, TypeOK
    <2>3. /\ optout'[current[e]].fresh = (optout[current[e]].fresh \/ accepted[e])
          /\ \A b \in Brokers : b # current[e] => optout'[b] = optout[b]
      BY <2>1 DEF TypeOK
    <2>4. \A b \in Brokers : optout[b].fresh => optout'[b].fresh
      BY <2>3
    <2>5. Accepted(e) => optout'[current[e]].fresh
      BY <2>3 DEF Accepted
    <2> QED
      BY <2>1, <2>2, <2>4, <2>5, WindowedKept DEF Accepted
  <1>15. ASSUME NEW e \in Executors, RecordCaptcha(e)
         PROVE  Windowed'
    <2>1. /\ pc[e] = "called" /\ outcome[e] = "captcha_needed" /\ NextItem(e)
          /\ UNCHANGED <<forms, unconfirmed, lost>>
          /\ optout' = [optout EXCEPT ![current[e]].status = "captcha_needed"]
      BY <1>15 DEF RecordCaptcha, record
    <2>2. \A b \in Brokers : optout'[b].fresh = optout[b].fresh
      <3>1. optout' = [optout EXCEPT ![current[e]] = [@ EXCEPT !.status = "captcha_needed"]]
        BY <2>1
      <3>2. optout \in [Brokers -> [status : ItemStatus \cup {"none"}, fresh : BOOLEAN]]
        BY DEF TypeOK
      <3>3. current[e] \in Brokers
        BY <2>1 DEF Placed
      <3>4. optout'[current[e]] = [optout[current[e]] EXCEPT !.status = "captcha_needed"]
        BY <3>1, <3>2, <3>3
      <3>5. optout'[current[e]].fresh = optout[current[e]].fresh
        BY <3>2, <3>3, <3>4
      <3>6. \A b \in Brokers : b # current[e] => optout'[b] = optout[b]
        BY <3>1, <3>2
      <3> QED
        BY <3>5, <3>6
    <2>3. /\ pc'[e] = "loop"
          /\ \A d \in Executors :
               d # e => /\ pc'[d] = pc[d] /\ current'[d] = current[d]
                        /\ outcome'[d] = outcome[d] /\ accepted'[d] = accepted[d]
      BY <2>1 DEF NextItem, TypeOK
    <2>4. ~Accepted(e)
      BY <2>1 DEF Accepted, Windowed
    <2> QED
      BY <2>1, <2>2, <2>3, <2>4, WindowedKept DEF Accepted
  <1>16. ASSUME NEW e \in Executors, Redeliver(e)
         PROVE  Windowed'
    BY <1>1, <1>16 DEF Redeliver, rows, record
  <1>17. ASSUME UNCHANGED vars
         PROVE  Windowed'
    BY <1>1, <1>17 DEF vars, rows, sessions, record
  <1> QED
    BY <1>2, <1>3, <1>4, <1>5, <1>6, <1>7, <1>8, <1>9, <1>10, <1>11, <1>12, <1>13, <1>14, <1>15,
       <1>16, <1>17
    DEF Next, ExecuteJob, Fault

\* With the default quota of one job, and while a user sends one create request at a time,
\* cancels no job and reports no manual step, and no message is delivered beside the worker
\* that holds it, a broker gets at most one form per recheck window, whatever crashes,
\* fails or expires, unless one of its forms was accepted without a record of it.
THEOREM WindowsAreRespected ==
  ASSUME MaxJobs = 1, Events \cap {"race", "cancel", "manual", "overlap"} = {}
  PROVE  Spec => []OneFormPerWindow
  <1> DEFINE Inv == /\ TypeOK /\ Placed /\ Unasked /\ Forward /\ OneMessage
                    /\ Busy /\ Counted /\ Windowed
  <1>1. Inv /\ [Next]_vars => Inv'
    BY TypeStep, PlacedStep, UnaskedStep, ForwardStep, OneMessageStep, CountedStep, WindowedStep
  <1>2. Inv => OneFormPerWindow
    <2> SUFFICES ASSUME Inv, NEW b \in Brokers, b \notin unconfirmed \cup lost
                 PROVE  forms[b] <= 1
      BY DEF OneFormPerWindow
    <2> QED
      BY DEF Windowed
  <1>3. Init => Windowed
    BY DEF Init, Windowed, Accepted
  <1>4. Init => Inv
    BY <1>3, InitHolds, CountedInit
  <1> QED
    BY <1>1, <1>2, <1>4, PTL DEF Spec
=============================================================================

------------------------- MODULE RemediationEngine -------------------------
(***************************************************************************)
(* The remediation engine: opt-out jobs, executed broker by broker by a    *)
(* Celery worker or, when a user reports a manual step, by the API request *)
(* itself.  As in the scan engine every actor works on the copies its      *)
(* session loaded, commits only what it changed, and the last writer wins. *)
(*                                                                         *)
(* One user owns all the jobs.  expired is a job's deadline, optout the    *)
(* user's durable per-broker state (its status and whether the last        *)
(* success is within the recheck window).  Events names the environment    *)
(* events an instance allows.                                              *)
(***************************************************************************)
EXTENDS Naturals, FiniteSets, RemediationStates

CONSTANTS
  Jobs,       \* job ids
  Brokers,    \* Green brokers of the registry
  Workers,    \* Celery worker slots
  Requests,   \* API requests that report manual steps
  MaxJobs,    \* broker_max_concurrent_jobs_per_user
  Events      \* environment events that may happen

\* "race" several create requests are in flight; "lose" an enqueue is lost;
\* "cancel" users cancel; "dry" users preview; "manual" users report manual
\* steps; "captcha" users answer captchas; "deadline" time runs out; "crash",
\* "fail", "overlap" as in the scan engine.
AllEvents == {"race", "lose", "cancel", "dry", "manual", "captcha", "deadline",
              "crash", "fail", "overlap"}

NoJob       == "no job"
NoBroker    == "no broker"
NotSelected == "not selected"

ASSUME RemediationAssumption ==
  /\ Workers \cap Requests = {}
  /\ MaxJobs \in Nat
  /\ Events \subseteq AllEvents
  /\ NoJob \notin Jobs
  /\ NoBroker \notin Brokers

Executors == Workers \cup Requests

\* What the browser runner returns, and what its verification returns.
RunnerResult == {"captcha_needed", "manual_needed", "submitted", "error", "dead"}
VerifyResult == {"verified_removed", "still_listed", "not_listed", "error"}

VARIABLES
  \* rows: jobs, their items, captchas, and the per-broker opt-out state
  status, dry, item, captcha, optout,
  expired, request, queue,
  \* executors: control point, job, unacknowledged message, copies of the rows,
  \* items still to visit, current broker, result, whether the form was accepted
  pc, job, held, memStatus, memItem, todo, current, outcome, accepted,
  \* the session of a cancel request
  cancelling, cancelItem,
  \* forms a job sent, brokers the runner was run for, egress ledger, forms a
  \* broker got from all the jobs, brokers that got one the runner did not report
  \* accepted, or whose acceptance died with its executor, and the answers captcha
  \* solvers got
  sent, ran, ledger, forms, unconfirmed, lost, answer

rows     == <<status, dry, item, captcha, optout>>
broker   == <<request, queue>>
sessions == <<pc, job, held, memStatus, memItem, todo, current, outcome, accepted>>
cancels  == <<cancelling, cancelItem>>
record   == <<sent, ran, ledger, forms, unconfirmed, lost, answer>>
vars     == <<rows, expired, broker, sessions, cancels, record>>

ItemRow == ItemStatus \cup {NotSelected}
NoItems == [b \in Brokers |-> NotSelected]
Stage   == {"idle", "manual", "loaded", "loop", "checked", "calling", "verifying",
            "called", "finalize"}

TypeOK ==
  /\ status \in [Jobs -> JobStatus \cup {"absent"}]
  /\ dry \in [Jobs -> BOOLEAN]
  /\ item \in [Jobs -> [Brokers -> ItemRow]]
  /\ captcha \in [Jobs -> [Brokers -> {"none", "pending", "overdue", "solved",
                                       "skipped", "expired"}]]
  /\ optout \in [Brokers -> [status : ItemStatus \cup {"none"}, fresh : BOOLEAN]]
  /\ expired \in [Jobs -> BOOLEAN]
  /\ request \in [Jobs -> {"idle", "admitted", "stored", "done"}]
  /\ queue \in [Jobs -> Nat]
  /\ pc \in [Executors -> Stage]
  /\ job \in [Executors -> Jobs \cup {NoJob}]
  /\ held \in [Executors -> BOOLEAN]
  /\ memStatus \in [Executors -> JobStatus]
  /\ memItem \in [Executors -> [Brokers -> ItemRow]]
  /\ todo \in [Executors -> SUBSET Brokers]
  /\ current \in [Executors -> Brokers \cup {NoBroker}]
  /\ outcome \in [Executors -> RunnerResult \cup VerifyResult]
  /\ accepted \in [Executors -> BOOLEAN]
  /\ cancelling \in [Jobs -> BOOLEAN]
  /\ cancelItem \in [Jobs -> [Brokers -> ItemRow]]
  /\ sent \in [Jobs -> [Brokers -> Nat]]
  /\ ran \in [Jobs -> SUBSET Brokers]
  /\ ledger \in [Jobs -> SUBSET Brokers]
  /\ forms \in [Brokers -> Nat]
  /\ unconfirmed \in SUBSET Brokers
  /\ lost \in SUBSET Brokers
  /\ answer \in [Jobs -> {"none", "skipped", "expired", "requeued", "server error"}]

Init ==
  /\ status = [j \in Jobs |-> "absent"]
  /\ dry = [j \in Jobs |-> FALSE]
  /\ item = [j \in Jobs |-> NoItems]
  /\ captcha = [j \in Jobs |-> [b \in Brokers |-> "none"]]
  /\ optout = [b \in Brokers |-> [status |-> "none", fresh |-> FALSE]]
  /\ expired = [j \in Jobs |-> FALSE]
  /\ request = [j \in Jobs |-> "idle"]
  /\ queue = [j \in Jobs |-> 0]
  /\ pc = [e \in Executors |-> "idle"]
  /\ job = [e \in Executors |-> NoJob]
  /\ held = [e \in Executors |-> FALSE]
  /\ memStatus = [e \in Executors |-> "pending"]
  /\ memItem = [e \in Executors |-> NoItems]
  /\ todo = [e \in Executors |-> {}]
  /\ current = [e \in Executors |-> NoBroker]
  /\ outcome = [e \in Executors |-> "error"]
  /\ accepted = [e \in Executors |-> FALSE]
  /\ cancelling = [j \in Jobs |-> FALSE]
  /\ cancelItem = [j \in Jobs |-> NoItems]
  /\ sent = [j \in Jobs |-> [b \in Brokers |-> 0]]
  /\ ran = [j \in Jobs |-> {}]
  /\ ledger = [j \in Jobs |-> {}]
  /\ forms = [b \in Brokers |-> 0]
  /\ unconfirmed = {}
  /\ lost = {}
  /\ answer = [j \in Jobs |-> "none"]

-----------------------------------------------------------------------------
(* Starting and cancelling a job.                                          *)

\* Mutated form: jobs that wait for their user are not counted.
BusyJobs == {j \in Jobs : status[j] \in {"pending", "running"}}

ActiveJobs == {j \in Jobs : status[j] \in ActiveJob}

Admit(j) ==
  /\ request[j] = "idle"
  /\ "race" \notin Events => \A i \in Jobs : request[i] # "admitted"
  /\ Cardinality(ActiveJobs) < MaxJobs
  /\ request' = [request EXCEPT ![j] = "admitted"]
  /\ UNCHANGED <<rows, expired, queue, sessions, cancels, record>>

Store(j, selected, preview) ==
  /\ request[j] = "admitted"
  /\ selected # {}
  /\ preview => "dry" \in Events
  /\ status' = [status EXCEPT ![j] = "pending"]
  /\ dry' = [dry EXCEPT ![j] = preview]
  /\ item' = [item EXCEPT ![j] =
                [b \in Brokers |-> IF b \in selected THEN "pending" ELSE NotSelected]]
  /\ request' = [request EXCEPT ![j] = "stored"]
  /\ UNCHANGED <<captcha, optout, expired, queue, sessions, cancels, record>>

Enqueue(j) ==
  /\ request[j] = "stored"
  /\ request' = [request EXCEPT ![j] = "done"]
  /\ queue' = [queue EXCEPT ![j] = @ + 1]
  /\ UNCHANGED <<rows, expired, sessions, cancels, record>>

LoseEnqueue(j) ==
  /\ "lose" \in Events
  /\ request[j] = "stored"
  /\ request' = [request EXCEPT ![j] = "done"]
  /\ UNCHANGED <<rows, expired, queue, sessions, cancels, record>>

CancelLoad(j) ==
  /\ "cancel" \in Events
  /\ ~cancelling[j]
  /\ status[j] \in ActiveJob
  /\ CanTransitionJob(status[j], "cancelled")
  /\ cancelling' = [cancelling EXCEPT ![j] = TRUE]
  /\ cancelItem' = [cancelItem EXCEPT ![j] = item[j]]
  /\ UNCHANGED <<rows, expired, broker, sessions, record>>

\* CANCELLED, also for the items loaded pending, running or at a captcha.
CancelCommit(j) ==
  /\ cancelling[j]
  /\ status' = [status EXCEPT ![j] = "cancelled"]
  /\ item' = [item EXCEPT ![j] =
                [b \in Brokers |->
                   IF cancelItem[j][b] \in {"pending", "running", "captcha_needed"}
                   THEN "cancelled" ELSE @[b]]]
  /\ cancelling' = [cancelling EXCEPT ![j] = FALSE]
  /\ cancelItem' = [cancelItem EXCEPT ![j] = NoItems]
  /\ UNCHANGED <<dry, captcha, optout, expired, broker, sessions, record>>

-----------------------------------------------------------------------------
(* execute_job, in a worker or in the API request that reports a step.     *)

\* The executor's session is closed and its message acknowledged.
EndJob(e) ==
  /\ pc' = [pc EXCEPT ![e] = "idle"]
  /\ job' = [job EXCEPT ![e] = NoJob]
  /\ held' = [held EXCEPT ![e] = FALSE]
  /\ memStatus' = [memStatus EXCEPT ![e] = "pending"]
  /\ memItem' = [memItem EXCEPT ![e] = NoItems]
  /\ todo' = [todo EXCEPT ![e] = {}]
  /\ current' = [current EXCEPT ![e] = NoBroker]
  /\ outcome' = [outcome EXCEPT ![e] = "error"]
  /\ accepted' = [accepted EXCEPT ![e] = FALSE]

Load(e, j) ==
  /\ job' = [job EXCEPT ![e] = j]
  /\ memStatus' = [memStatus EXCEPT ![e] = status[j]]
  /\ memItem' = [memItem EXCEPT ![e] = item[j]]

\* A worker takes a message; a terminal job ends the task at once.
Take(w, j) ==
  /\ pc[w] = "idle"
  /\ queue[j] > 0
  /\ queue' = [queue EXCEPT ![j] = @ - 1]
  /\ IF status[j] \in TerminalJob
     THEN UNCHANGED <<pc, job, held, memStatus, memItem>>
     ELSE /\ Load(w, j)
          /\ pc' = [pc EXCEPT ![w] = "loaded"]
          /\ held' = [held EXCEPT ![w] = TRUE]
  /\ UNCHANGED <<rows, expired, request, todo, current, outcome, accepted, cancels, record>>

\* complete_manual_item loads a job of any status and one of its items ...
ManualLoad(r, j, b) ==
  /\ "manual" \in Events
  /\ pc[r] = "idle"
  /\ status[j] # "absent"
  /\ item[j][b] # NotSelected
  /\ Load(r, j)
  /\ current' = [current EXCEPT ![r] = b]
  /\ pc' = [pc EXCEPT ![r] = "manual"]
  /\ UNCHANGED <<rows, expired, broker, held, todo, outcome, accepted, cancels, record>>

\* ... commits what the user reports of the item, and goes on with execute_job
\* in the same session: nothing more happens when it loaded the job as terminal.
ManualCommit(r, st) ==
  LET j == job[r]
      b == current[r]
  IN /\ pc[r] = "manual"
     /\ item' = IF memItem[r][b] = st THEN item ELSE [item EXCEPT ![j][b] = st]
     /\ optout' = [optout EXCEPT ![b] = [status |-> st, fresh |-> @.fresh \/ st = "submitted"]]
     /\ IF memStatus[r] \in TerminalJob
        THEN EndJob(r)
        ELSE /\ memItem' = [memItem EXCEPT ![r][b] = st]
             /\ current' = [current EXCEPT ![r] = NoBroker]
             /\ pc' = [pc EXCEPT ![r] = "loaded"]
             /\ UNCHANGED <<job, held, memStatus, todo, outcome, accepted>>
     /\ UNCHANGED <<status, dry, captcha, expired, broker, cancels, record>>

\* Past the deadline: TIMED_OUT; the items stay as they are.
StartExpired(e) ==
  /\ pc[e] = "loaded"
  /\ expired[job[e]]
  /\ status' = [status EXCEPT ![job[e]] = "timed_out"]
  /\ EndJob(e)
  /\ UNCHANGED <<dry, item, captcha, optout, expired, broker, cancels, record>>

\* RUNNING is committed, unless the job was loaded as RUNNING.
Start(e) ==
  /\ pc[e] = "loaded"
  /\ ~expired[job[e]]
  /\ status' = IF memStatus[e] = "running" THEN status
               ELSE [status EXCEPT ![job[e]] = "running"]
  /\ memStatus' = [memStatus EXCEPT ![e] = "running"]
  /\ todo' = [todo EXCEPT ![e] = {b \in Brokers : memItem[e][b] # NotSelected}]
  /\ pc' = [pc EXCEPT ![e] = "loop"]
  /\ UNCHANGED <<dry, item, captcha, optout, expired, broker, job, held, memItem, current,
                 outcome, accepted, cancels, record>>

\* The top of the loop refreshes the job and its items.  Only CANCELLED ends the
\* loop; the rest of execute_job then returns.
SeeCancelled(e) ==
  /\ pc[e] = "loop"
  /\ todo[e] # {}
  /\ status[job[e]] = "cancelled"
  /\ EndJob(e)
  /\ UNCHANGED <<rows, expired, broker, cancels, record>>

\* TIMED_OUT is flushed and execute_job returns without a commit: a worker's
\* session closes and the write is rolled back, a request's session commits.
\* A refused transition raises, and nothing is written either.
SeeExpired(e) ==
  /\ pc[e] = "loop"
  /\ todo[e] # {}
  /\ status[job[e]] # "cancelled"
  /\ expired[job[e]]
  /\ status' = IF e \in Requests /\ CanTransitionJob(status[job[e]], "timed_out")
               THEN [status EXCEPT ![job[e]] = "timed_out"] ELSE status
  /\ EndJob(e)
  /\ UNCHANGED <<dry, item, captcha, optout, expired, broker, cancels, record>>

Proceed(e, b) ==
  /\ pc[e] = "loop"
  /\ b \in todo[e]
  /\ status[job[e]] # "cancelled"
  /\ ~expired[job[e]]
  /\ memStatus' = [memStatus EXCEPT ![e] = status[job[e]]]
  /\ memItem' = [memItem EXCEPT ![e] = item[job[e]]]
  /\ todo' = [todo EXCEPT ![e] = @ \ {b}]

PassOver(e, b) ==
  /\ Proceed(e, b)
  /\ item[job[e]][b] # "pending"
  /\ UNCHANGED <<rows, expired, broker, pc, job, held, current, outcome, accepted, cancels,
                 record>>

Select(e, b) ==
  /\ Proceed(e, b)
  /\ item[job[e]][b] = "pending"
  /\ current' = [current EXCEPT ![e] = b]
  /\ pc' = [pc EXCEPT ![e] = "checked"]
  /\ UNCHANGED <<rows, expired, broker, job, held, outcome, accepted, cancels, record>>

\* Mutated form: RUNNING is left to the commit of the result.
WriteItemLate(e, st) ==
  /\ item' = IF st = "running" THEN item ELSE [item EXCEPT ![job[e]][current[e]] = st]
  /\ memItem' = [memItem EXCEPT ![e][current[e]] = st]

\* Mutated form: the verdict of a page that is gone is stored in other words.
WriteItemRaw(e, st) ==
  /\ item' = [item EXCEPT ![job[e]][current[e]] = IF st = "dead" THEN "gone" ELSE st]
  /\ memItem' = [memItem EXCEPT ![e][current[e]] = st]

\* set_item_status on the current item, committed.
WriteItem(e, st) ==
  /\ item' = [item EXCEPT ![job[e]][current[e]] = st]
  /\ memItem' = [memItem EXCEPT ![e][current[e]] = st]

NextItem(e) ==
  /\ current' = [current EXCEPT ![e] = NoBroker]
  /\ outcome' = [outcome EXCEPT ![e] = "error"]
  /\ accepted' = [accepted EXCEPT ![e] = FALSE]
  /\ pc' = [pc EXCEPT ![e] = "loop"]

\* Mutated form: the broker's history is not consulted.
NeverFresh(e) == FALSE

\* is_fresh_optout: the broker accepted a submission within the recheck window.
IsFresh(e) == optout[current[e]].fresh

\* The broker has left the registry, or its last success is recent.
SettleWithoutRun(e, st) ==
  /\ pc[e] = "checked"
  /\ st = "skipped_fresh" => IsFresh(e)
  /\ WriteItem(e, st)
  /\ NextItem(e)
  /\ UNCHANGED <<status, dry, captcha, optout, expired, broker, job, held, memStatus, todo,
                 cancels, record>>

\* RUNNING is committed before the browser is started.
Begin(e) ==
  /\ pc[e] = "checked"
  /\ ~IsFresh(e)
  /\ WriteItem(e, "running")
  /\ pc' = [pc EXCEPT ![e] = "calling"]
  /\ UNCHANGED <<status, dry, captcha, optout, expired, broker, job, held, memStatus, todo,
                 current, outcome, accepted, cancels, record>>

\* Mutated form: an ambiguous result counts as accepted.
NotRefused(e, o) == o \in {"submitted", "error"} /\ ~dry[job[e]]

\* Only a submitted form that was no preview is a success, and is verified.
Success(e, o) == o = "submitted" /\ ~dry[job[e]]

\* run_broker: a CAPTCHA stops it before the form; an error may come before or
\* after the form is sent, and then nobody knows whether the broker accepted it;
\* a preview fills the form, reports submitted and sends nothing.
RunBroker(e, o, formSent) ==
  LET j == job[e]
      b == current[e]
  IN /\ pc[e] = "calling"
     /\ formSent => ~dry[j] /\ o # "captcha_needed"
     /\ o = "submitted" => formSent \/ dry[j]
     /\ outcome' = [outcome EXCEPT ![e] = o]
     /\ accepted' = [accepted EXCEPT ![e] = Success(e, o)]
     /\ sent' = IF formSent THEN [sent EXCEPT ![j][b] = @ + 1] ELSE sent
     /\ forms' = IF formSent THEN [forms EXCEPT ![b] = @ + 1] ELSE forms
     /\ unconfirmed' = IF formSent /\ ~Success(e, o) THEN unconfirmed \cup {b} ELSE unconfirmed
     /\ ran' = [ran EXCEPT ![j] = @ \cup {b}]
     /\ pc' = [pc EXCEPT ![e] = IF Success(e, o) THEN "verifying" ELSE "called"]
     /\ UNCHANGED <<rows, expired, broker, job, held, memStatus, memItem, todo, current,
                    cancels, ledger, lost, answer>>

\* verify_not_listed, after an accepted form; its verdict replaces the result.
VerifyRemoval(e, v) ==
  /\ pc[e] = "verifying"
  /\ outcome' = [outcome EXCEPT ![e] = v]
  /\ pc' = [pc EXCEPT ![e] = "called"]
  /\ UNCHANGED <<rows, expired, broker, job, held, memStatus, memItem, todo, current, accepted,
                 cancels, record>>

\* Mutated form: only an accepted form is recorded.
EgressOfSuccess(e) == IF accepted[e] THEN {current[e]} ELSE {}

\* record_egress: every broker run that gets here has its ledger row.
RecordEgress(e) == {current[e]}

\* Everything but a CAPTCHA: item, broker state and egress ledger, one commit.
RecordResult(e) ==
  LET b == current[e]
  IN /\ pc[e] = "called"
     /\ outcome[e] # "captcha_needed"
     /\ WriteItem(e, outcome[e])
     /\ NextItem(e)
     /\ optout' = [optout EXCEPT ![b] = [status |-> outcome[e], fresh |-> @.fresh \/ accepted[e]]]
     /\ ledger' = [ledger EXCEPT ![job[e]] = @ \cup RecordEgress(e)]
     /\ UNCHANGED <<status, dry, captcha, expired, broker, job, held, memStatus, todo, cancels,
                    sent, ran, forms, unconfirmed, lost, answer>>

\* set_job_status on the session's copy of the job: raises when the table refuses.
WriteJob(e, st) ==
  /\ CanTransitionJob(memStatus[e], st)
  /\ status' = IF memStatus[e] = st THEN status ELSE [status EXCEPT ![job[e]] = st]

\* A CAPTCHA: the item waits, a captcha row is queued, the job is written
\* WAITING_CAPTCHA over whatever it has become since the last refresh, and the
\* egress ledger is not written.  The table never refuses it: a job with an item
\* found PENDING has not been finalized.
RecordCaptcha(e) ==
  LET b == current[e]
  IN /\ pc[e] = "called"
     /\ outcome[e] = "captcha_needed"
     /\ WriteJob(e, "waiting_captcha")
     /\ WriteItem(e, "captcha_needed")
     /\ memStatus' = [memStatus EXCEPT ![e] = "waiting_captcha"]
     /\ captcha' = [captcha EXCEPT ![job[e]][b] = "pending"]
     /\ optout' = [optout EXCEPT ![b].status = "captcha_needed"]
     /\ NextItem(e)
     /\ UNCHANGED <<dry, expired, broker, job, held, todo, cancels, record>>

LeaveLoop(e) ==
  /\ pc[e] = "loop"
  /\ todo[e] = {}
  /\ pc' = [pc EXCEPT ![e] = "finalize"]
  /\ UNCHANGED <<rows, expired, broker, job, held, memStatus, memItem, todo, current, outcome,
                 accepted, cancels, record>>

MemItems(e) == {memItem[e][b] : b \in Brokers} \ {NotSelected}

\* Mutated forms: any open item counts as a captcha, and none keeps a job waiting.
VerdictCaptcha(e) ==
  IF memStatus[e] \in TerminalJob THEN memStatus[e]
  ELSE IF MemItems(e) \cap OpenItem # {} THEN "waiting_captcha"
  ELSE FinalJobStatus(MemItems(e))
VerdictNoWait(e) ==
  IF memStatus[e] \in TerminalJob \/ MemItems(e) \cap OpenItem # {} THEN memStatus[e]
  ELSE FinalJobStatus(MemItems(e))

\* The status execute_job sets at the end, from the session's copies: it waits
\* for a captcha or a manual step, or leaves a job with unfinished items alone.
Verdict(e) ==
  LET open == MemItems(e) \cap OpenItem
  IN CASE memStatus[e] \in TerminalJob -> memStatus[e]
       [] open = {}                    -> FinalJobStatus(MemItems(e))
       [] "captcha_needed" \in open    -> "waiting_captcha"
       [] "manual_needed" \in open     -> "waiting_manual"
       [] OTHER                        -> memStatus[e]

\* A refused transition raises: the status stays.
Finalize(e) ==
  /\ pc[e] = "finalize"
  /\ WriteJob(e, Verdict(e)) \/ (~CanTransitionJob(memStatus[e], Verdict(e)) /\ UNCHANGED status)
  /\ EndJob(e)
  /\ UNCHANGED <<dry, item, captcha, optout, expired, broker, cancels, record>>

-----------------------------------------------------------------------------
(* Captchas, faults and the passing of time.                               *)

\* captcha_queue_ttl_hours runs out.
CaptchaAges(j, b) ==
  /\ "captcha" \in Events
  /\ captcha[j][b] = "pending"
  /\ captcha' = [captcha EXCEPT ![j][b] = "overdue"]
  /\ UNCHANGED <<status, dry, item, optout, expired, broker, sessions, cancels, record>>

\* solve_captcha, when the captcha is overdue or the user skips it.
DropCaptcha(j, b, reply) ==
  /\ "captcha" \in Events
  /\ captcha[j][b] = IF reply = "expired" THEN "overdue" ELSE "pending"
  /\ captcha' = [captcha EXCEPT ![j][b] = reply]
  /\ answer' = [answer EXCEPT ![j] = reply]
  /\ UNCHANGED <<status, dry, item, optout, expired, broker, sessions, cancels,
                 sent, ran, ledger, forms, unconfirmed, lost>>

\* solve_captcha otherwise: item and job go back to PENDING and the job is
\* enqueued, in one transaction, which the transition table rolls back.
SolveCaptcha(j, b) ==
  /\ "captcha" \in Events
  /\ captcha[j][b] = "pending"
  /\ IF CanTransitionJob(status[j], "pending")
     THEN /\ captcha' = [captcha EXCEPT ![j][b] = "solved"]
          /\ item' = [item EXCEPT ![j][b] = "pending"]
          /\ status' = [status EXCEPT ![j] = "pending"]
          /\ queue' = [queue EXCEPT ![j] = @ + 1]
          /\ answer' = [answer EXCEPT ![j] = "requeued"]
     ELSE /\ answer' = [answer EXCEPT ![j] = "server error"]
          /\ UNCHANGED <<captcha, item, status, queue>>
  /\ UNCHANGED <<dry, optout, expired, request, sessions, cancels, sent, ran, ledger, forms,
                 unconfirmed, lost>>

\* An executor that dies with an accepted form in its hands leaves no success behind.
LoseResult(e) ==
  lost' = IF pc[e] \in {"verifying", "called"} /\ accepted[e] THEN lost \cup {current[e]} ELSE lost

\* The executor's process dies: rollback, and an unacknowledged message returns.
Crash(e) ==
  /\ "crash" \in Events
  /\ pc[e] # "idle"
  /\ queue' = [queue EXCEPT ![job[e]] = IF held[e] THEN @ + 1 ELSE @]
  /\ LoseResult(e)
  /\ EndJob(e)
  /\ UNCHANGED <<rows, expired, request, cancels, sent, ran, ledger, forms, unconfirmed,
                 answer>>

\* An exception or the hard time limit of the task: rollback, acknowledged.
TaskFails(e) ==
  /\ "fail" \in Events
  /\ pc[e] # "idle"
  /\ LoseResult(e)
  /\ EndJob(e)
  /\ UNCHANGED <<rows, expired, broker, cancels, sent, ran, ledger, forms, unconfirmed,
                 answer>>

\* The message is delivered again although its worker goes on: a job may run
\* longer than the broker's visibility timeout.
Redeliver(w) ==
  /\ "overlap" \in Events
  /\ held[w]
  /\ held' = [held EXCEPT ![w] = FALSE]
  /\ queue' = [queue EXCEPT ![job[w]] = @ + 1]
  /\ UNCHANGED <<rows, expired, request, pc, job, memStatus, memItem, todo, current, outcome,
                 accepted, cancels, record>>

DeadlinePasses(j) ==
  /\ "deadline" \in Events
  /\ status[j] # "absent"
  /\ ~expired[j]
  /\ expired' = [expired EXCEPT ![j] = TRUE]
  /\ UNCHANGED <<rows, broker, sessions, cancels, record>>

-----------------------------------------------------------------------------
Create(j) ==
  \/ Admit(j)
  \/ \E selected \in SUBSET Brokers, preview \in BOOLEAN : Store(j, selected, preview)
  \/ Enqueue(j)
  \/ LoseEnqueue(j)

Cancel(j) == CancelLoad(j) \/ CancelCommit(j)

ReportManual(r) ==
  \/ \E j \in Jobs, b \in Brokers : ManualLoad(r, j, b)
  \/ \E st \in {"submitted", "manual_needed", "skipped_fresh", "error"} : ManualCommit(r, st)

Captcha(j, b) ==
  \/ CaptchaAges(j, b)
  \/ \E reply \in {"skipped", "expired"} : DropCaptcha(j, b, reply)
  \/ SolveCaptcha(j, b)

ExecuteJob(e) ==
  \/ StartExpired(e)
  \/ Start(e)
  \/ SeeCancelled(e)
  \/ SeeExpired(e)
  \/ \E b \in Brokers : PassOver(e, b)
  \/ \E b \in Brokers : Select(e, b)
  \/ \E st \in {"error", "skipped_fresh"} : SettleWithoutRun(e, st)
  \/ Begin(e)
  \/ \E o \in RunnerResult, formSent \in BOOLEAN : RunBroker(e, o, formSent)
  \/ \E v \in VerifyResult : VerifyRemoval(e, v)
  \/ RecordResult(e)
  \/ RecordCaptcha(e)
  \/ LeaveLoop(e)
  \/ Finalize(e)

Fault(e) == Crash(e) \/ TaskFails(e) \/ Redeliver(e)

Next ==
  \/ \E j \in Jobs : Create(j)
  \/ \E j \in Jobs : Cancel(j)
  \/ \E r \in Requests : ReportManual(r)
  \/ \E j \in Jobs, b \in Brokers : Captcha(j, b)
  \/ \E w \in Workers, j \in Jobs : Take(w, j)
  \/ \E e \in Executors : ExecuteJob(e)
  \/ \E e \in Executors : Fault(e)
  \/ \E j \in Jobs : DeadlinePasses(j)

Spec == Init /\ [][Next]_vars

\* An API request that has begun finishes, and Celery keeps its workers busy.
\* Nothing reconciles remediation jobs.
Fairness ==
  /\ \A j \in Jobs : WF_vars(Enqueue(j)) /\ WF_vars(CancelCommit(j))
  /\ \A r \in Requests : WF_vars(\E st \in ItemStatus : ManualCommit(r, st))
  /\ \A e \in Executors : WF_vars(ExecuteJob(e))
  /\ \A w \in Workers : WF_vars(\E j \in Jobs : Take(w, j))

FairSpec == Spec /\ Fairness

-----------------------------------------------------------------------------
(* Safety properties.                                                      *)

\* One job sends a broker's form at most once: RUNNING is committed first, and a
\* redelivered job passes over the items it finds RUNNING.
OneFormPerItem == \A j \in Jobs, b \in Brokers : sent[j][b] <= 1

\* Over all the jobs of a user a broker gets at most one form per recheck window,
\* because the next job finds the recorded success, except a broker that got a form
\* whose acceptance was never recorded: the runner did not report it, or the executor
\* died before its commit.  It takes a user who cancels no job.
OneFormPerWindow == \A b \in Brokers \ (unconfirmed \cup lost) : forms[b] <= 1

\* A user who sends one create request at a time and cancels nothing has no more
\* unfinished jobs than allowed.
QuotaRespected == Cardinality({j \in Jobs : status[j] \in ActiveJob}) <= MaxJobs

Settled(j)  == {item[j][b] : b \in Brokers} \cap {"pending", "running"} = {}
InFlight(j) == cancelling[j] \/ \E e \in Executors : job[e] = j

\* Unfinished work is not reported as successful: a job that nobody is working on
\* and that is COMPLETED, PARTIAL or FAILED has no item left to run.
FinishedJobIsSettled ==
  \A j \in Jobs :
    status[j] \in {"completed", "partial", "failed"} /\ ~InFlight(j) => Settled(j)

\* An item is VERIFIED_REMOVED only when its form was sent by this job, and the
\* window is only closed to a broker that accepted a form or whose user said so.
NoFalseRemoval ==
  \A j \in Jobs, b \in Brokers :
    item[j][b] = "verified_removed" => sent[j][b] > 0 /\ optout[b].fresh

\* What list_pending_captchas shows, and what its user will not be shown again.
Listed(j, b)  == captcha[j][b] \in {"pending", "overdue"}
Dropped(j, b) == captcha[j][b] \in {"skipped", "expired"}

\* A job waiting for a captcha that is not being executed has one to wait for: an
\* item that needs it, or that a cancellation closed, and the captcha of every item
\* that needs one is listed, unless the user dropped that captcha.  After the last
\* one is dropped the job waits with nothing to show.
WaitingJobShowsCaptcha ==
  \A j \in Jobs :
    status[j] = "waiting_captcha" /\ ~InFlight(j)
      => /\ \E b \in Brokers :
              captcha[j][b] # "none" /\ item[j][b] \in {"captcha_needed", "cancelled"}
         /\ \A b \in Brokers : item[j][b] = "captcha_needed" => Listed(j, b) \/ Dropped(j, b)

\* While no executor fails, a broker run has its row in the egress ledger unless
\* a captcha stopped it.
BrokerRunIsLedgered ==
  \A j \in Jobs : \A b \in ran[j] :
    ~InFlight(j) => b \in ledger[j] \/ captcha[j][b] # "none"

(* Liveness. *)

\* An enqueued job whose executors do not die before its deadline ends, or waits
\* for its user.
EnqueuedJobSettles ==
  \A j \in Jobs : queue[j] > 0 ~> status[j] \in TerminalJob \cup WaitingJob

-----------------------------------------------------------------------------
(* What the repository says and the code does not do.                      *)

\* A captcha the user has solved puts its job back in the queue.
SolvedCaptchaResumes == \A j \in Jobs : answer[j] # "server error"

\* "Duplicate jobs do not duplicate destructive actions": the forms whose acceptance
\* the runner reported are not sent again by another job.
DuplicateJobsDoNotResubmit == \A b \in Brokers \ unconfirmed : forms[b] <= 1

\* "reconciliation recovers stale operations", remediation among them.  It does not
\* hold, under FairSpec with the event "crash": the redelivered task passes over the
\* item that is RUNNING, and nothing reconciles remediation jobs.  No run checks it.
StaleJobRecovers ==
  \A j \in Jobs :
    (status[j] = "running" /\ queue[j] = 0 /\ ~InFlight(j)) ~> (status[j] # "running")
=============================================================================

------------------------ MODULE RemediationTelemetry ------------------------
(***************************************************************************)
(* The telemetry of the remediation page (RemediationPage.tsx, the hooks of *)
(* remediation/api.ts): jobs and captchas are polled, cancelled and         *)
(* answered.  The lists shown are an answer of the server at an earlier     *)
(* moment; a click becomes a request that is served in a later step.        *)
(***************************************************************************)
EXTENDS FiniteSets, RemediationStates

CONSTANT Jobs   \* the user's jobs

VARIABLES
  route,       \* the page the tab shows
  job,         \* server: the status of each job
  captcha,     \* server: the captcha of each job
  shown,       \* the job and captcha lists the page shows
  click        \* the request under way

telemetryVars == <<job, captcha, shown, click>>
vars == <<route, telemetryVars>>

Absent == "absent"
NoClick == <<"none">>

\* The page as it opens, with nothing on the server.
PageInit ==
  /\ job = [j \in Jobs |-> Absent]
  /\ captcha = [j \in Jobs |-> "none"]
  /\ shown = [status |-> [j \in Jobs |-> Absent], captcha |-> {}]
  /\ click = NoClick

Init == route = "remediation" /\ PageInit

Open == route = "remediation"

Answer == [status |-> job, captcha |-> {j \in Jobs : captcha[j] = "pending"}]

\* Mutant of Polls: polling stops once a job was shown and none shown is active.
PollsWhileActive ==
  \/ \A j \in Jobs : shown.status[j] = Absent
  \/ \E j \in Jobs : shown.status[j] \in ActiveJob

\* refetchInterval: 5000 for the jobs and the captchas, whatever the lists hold.
Polls == TRUE

Poll ==
  /\ Open /\ Polls
  /\ shown' = Answer
  /\ UNCHANGED <<route, job, captcha, click>>

\* "Terminate Job" is offered for every status shown that is not final.
Cancellable(j) == shown.status[j] \notin TerminalJob \cup {Absent}

\* The page's count of active workers leaves out three of the final statuses.
ActiveJobsCount ==
  Cardinality({j \in Jobs :
                 shown.status[j] \notin {Absent, "completed", "failed", "cancelled"}})

\* A click on a job or on a captcha of the list; nothing disables the buttons.
\* (Bound: one such request is under way at a time.  The list it is taken from may
\* be of any age, so a second click may well repeat the first.)
Click(kind, j) ==
  /\ Open /\ click = NoClick
  /\ IF kind = "cancel" THEN Cancellable(j) ELSE j \in shown.captcha
  /\ click' = <<kind, j>>
  /\ UNCHANGED <<route, job, captcha, shown>>

\* cancel_job: a job that has ended is left alone.
CancelJob(j) ==
  /\ job' = [job EXCEPT ![j] = IF @ \in TerminalJob THEN @ ELSE "cancelled"]
  /\ UNCHANGED captcha

\* solve_captcha: a captcha that is not pending is refused.
SkipCaptcha(j) ==
  /\ captcha' = [captcha EXCEPT ![j] = IF @ = "pending" THEN "skipped" ELSE @]
  /\ UNCHANGED job

\* Solved, and the job pending again, where the job's transition table allows it.
SolveCaptcha(j) ==
  IF captcha[j] = "pending" /\ CanTransitionJob(job[j], "pending")
    THEN captcha' = [captcha EXCEPT ![j] = "solved"] /\ job' = [job EXCEPT ![j] = "pending"]
    ELSE UNCHANGED <<captcha, job>>

\* The server serves a click.
Serve ==
  /\ click # NoClick
  /\ \/ click[1] = "cancel" /\ CancelJob(click[2])
     \/ click[1] = "skip" /\ SkipCaptcha(click[2])
     \/ click[1] = "manual_done" /\ SolveCaptcha(click[2])
  /\ click' = NoClick
  /\ UNCHANGED <<route, shown>>

\* A job is created.
Create(j) ==
  /\ job[j] = Absent
  /\ job' = [job EXCEPT ![j] = "pending"]
  /\ UNCHANGED <<route, captcha, shown, click>>

\* The worker: the job goes on along its transition table.
Work(j) ==
  /\ job[j] \in ActiveJob
  /\ \E s \in {"running", "completed", "partial", "timed_out"} \ {job[j]} :
       CanTransitionJob(job[j], s) /\ job' = [job EXCEPT ![j] = s]
  /\ UNCHANGED <<route, captcha, shown, click>>

\* The worker stops at a captcha.
AskCaptcha(j) ==
  /\ job[j] = "running" /\ captcha[j] = "none"
  /\ job' = [job EXCEPT ![j] = "waiting_captcha"]
  /\ captcha' = [captcha EXCEPT ![j] = "pending"]
  /\ UNCHANGED <<route, shown, click>>

Leave ==
  /\ Open /\ route' = "elsewhere"
  /\ UNCHANGED telemetryVars

\* The page comes back with the lists of the visit before and fetches new ones.
Return ==
  /\ route = "elsewhere" /\ route' = "remediation"
  /\ UNCHANGED telemetryVars

Next ==
  \/ Poll \/ Serve \/ Leave \/ Return
  \/ \E j \in Jobs :
       \/ Create(j) \/ Work(j) \/ AskCaptcha(j)
       \/ \E kind \in {"cancel", "manual_done", "skip"} : Click(kind, j)

\* The page polls while it is open.
Fairness == WF_vars(Poll)

(***************************************************************************)
(* Properties.                                                             *)
(***************************************************************************)
TypeOK ==
  /\ job \in [Jobs -> JobStatus \cup {Absent}]
  /\ captcha \in [Jobs -> {"none", "pending", "solved", "skipped"}]
  /\ shown \in [status : [Jobs -> JobStatus \cup {Absent}], captcha : SUBSET Jobs]
  /\ click \in {NoClick} \cup ({"cancel", "manual_done", "skip"} \X Jobs)

\* The open page does not show a job that has ended as ended.
ShowsEndedAsActive ==
  Open /\ \E j \in Jobs : job[j] \in TerminalJob /\ shown.status[j] \notin TerminalJob

\* A job that has ended is shown as ended, and loses its "Terminate" button, if
\* the page stays open; also a job created while the page showed none active.
EndedJobIsShown == ShowsEndedAsActive ~> ~ShowsEndedAsActive

\* The count of active workers is the number of jobs that can be terminated.  It
\* does not hold: jobs that ended partially or by their deadline are counted.
ActiveCountIsOfActive == ActiveJobsCount = Cardinality({j \in Jobs : Cancellable(j)})
=============================================================================

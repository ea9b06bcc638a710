# DigiZafe: specifications

TLA+ modules, TLC configurations and TLAPS proofs kept beside DigiZafe: its backend
(`src/backend/app`) and its web client (`src/frontend/src`). DigiZafe tells its users
where their identifiers (e-mail addresses, usernames, domains...) are exposed: it sends
a verified identifier to source connectors, turns what comes back into findings and
scores, and submits opt-out forms to data brokers. What can go wrong is mostly a matter
of *who does what when*. On the server, FastAPI requests, Celery workers and a beat
schedule share rows of PostgreSQL, each with a session that keeps its own copies of
them; tasks are delivered again when a worker dies; and a connector call or a submitted
form cannot be taken back. In the browser, a click becomes a request that is served
later, an answer arrives on a page that has changed or was left, and lists are as old
as their last fetch. The two engines that do the irrevocable things come first, then the
session and the pages that ask for them.

Check everything with

    tlc -workers 2 -config <run>.cfg <module>.tla
    tlapm <module>Proofs.tla

## 1. Inventory

**Common ground.** One `AsyncSession` per request (`core/database.py`; committed
after the handler, rolled back on any exception, `HTTPException` included) or per
task. Sessions are made with `expire_on_commit=False` and `autoflush=False`: a
loaded object keeps its attributes through commits, a second SELECT does not renew
them, only `session.refresh` does (with the eagerly loaded children: the
relationships cascade refresh). A commit writes the attributes the session changed.
There are no version columns; hardly any `FOR UPDATE`. Celery (`worker.py:26-58`)
acknowledges late, prefetches one message, and its Redis broker delivers a message
again after the visibility timeout or when the connection is lost.

| Component | State | Operations | Hard behaviour | What makes it correct |
|---|---|---|---|---|
| Discovery scan engine (`services/discovery_service.py`, `repositories/scan_repository.py`, `domain/scan_states.py`) | scans, connector runs; the queue; one session per worker, cancel request and reconcile task | create, cancel, execute, reconcile | stale copies against commits of others; a crash between the commit of RUNNING and of the result; redelivery; lost enqueue; deadline and cancellation in the middle of a call | a source is asked once per scan, and what it answers is recorded; the status told to the user is the one the runs justify; every scan ends; quotas |
| Remediation engine (`services/remediation_service.py`, its repository, `domain/remediation_states.py`, `remediation/runners/playwright_runner.py`) | jobs, items, captchas, per-broker opt-out state | start, cancel, execute, manual report, captcha answer | the same, and the API request that executes a job beside its worker; waiting for a user who may drop what it waits for; preview mode; verification after an accepted form | a form is sent once per job; no false "removed"; a finished job has no work left; a job ends or waits; a broker gets one form per recheck window |
| Alerts and scheduled rescans (`services/alert_service.py`) | alerts, rescan policies | emit, compute_deltas, request_rescan, reconcile_scheduled | the scan is committed before the policy that starts it; one due policy that fails among others | a due policy starts one scan per interval; alerts are not repeated |
| Connector admission (`services/discovery/*_service.py`, `connectors/sdk/rate_limiter.py`) | Redis counters, leases with a TTL, circuit breakers | consume budget, acquire/release lease, record success/failure, plan | INCR, EXPIRE and DECR in separate steps; leases that expire under their holder; several probes of a half-open breaker | limits are not exceeded; a refused request gives back what it took; a breaker closes again |
| Identifiers and ownership verification (`services/verification_service.py`) | identifiers, challenges with attempt counters and expiry | start, confirm, revalidate | two confirmations of one challenge; a counter rolled back with the error that reports it; codes the server returns in development | a challenge verifies one identifier once, before it expires |
| Authentication and sessions (`services/auth_service.py`) | users, refresh-token families | register, login, refresh, logout, MFA | two rotations of one refresh token at once | one live token per family |
| Consent and egress ledger (`services/consent_service.py`, `security/egress.py`) | consent grants, ledger rows | ensure, grant, revoke, record, fetch | grant and revoke beside running tasks, which grant by themselves; ledger written after the call | every send is recorded; nothing is sent without consent |
| Privacy rights (`services/privacy/*`) | exports, deletion requests, key shredding | request, cancel, process due deletions, export | cancellation during the grace period; failure half-way through an erasure | an executed request erases everything, a cancelled one nothing |
| Identity discovery (`candidate_discovery_service`, `identity_*_service`, `tasks/identity_discovery_tasks.py`) | anchors, candidate runs, evidence, clusters, review queue | run, persist, confirm, dismiss, sync, enqueue, resolve | a run left open by a failing task; review items grouped with row locks | each change is reviewed once; decisions of users are kept |
| Temporal change detection (`identity_change_detection_service.py`) | observations, change events | evaluate, record | fingerprints deduplicate concurrent detections | one event per change |
| Scoring, recommendations, narrative (`scoring_service.py`, `domain/pdss.py`, `recommendation_service.py`) | snapshots, recommendations | compute, generate, update | bounds, caps, zero inputs | scores are bounded and monotone |
| Findings (`evidence_service.py`, `finding_repository.py`, `domain/findings_normalize.py`, `deltas.py`) | findings, evidence with a TTL | ingest, upsert, purge | repeated and concurrent ingestion | one finding per key |
| Web session and API client (`lib/api.ts`, `lib/auth-store.ts`, sign-in pages) | a token pair and a user's name in memory; one shared refresh; requests under way | log in, register, log out, reload, call, refresh, second attempt | several refused calls want one refresh; an answer after a sign-out or another sign-in | no refresh token is presented twice; what is held is current; the name is the session's; every call ends |
| Web query cache and hooks (`main.tsx`, the features' `api.ts`) | cached answers, with what makes them stale | mount, fetch, mutate, invalidate, poll, collect | a mutation that forgets a list; a fetch that overtakes a change | a settled page shows the data as they are |
| Web pages (`features/*`) | what is selected, typed, opened and under way | the buttons of each page | stale lists, late answers, positions that outlive their list | what a page shows and asks for is what the user chose and the server did |
| Source connectors, machine-learning adapters, schema | | | parsing, routing | not planned: pure I/O |

**Interaction.** The API creates a scan (needs a *verified* identifier, consent, a
free quota), commits and enqueues it; a worker executes it, calls the connectors,
writes the egress ledger and findings; beat reconciles it. A rescan policy creates
scans through the same code. Remediation starts from findings, writes the same
ledger, and runs in a worker or in the API request that reports a manual step.
Deltas compare the findings of two scans and emit alerts. The web client does nothing
by itself but poll: each page calls the API through one wrapper (`lib/api.ts`) and reads
through one query cache; a mutation names the cached lists it makes stale.

## 2. Modules

| Module | What it is |
|---|---|
| `ScanStates` | the status tables of scans and runs and the derivation of a scan's status from its runs (`domain/scan_states.py`) |
| `ScanEngine` | the scan engine: API requests, broker, workers, reconcile, faults |
| `ConnectorDispatch` | abstract: the connector of a (scan, connector) pair is called at most once, the identifier leaves only in that call, and a row is written only for a call that was answered, once |
| `ScanEngineRefinement` | the mapping under which `ScanEngine` implements `ConnectorDispatch` |
| `ScanEngineProofs` | the theorems about `ScanEngine` |
| `RemediationStates` | the status tables of jobs and items (`domain/remediation_states.py`) |
| `RemediationEngine` | the remediation engine |
| `RemediationEngineProofs` | the theorems about `RemediationEngine` |
| `ClientSession`, `ClientSessionProofs` | one tab's session and its calls, against the server's rotation of tokens |
| `ClientCache` | the query hooks and mutations over the query cache |
| `RemediationStudio` (`...Proofs`), `RemediationTelemetry`, `FreezeChecklist` (`...Proofs`), `LegalDrafts` | the sections of the remediation page |
| `PrivacyCenter`, `ConsentCenter` | the sections of the privacy page |
| `ScanForm` (`...Proofs`), `LiveScan` | the form of the scans page; its live card, event stream and the scan's own page |
| `IdentifiersPage` (`...Proofs`), `TriageConsole`, `PlanBoard`, `ScoreStudio`, `TemporalPages` | identifiers; findings; recommendations; scores; review queue and timeline |
| `WebPages`, `WebPagesProofs` | the pages and the cache side by side, sharing the route |
| `MCScanEngine`, `MCRemediation` | symmetry for the runs |

### ScanEngine

A *row* (`status`, `layer`, `run`) is what PostgreSQL holds, `mem...`,
`cancelRun` and `sweepRun` are what the session of a worker, of a cancel request or
of the reconcile task has loaded. An action ends where the code commits or awaits
something whose outcome others can see, so that each commit is one action:

| Code | Actions |
|---|---|
| `create_scan` | `Admit` (identifier and quota checks), `Store` (commit of scan and runs), `Enqueue` / `LoseEnqueue` |
| `cancel_scan` | `CancelLoad`, `CancelCommit` |
| `execute_scan` up to the loop | `Take`, `StartExpired`, `Start`, `RefuseUnverified`, `DeepConsentError`, `EnterLoop` |
| top of the loop | `SeeCancelled`, `SeeExpired`, `PassOver`, `Select` (all after `Refresh`) |
| body of the loop | `SkipDisabled`, `Begin` (commit of RUNNING), `CallConnector`, `RecordResult` |
| `try_finalize` | `LeaveLoop`, `Finalize` |
| `reconcile` | `SweepLoad`, `SweepCommit` |
| outside | `Crash` (message comes back), `TaskFails` (message acknowledged), `Redeliver` (message comes back, the worker goes on), `DeadlinePasses`, `IdentifierLapses` |

`called`, `exposed`, `answered`, `ledger`, `cancelLogged`, `late` and `overrun` are
history: how often each worker called each connector; the calls that let the identifier
out of the system; those that came back with anything but a skip, for which alone the
code writes a row; the rows; and how many calls a task began after the deadline or after
the cancellation of its scan.

Sending, answering and recording are three things. A source that answers 429 was sent
the identifier, and the call is a skip without a row (`xposedornot.py:67-77`,
`base.py:127-136`); an answer from the connector's cache sent nothing and gets a row
(`xposedornot.py:45-54`, `discovery_service.py:316-341`). So `CallConnector` chooses
freely whether the identifier left, whatever the outcome. It counts calls of a connector,
not HTTP requests: one call of xposedornot makes two (lines 68 and 180).

Choices a reader should know:
- A commit writes only what the session changed. `Start` does not rewrite RUNNING
  over RUNNING; `Close` leaves runs alone that the session saw finished.
- `Refresh` renews the scan and its runs; between two refreshes the copies are stale.
- A scan is loaded with its runs in one step (two statements of one transaction).
- `BaseConnector.run` turns every exception into a failed result
  (`connectors/sdk/base.py:125-143`), so the `except` at
  `discovery_service.py:306-313` is never taken and has no action.
- `set_run_status` checks a transition table; no write of the engine is refused by it
  and the check is left out. Refusals of the scan table are modelled.
- Scoring, progress, messages, evidence and the names of hosts are left out. The
  clock is one flag per scan, `expired`.
- Lock waits and database deadlocks end in an aborted transaction, the event "fail".

### RemediationEngine

Executors are workers and API requests (`complete_manual_item` calls `execute_job` itself).
The same split into rows and copies; per broker there is the durable opt-out state, whose
`fresh` flag says that a submission was accepted within the recheck window. That window is
longer than any job lives, so it does not close. `forms` counts the forms a broker got from
all the jobs; `unconfirmed` and `lost` name the brokers that got one whose acceptance was
never recorded, because the runner did not report it or because its executor died with it.
`start_broker_optout` is `Admit`, `Store`, `Enqueue`; `cancel_job` `CancelLoad` and
`CancelCommit`; `complete_manual_item` `ManualLoad` and `ManualCommit`, after which the
request executes the job like a worker; `solve_captcha` `SolveCaptcha` and `DropCaptcha`;
`execute_job` the rest. `RunBroker` is the browser runner: what it returns and whether the
form had been sent, which an ambiguous result leaves open. Verification after submission is
on, as by default. Captcha rows are kept one per item: pending, overdue (still listed, but
an answer is refused), skipped, expired or solved. A skip, or an answer that comes too
late, changes neither the item nor the job (`remediation_service.py:482-492`), so a job can
wait for a captcha that nobody is shown. Not modelled here: `verify_brokers`, which a user
calls on demand. The freeze checklist and the generated letters have no part in a job;
`FreezeChecklist` and `LegalDrafts` model them with the page that edits them.

### ClientSession

Tokens come in pairs named by numbers. The server's part is `owner`, `refreshState`
(a refresh token is live, revoked by its rotation, or outdated) and `expired` (access
tokens); the tab's is the store (`access`, `refresh`, `user`), the route, the submitted
`form`, the `refreshPromise` that all refused calls share, and the `call`s. An action is
what runs between two awaits:

| Code | Actions |
|---|---|
| `LoginPage`, `RegisterPage` | `Submit`, `ServeRegister`, `ServeLogin`, `Registered`, `LoggedIn`, `SwitchForm` |
| `apiFetch` | `Send`, `Serve`, `Unauthorized` (begins or joins the refresh), `Fail`, `Deliver` |
| `refreshTokens` | `Rotate`, `RefuseRotation` (server), `Refreshed`, `RefreshFailed` (answer, or none) |
| store, shell, guard | `SignOut`, `Redirect`, `GoBack`, `Reload` |
| time | `Expire` |

A lost answer is a rotation that happened and a refresh that failed. `overtaken` is a
history flag: a session began or ended while an answer to another was under way.

### The pages and WebPages

Each page is a module with the page's state (`useState`, the fields of the source by
their names), what its queries show, the requests under way and as much of the server as
they touch. A click is one action, the service of its request a second, and, where the
page does something with the answer, its arrival a third; between them anything else on
the page can happen, `Leave` and `Return` included. A fetch takes an answer at one moment
and shows it at another. Requests can be refused or lost where the code has a branch for
it, or the outcome changes what is shown. `here` flags tell whether the page that asked
is still the one that is open: React drops the callbacks of a component that is gone, the
query cache does not.

`WebPages` puts them together. They share nothing but the route (what they share on the
server is fetched by each for itself, and `ClientCache` is about when), so a behaviour
follows one page, `home`, through its visits, while the variables of the others rest.

`ClientCache` has the hooks as tables: of keys and of invalidated prefixes, per feature, as
the code has a file per feature (`QueryKey` and `Invalidated` look a hook up in them), and
of what the handler behind each mutation may change of what each query reads
(`ChangeTables`, translated from the services of the backend). The what-if of the scores
and the briefing are requests of components, without a hook, and are in the tables as
mutations that invalidate nothing. A behaviour follows one query and one mutation, each of
all the pairs in turn, and a mutation that may change something may also not. What a worker
does later is no change of the mutation that enqueued it. Not in the tables: the queries of
the temporal pages, which ask where the server has nothing, and those of the connector
panel, which no mutation of the client touches.

Choices a reader should know:
- `TriageConsole` and `TemporalPages` model what is on the screen: the hook of the
  candidates reads a field its answer does not have (`features/identity/api.ts:25`), and
  the temporal pages ask under a path where the server has nothing, so the first always
  shows its demo item and the others their samples.
- In `TriageConsole` the list on the screen is the set of the positions that the filters
  let through; a row is the number of those positions up to its own.
- In `LiveScan` a stream tells one status: the endpoint polls a session whose scan is
  loaded once (`scans.py:94`).
- In `ScoreStudio` a simulation is a snapshot like any other, because `compute` stores it
  (`scoring_service.py:174`).
- In `TriageConsole` the findings and the candidates are both always on the screen;
  `activeTab` decides only what the keyboard acts on.
- In `IdentifiersPage` a challenge and its code have one number. A user can type the codes
  sent to addresses that are theirs, and those the server returned in its answer, as it
  does in development and by default (`config.py:93`); the page fills these in itself. Each
  answer comes from either configuration. The count of attempts has no effect: it is
  rolled back with the refusal that follows it (`core/database.py:39`), so the limit at
  `verification_service.py:201` is never reached.
- In `ConsentCenter` the server grants the purposes `SelfGranted` by itself
  (`ensure_consent` with `auto_grant`: scans, opt-outs, GitHub proofs) before it uses
  them, whatever was revoked, and commits the grant only later (`EnsureConsent`,
  `CommitGrant`).
- In `FreezeChecklist` a change may be refused, its answer lost, or changes of one item
  served in the other order. The page has no `onError`: nothing is said and nothing is
  fetched.
- In `PlanBoard` the status filter is whatever lets a card through at the click; the
  filter by lane and the totals only choose what is drawn. A page that is opened again
  does not know of the requests of the visit before, so both have their own (`Visits`).
- In `LiveScan` a worker takes a scan and commits RUNNING in two steps, `Take` and `Start`,
  and a cancellation in between is written over, as in `ScanEngine`.
- In `ScanForm` layers are chosen as from the catalogue of `api/v1/layers.py`. The
  endpoint calls a method `DiscoveryService` does not have (line 20), so the page as it is
  offers none; the model allows more than the page does.

## 3. Runs

Every run lists the environment events it allows (`Events`); a property that needs an
event to be absent is checked under all the others.

| Run | Instance | Events | Shows |
|---|---|---|---|
| `ScanSerial` | 1 scan, 2 connectors, 2 workers | lose, cancel, deadline, lapse, crash, fail | types; `AtMostOneCall`; `LateCallBound`, `OverrunBound`: at most one call begins after the deadline, or after a cancellation, of its scan; `ReportMatchesRuns`; and the refinement `ImplementsDispatch` |
| `ScanOverlap` | same | cancel, overlap | with two executors at once: `OneCallPerExecutor`, `EndedScanIsClosed`, `EveryAnswerIsLedgered` |
| `ScanEnds` | 2 scans, 1 connector, 1 worker | lose, deadline, crash, fail, deep | `EveryScanEnds`: ends and stays ended; `QuotaRespected` |
| `ScanFinishes` | 1 scan, 2 connectors, 2 workers | cancel, lapse | `EnqueuedScanFinishes`: no deadline is needed if nothing fails; and `EveryScanEnds`, also when RUNNING is written over CANCELLED |
| `RemSerial` | 1 job, 2 brokers, 2 workers | lose, cancel, dry, captcha, deadline, crash, fail | types; `NoFalseRemoval`; `OneFormPerItem`; `WaitingJobShowsCaptcha`; `FinishedJobIsSettled` |
| `RemJobs` | 2 jobs, 1 broker, 2 workers | lose, dry, captcha, deadline, crash, fail | `QuotaRespected`; `OneFormPerWindow` |
| `RemSettles` | 1 job, 1 broker, 1 worker, 1 request | cancel, manual, overlap | with two executors at once: `NoFalseRemoval`; `BrokerRunIsLedgered` (unless a captcha stopped the run); `EnqueuedJobSettles`: an enqueued job ends or waits for its user |
| `ScanTerminalFinal` | 1 scan | cancel | **violated** `TerminalIsFinal` |
| `RemCaptcha` | 1 job | captcha | **violated** `SolvedCaptchaResumes` |
| `RemDuplicate` | 2 jobs, 1 broker, 1 worker | crash, deadline | **violated** `DuplicateJobsDoNotResubmit` |
| `WebSession` | 2 accounts, one with a second factor; 2 calls; 2 token pairs | | types; `NeverReplaysRefresh`; `HeldTokenIsCurrent`; `NameMatchesSession`; `CallsSettle` |
| `WebPages` | all pages, 2 of what most work on (2 identifiers, 1 of them the user's; 1 recommendation and 1 scope of plans, 1 bureau, 1 deletion, 1 request for a scan) | | types; one property or two per page, below |

What `WebPages` shows, page by page: `MessageTellsTheMode` (behind the message of a
preview no live removal runs), `EndedJobIsShown`, `ChecklistShowsServer` (the select boxes
end up showing what the server has, also when it is not what was chosen),
`LastDecisionHolds` (consents end as last decided), `OnlyProvenIsVerified` (what is not the
user's is verified only by a code the server itself gave out), `PlanIsAsMarked`,
`AmberScanWasConsented`, `CardEndedIsEnded`, `DetailShowsEnd`, `ScoreIsOfScope`, and for the
cache `SettledPageIsCurrent`. Their exceptions are part of their statements. The privacy
center's export and deletion, the findings page, the legal drafts and the temporal pages
have their types only: what could be said of them either restates a guard or is known not
to hold.

**Bounds.** One scan has all the interference that a scan's rows can suffer: its
actors (two executors, a cancel request, the sweep) meet only in the rows of that
scan, and scans meet only in the quota, for which there are two. Two connectors are
the least for which "the other runs" differ from the current one, and for the loop to
check again between calls; two workers are the least that overlap or replace one
another. `MaxActive = 1` and `DailyQuota = 2` put both limits within reach of two
scans. Nothing else is bounded: the counters (`queue`, `called`, `late`,
`overrun`) stay small because the model does.
For the session two calls are the least that share a refresh, two accounts the least
that can be confused, and two pairs the least with a rotation; with both pairs issued
the server refuses, which the client cannot tell from an outdated token. On a page two of
a kind are the least for an answer to arrive at the wrong one, and two requests the least
that overtake each other; the bounds on exports, challenges, plans, snapshots and changes
are reached. Two changes of one bureau are what can be reordered; the items are otherwise
independent. The recommendations page has one scope there, with two plans; with two scopes
it has 1.5 million states alone, in which `PlanIsAsMarked` holds as well. A page's states
are few, but there are 14 modules of them: 700 thousand states in all. `SYMMETRY`
is used in runs of invariants only.
Deadlock is not checked where the system may stop: a system whose scans have ended and
whose users want nothing more has stopped, and so has a page nobody clicks on. It is
checked in `WebSession`.

**Fairness.** Only what the code provides: an API request that has begun finishes
(`Enqueue`, `CancelCommit`, `ManualCommit`), beat runs `reconcile` every 300 seconds,
time passes, and Celery keeps idle workers busy with the queue and running workers
running. Users, faults and losses are under no obligation, and nothing reconciles
remediation jobs, so no fairness says so. In the browser, a request that was sent ends
with an answer or an error (`FormStep`, `RefreshStep` and `Progress` of `ClientSession`),
and the lists with a `refetchInterval` are polled while their page is open (`Poll` of
`RemediationTelemetry` and `LiveScan`). Nobody is obliged to click, and no other list is
fetched again by itself.

**What the violations mean.**
- `ScanTerminalFinal`: `execute_scan` commits RUNNING (line 217) from a copy loaded at
  line 190; a cancellation in between is overwritten. It is repaired only by the end
  of the scan, which is why `EveryScanEnds` is stated as "ends and stays ended".
- `RemCaptcha`: `solve_captcha` asks for WAITING_CAPTCHA → PENDING, which the table of
  jobs does not allow; the answer is rolled back.
- `RemDuplicate`: a worker dies between the form and its commit, the deadline ends the job,
  and the next job finds no success on record and sends the form again, while the
  repository says that duplicate jobs do not duplicate destructive actions.

**Properties known not to hold** are kept beside the models, each with its reason, and
checked by no run:
- `EverySendIsLedgered` (`ScanEngine`): with no fault at all a source answers 429 to a
  request that carried the identifier, and the call ends as a skip, for which no row is
  written, while `docs/runbooks/discovery-evidence.md:31` says that every send has one.
- `RevokedSendsNothing` (`ConsentCenter`): before it scans, opts out or checks a GitHub
  proof the server grants itself the consent it needs, also one that was revoked, while the
  test guide (line 1069) asks for no consent-gated request once a consent is revoked.
- `DeepScanRuns` (`ScanEngine`): the consent check of deep scans calls
  `has_active_grant`, which `ConsentService` does not have; the scan stays RUNNING until
  it is reconciled.
- `StaleJobRecovers` (`RemediationEngine`): a worker that dies leaves its item RUNNING;
  the redelivered task passes over it, and nothing else looks at the job, which keeps the
  user's only slot.
- `ActiveCountIsOfActive` (`RemediationTelemetry`): the count of active workers includes
  jobs that ended partially or by their deadline.
- `GrantedLayerIsAccepted` (`ScanForm`): the page grants the consent of the layer, the
  server asks for `amber_discovery`.
- `CardShowsEnd` (`LiveScan`): the stream repeats the status it read first.
- `CurrentScoreIsComputed` (`ScoreStudio`): after a simulation the score shown as current
  leaves findings out.
- `ResolvedOnce` (`TemporalPages`): a card waits for the newest request of the page only,
  so confirming another card frees the first one's button.

**Limits of the passing properties**, found by adding the event a run leaves out:
- Under "overlap" two workers can both find a run PENDING and both call its connector:
  `AtMostOneCall` needs one executor per message; so do `OverrunBound` and
  `ImplementsDispatch`. The compare-and-set that would close this is missing at
  `discovery_service.py:264-294`.
- Under "overlap" each of two executors can see the other's run unfinished, so that
  neither finalizes the scan and it is timed out: `EnqueuedScanFinishes` is checked
  without it.
- Under "crash" or "fail" an answered call may have no ledger row, because the row is
  committed with the result: `EveryAnswerIsLedgered` is checked without them.
- Under "race", two requests for a scan or a job before either is stored, neither
  `QuotaRespected` holds; no run allows it.
- `OneFormPerWindow` excepts a broker that got a form whose acceptance was not recorded:
  the runner did not report it, or its executor died first (`RemDuplicate`).
- `WaitingJobShowsCaptcha` excepts the captchas a user skipped or answered too late: after
  the last of them the job waits with nothing to show, until it is cancelled.
- `list_stale_running` selects only scans past their deadline, so the branch of
  `reconcile` that would enqueue a PENDING scan again is dead and a lost scan is timed
  out. `StaleScans` says so.
- `Store` does not compare the layer of a connector with that of the scan.
- Under "cancel" a user may have more unfinished scans than the quota (RUNNING written
  over CANCELLED), and a broker may accept two forms (a second job starts while the
  cancelled one is still submitting).
- Under "manual" and "crash" together a request can finalize a job whose item a worker
  has just set RUNNING: `FinishedJobIsSettled` is checked without "manual".
- A preview is stored as SUBMITTED, and a captcha leaves the loop before the ledger.
- `NameMatchesSession` excepts an overtaken session: a refresh that is answered after a
  sign-out puts its pair back into the store, without a name.
- `ChecklistShowsServer` excepts the items of which an answer was lost, or arrived while
  the fetch of a page that was left had read the list already; and it is about what the
  server has, not what was chosen last, which can differ.
- `LastDecisionHolds` excepts purposes whose decisions failed or overtook each other, and
  those the server has granted by itself since.
- `OnlyProvenIsVerified` counts a code the server returned as proof, as the code does.
- `PlanIsAsMarked` excepts a recommendation marked again, on another visit, while a mark of
  it was under way: the two are served in either order.
- `CardEndedIsEnded` excepts one event of an older stream that arrives between the
  card's change and the effect that closes that stream. It says that the scan has ended at
  some time: a worker may have written RUNNING over the end since.
- `SettledPageIsCurrent` excepts `LeftAlone`, the pairs of which the code forgets that the
  mutation may change what the query reads: the audit trail after anything it records; what
  creating, verifying or deleting an identifier changes beside the identifiers; the
  consent an opt-out grants; the scores after a what-if; all lists but the profile after a
  sign-in; all after an account's deletion. Each pair of `LeftAlone` that
  changes anything breaks the property when it is not excepted. And it excepts what failed,
  and a change made while its answer was fetched for the first time or without its page.

Each property of a passing run has a mutant: an operator beside the one it mutates,
marked "Mutated form", that a plausible slip in the code would produce and that
breaks the property.

## 4. Proofs

Eight modules hold proofs. Each is about the specification of the module it extends, for
all values of its constants: every number of scans, connectors, workers, jobs, brokers,
accounts, calls, identifiers, and every choice of `Events` except where a column says so.

| Theorem of | | States |
|---|---|---|
| `ScanEngineProofs` | `TypeCorrect` | `Spec => [](TypeOK /\ Placed)` |
| | `OneCallPerExecutorHolds` | `Spec => []OneCallPerExecutor` |
| | `LateCallBoundHolds` | `Spec => []LateCallBound` |
| | `AtMostOneCallHolds` | `"overlap" \notin Events => (Spec => []AtMostOneCall)` |
| | `OverrunBoundHolds` | `"overlap" \notin Events => (Spec => []OverrunBound)` |
| | `ReportMatchesRunsHolds` | `"overlap" \notin Events => (Spec => []ReportMatchesRuns)` |
| | `EveryAnswerIsLedgeredHolds` | the same for `EveryAnswerIsLedgered`, if neither "crash" nor "fail" is among the `Events` |
| | `EndedScanIsClosedHolds` | the same for `EndedScanIsClosed`, under the same condition |
| | `QuotaHolds` | the same for `QuotaRespected`, if neither "race" nor "overlap" is among the `Events` |
| | `DispatchImplemented` | `"overlap" \notin Events => (Spec => ImplementsDispatch)`: the refinement of `ConnectorDispatch` |
| `RemediationEngineProofs` | `TypesKept` | `Spec => []TypeOK` |
| | `RemovalsAreReal` | `Spec => []NoFalseRemoval` |
| | `FormsAreSentOnce` | the same for `OneFormPerItem`, if neither "overlap" nor "manual" is among the `Events` |
| | `RunsAreLedgered` | the same for `BrokerRunIsLedgered`, if neither "crash" nor "fail" is among the `Events` |
| | `FinishedJobsAreSettled`, `WaitingJobsShowCaptchas` | the same for `FinishedJobIsSettled` and `WaitingJobShowsCaptcha`, if neither "overlap" nor "manual" is among the `Events` |
| | `JobQuotaHolds` | the same for `QuotaRespected`, without "race", "cancel", "manual" and "overlap" |
| | `WindowsAreRespected` | the same for `OneFormPerWindow`, without these four and with the default quota of one job |
| `ClientSessionProofs` | `TypeCorrect` | `Spec => []TypeOK` |
| | `NoReplay` | `Spec => []NeverReplaysRefresh` |
| | `HeldIsCurrent` | `Spec => []HeldTokenIsCurrent` |
| | `NameIsOwners` | `Spec => []NameMatchesSession` |
| `FreezeChecklistProofs` | `ChecklistHolds` | `Spec => []ChecklistShowsServer`, with statuses the server knows |
| `ScanFormProofs` | `AmberConsentHolds` | `Spec => []AmberScanWasConsented`, if no layer is called like "no purpose" |
| `RemediationStudioProofs` | `ModeIsTold` | `Spec => []MessageTellsTheMode`, for a number `MaxJobs` |
| `IdentifiersPageProofs` | `OnlyProvenHolds` | `Spec => []OnlyProvenIsVerified` |
| `WebPagesProofs` | `ChecklistHoldsAmongPages`, `AmberConsentHoldsAmongPages`, `ModeIsToldAmongPages`, `OnlyProvenHoldsAmongPages` | the same four properties of `WebPages!Spec`, with the same condition on the layers |
| | `PlanIsAsMarkedAmongPages`, `ScoreIsOfScopeAmongPages`, `LastDecisionHoldsAmongPages`, `CardEndedIsEndedAmongPages`, `SettledPageIsCurrentAmongPages` | `Spec => []P` for the property each is named after |
| | `TypesHoldAmongPages` | `Spec => []TypeOK`, the types of all fourteen pages |

The other assumptions are those the modules make about their constants
(`ScanEngineAssumption`, `RemediationAssumption`, `AccountsAssumption`...): quotas and
bounds are numbers, events are known ones, placeholders are none of what they stand for.
A page's properties are proved of its own `Spec`, the page that is opened and visited, and
then of `WebPages`, which checks them beside the other pages.

**ScanEngineProofs.** The inductive invariant is built in layers, each proved relative to
the one below with one step per action:

1. `Placed`: a worker that is not idle has a scan, one in the middle of a run has a
   connector, and nothing refers to a scan before it is stored. Types are not
   inductive without it: `run[job[w]][current[w]]` must exist.
2. `CalledOnce` = `CalledNotPending`, `PendingUncalled`, `CurrentUncalled`. `called <= 1`
   alone says nothing about the copy a worker decides on. What an executor has called is
   not PENDING in the table; what it holds as PENDING it has not called; what it is about
   to call it has committed as RUNNING. A refresh carries the first to the second,
   `Begin` the second to the third, and no write ever makes a run PENDING again.
3. `LateOnce`: the late call comes after the deadline, after which nothing is selected.
4. `OneMessage`: a scan's message is queued once or held by one executor. This is
   where "overlap" must be excluded.
5. `CalledByOne`: layer 2 over all executors, which needs layer 4 because a copy is
   worth nothing when two executors hold one.
6. `OverrunOnce`: an overrun scan is cancelled or past its deadline; its executor sees
   either before the next call. It needs 4, because a second executor would write
   RUNNING over the cancellation.

7. `InStep`: while a scan is neither cancelled nor past its deadline, the copies of its
   executor are the rows, and it has not ended. What `Report` counts is then what is
   stored. It needs 4.
8. `Recorded`: a call that was answered is in the ledger, or its executor still holds the
   result and is about to write it. It needs only `Placed`, and is where "crash" and "fail"
   must be excluded: they drop the result between the answer and the row.
9. `Closing`: a run in progress has its call, and a run that is PENDING in the table is
   PENDING in the copy of every session that has read its scan, so that none of them ends
   the scan without it. The copies lag, but never by a run that is still to be made.
   Overlapping deliveries keep it; a crash leaves a RUNNING run without a call.
10. `Counted`: with one request at a time, and while nobody has cancelled a scan, the
    active scans and the one admitted are no more than the quota. The property counts
    active scans only; a request is admitted on one count and stored on a later one, and
    between them no scan may become active again: "overlap" would let a second worker
    write RUNNING over an end. The cardinalities come from the finite-set theorems.
11. `AnsweredBeforeRecorded`: the ledger names what was answered, and a result to record is
    of a call that was made and that the ledger does not name. With layer 5 and `CallsGoOn`
    every step maps to a call, a recording or a stutter of `ConnectorDispatch`. The abstract
    counter of calls is the number of calls over all executors (`ScanEngineRefinement`,
    `CallCount`), which layer 5 keeps at one (`OneCallCounts`).

**RemediationEngineProofs** has the same lower layers and others above them:

1. `Placed` and `Unasked`, as above; a captcha belongs to a stored job.
2. `Honest`: what an executor holds as accepted was sent, and a verdict of removal is
   held only with an accepted form. `NoFalseRemoval` speaks of rows; the verdict lies
   in the executor for two commits before it reaches one. No event disturbs it.
3. `Forward`: a job that left PENDING does not return, neither in the table nor in a copy
   that was taken later, and a captcha belongs to a job that left it. So an answer to a
   captcha is always rolled back (`RemCaptcha`); one that went through would queue a
   second message and make an item PENDING whose form may have been sent.
4. `OneMessage`: one message per job and one executor per message. It excludes "overlap",
   and "manual", because a manual report executes the job beside its worker.
5. `FormOnce`: what is PENDING, selected or about to be run has not been sent. A crash
   leaves the item RUNNING, which no executor selects.
6. `Recorded`: a broker that was run is in the ledger, was stopped by a captcha, or its
   executor still holds the result. It needs only layer 1.
7. `Settling`: a job has not finished before its executor has, the executor's copies are
   the items but for those a cancellation closed, and a finished job has no item left to
   run. It needs 4, without which a second executor finishes a job the first still works on.
8. `Asked`: an item is at a captcha, or was when it was cancelled, exactly when it has one;
   none is solved (`RemCaptcha`); its executor knows of those it has read and is in the
   middle of none.
9. `Busy` and `Counted`: nobody cancels, only an active job is executed, and the active
   jobs with the one admitted are within the quota.
10. `Windowed`: a broker whose successes were all recorded got no form, or one that the next
    job finds when it looks for a fresh one, or that an executor still holds; and none while
    the browser is about to run for it. With a quota of one the next job is created when
    this one has ended.

**ClientSessionProofs.** `OnlyKnown`: every token in the tab was issued. `Fresh`: a pair
on its way to the tab has not been rotated and is none the tab has; the properties say
this of the pair the tab holds and the one it presents, and every answer turns the first
kind into the second. `OneSession`: until a session is overtaken all that is held, sent or
awaited is of one account; `NameMatchesSession` follows, which is not inductive because
the name is read by a call of its own after the tokens have come.

**The pages.** `Current` (`FreezeChecklist`): an item of which no change is under way is
shown as the server has it unless the list is invalid, and is so in what a fetch has read;
with a page on the screen an invalid list is being fetched. `Consented` (`ScanForm`): what
is shown as granted was granted once, however old. `Awaited` (`RemediationStudio`): an
accepted dispatch is the server's last job, so the answer is about that job. `Known`
(`IdentifiersPage`): what the card holds is a challenge of the server, and the code typed
or sent is one the user could read, from a mailbox of theirs or from an answer;
challenges keep their identifier and whether they were exposed, so a code read for one
identifier cannot verify another.

**WebPagesProofs** takes those invariants over: a step of the composition is a step of the
page, which keeps its invariant, or leaves the page's variables alone. It instantiates the
page's proofs, so a lemma per page says that both instances have the same steps. The other
pages' invariants are proved there directly, under the steps of all:

- `PlanNumbered`, `PlanMarked` (`PlanBoard`): plans and the history of marks have the same
  numbers, every scope that has a plan has a latest one, two marks of one recommendation
  under way are in `overlapped`, and every recommendation outside it is as it was last
  marked or has the last mark under way.
- `ScoresNumbered`, `ScoresOfScope` (`ScoreStudio`): what is shown of a scope, fetched for
  it and latest for it is a snapshot stored for it, or none.
- `ConsentTyped`, `Answered` (`ConsentCenter`): for a purpose that is not unsure, the
  decisions under way are its last one, or, without any, the server's count agrees unless
  it has granted by itself since.
- `ScansNumbered`, `LiveFollows` (`LiveScan`): scans are created in order; card, effect,
  streams and cancellations are about scans that exist; an open stream is of the scan the
  effect ran for last, and a scan of which it has read an end has ended. The end may have
  been written over (`revived`), so the property is about what has happened, not about the
  row.
- `CacheTyped`, `CacheCurrent` (`ClientCache`): unless a change may have been missed, what
  is cached or on its way is current, or marked as invalid, or about to be overtaken by a
  fetch or by the success of the mutation that is served but untold. It rests on
  `ChangedIsInvalidated`, which goes through the tables of changes feature by feature: a
  mutation invalidates a prefix of the key of everything its handler may change, but for
  `LeftAlone`.

The types of all pages follow from these, with what each still lacks to be inductive: the
bounds of the lists (`PlanBounded`, `ScoresBounded`, `IdentifiersBounded`, `CacheBounded`:
a version is left for a mutation that is sent); that an open detail page is about a scan
(`LiveTyped`), for which the page polls; that the requests served by the form are finitely
many, because they are numbered by their count; and that an item the review queue waits for
is among those posted. `WithoutOne`, what remains of a sequence without one element, is the
lemma about the operators they share.

**Only model-checked:** liveness and the fairness it rests on (`EveryScanEnds`,
`EnqueuedScanFinishes`, `EnqueuedJobSettles`, `CallsSettle`, `EndedJobIsShown`,
`DetailShowsEnd`), which are out of the prover's reach. Every invariant and refinement
that a passing run checks is also a theorem; the hypotheses on `Events` are
those of the run, or weaker.

## 5. Not modelled

- *Alerts and scheduled rescans.* A rescan is one more scan to the engine. What remains
  are rows written and read: `compute_deltas` emits the same alert on each call within a
  day (`alert_service.py:132`), and `request_rescan` commits the scan before the policy's
  timestamps (line 182). The second is in the list of hazards.
- *Connector admission.* Its refusals are outcomes of a connector call in `ScanEngine`;
  Redis counters whose increment and expiry are two steps (`rate_limiter.py`) and leases
  are not modelled.
- *Verification.* Challenges are, with the page; the attempt counter, which is rolled back
  with the error it is written with (`verification_service.py:201`), is left out for that
  reason, and two confirmations of one challenge at once (line 228) and the retrieval of
  published proofs are not modelled.
- *Authentication.* Issuing and rotation are, with the client; the family of a replayed
  token, two rotations at once on the server (`auth_service.py:178`), password reset and
  administration are not.
- *Consent checks.* The server's own grants are, with the consent center; they are not
  composed with the engines, which leave consent out but for the error of deep scans.
- *Privacy rights.* Requests are, with the page; the erasure, its grace period and the
  export's contents are not. Two requests for deletion can both be on record
  (`privacy_service.py:72`).
- *Identity discovery and temporal changes on the server.* No page reaches them with
  effect, as said above; review items are grouped under row locks
  (`identity_review_queue_service.py:62`).
- *Scores, plans and briefings as calculations.* Their order and their scope are
  modelled. What a plan says is required first (`RecommendationsPage.tsx:243`) is shown
  and enforced nowhere.
- *Dashboard, onboarding, connector panel.* They count what the cached queries hold.
- *The other tabs of the identity page*, which read fields their answers do not have, and
  *user interface components, charts, schema, adapters*: presentation and I/O.
- *The event stream is not opened again* when it breaks (`sse.ts:27`); the card stays as
  it is, which `CardShowsEnd` already says.

## 6. Plan

1. *Done*: scan engine, its abstraction and proofs; remediation engine and proofs; the web
   session, cache and pages, with proofs of their safety properties.
2. `ConnectorAdmission`: budgets, leases, breakers with their separate Redis steps and
   expiry. Abstract: a counter that never exceeds its limit. 2 workers, limit 1.
3. `RescanSchedule`: `request_rescan` and `reconcile_scheduled` over the interface of
   the scan engine; a failure between the two transactions. 2 policies, 1 crash.
4. `IdentifierVerification` and `RefreshTokens`: two requests at once on the server, with
   the attempt counter and the family of a token.
5. `AccountErasure`: deletion requests with their grace period, shredding, failure
   half-way.
6. `FindingIngestion` and `Scoring` as functions against reference definitions.

Theorems to come: the safety part of the liveness properties (an ended scan's page that has
shown the end keeps it; a call that waits for a refresh waits for one under way), and the
list of limits turned round: for each hypothesis on `Events`, which part of the invariant
holds without it.

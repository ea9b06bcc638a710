------------------------- MODULE RemediationStates -------------------------
(***************************************************************************)
(* Statuses of remediation jobs and of their broker items, and the job     *)
(* transition table.                                                       *)
(***************************************************************************)


WaitingJob  == {"waiting_captcha", "waiting_email_confirm", "waiting_manual"}
ActiveJob   == {"pending", "running", "verifying"} \cup WaitingJob
TerminalJob == {"completed", "partial", "failed", "cancelled", "timed_out"}
JobStatus   == ActiveJob \cup TerminalJob

ItemStatus ==
  {"pending", "running", "submitted", "awaiting_email_confirm", "skipped_fresh",
   "not_listed", "manual_needed", "captcha_needed", "verified_removed",
   "still_listed", "error", "dead", "cancelled"}

JobTransitions ==
  [pending |-> {"running", "cancelled", "timed_out", "failed"},
   running |-> WaitingJob \cup {"verifying"} \cup TerminalJob,
   waiting_captcha |-> {"running", "waiting_manual", "cancelled", "timed_out", "failed"},
   waiting_email_confirm |-> {"running", "verifying", "completed", "partial",
                              "cancelled", "timed_out"},
   waiting_manual |-> {"running", "completed", "partial", "cancelled", "timed_out"},
   verifying |-> {"completed", "partial", "failed", "timed_out"}]

\* transition_job: a status may always be set to itself.
CanTransitionJob(from, to) ==
  from = to \/ (from \notin TerminalJob /\ to \in JobTransitions[from])

\* Mutated form: an item in progress does not keep a job open.
OpenUnlessRunning == {"captcha_needed", "awaiting_email_confirm", "manual_needed", "pending"}

\* Items that keep a job from being finalized.
OpenItem == {"captcha_needed", "awaiting_email_confirm", "manual_needed",
             "pending", "running"}

\* The final status of a job none of whose items is open, from the set of
\* their statuses.
FinalJobStatus(statuses) ==
  LET errors == statuses \cap {"error", "dead"} # {}
      ok     == statuses \cap {"submitted", "verified_removed", "skipped_fresh",
                               "not_listed"} # {}
  IN CASE errors /\ ok  -> "partial"
       [] errors /\ ~ok -> "failed"
       [] OTHER         -> "completed"
=============================================================================

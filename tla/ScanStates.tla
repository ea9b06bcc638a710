----------------------------- MODULE ScanStates -----------------------------
(***************************************************************************)
(* The pure state machine of a discovery scan and of its connector runs:   *)
(* the statuses, the transitions that set_scan_status and set_run_status   *)
(* accept, and the status a scan derives from its runs.                    *)
(***************************************************************************)

ScanStatus == {"pending", "running", "completed", "partial", "failed",
               "cancelled", "timed_out"}

RunStatus == {"pending", "running", "succeeded", "skipped", "failed", "timed_out"}

ActiveScan   == {"pending", "running"}
TerminalScan == ScanStatus \ ActiveScan

UnfinishedRun == {"pending", "running"}
TerminalRun   == RunStatus \ UnfinishedRun

ScanTransitions ==
  [st \in ScanStatus |->
     CASE st = "pending" -> {"running", "cancelled", "timed_out", "failed"}
       [] st = "running" -> TerminalScan
       [] OTHER          -> {}]

\* transition_scan: a move to the same status is accepted and changes nothing.
CanTransitionScan(from, to) == to = from \/ to \in ScanTransitions[from]

\* Mutated form: a skipped run keeps the scan running.
DeriveWaitingForSkips(statuses) ==
  IF statuses \cap (UnfinishedRun \cup {"skipped"}) # {} THEN "running" ELSE "completed"

\* derive_scan_status_from_runs counts successes, failures and skips; only
\* which statuses occur matters, so the list is the set of its elements.
DeriveScanStatus(statuses) ==
  CASE statuses = {}                           -> "completed"
    [] statuses \cap UnfinishedRun # {}        -> "running"
    [] statuses \in {{"succeeded"}, {"skipped"}} -> "completed"
    [] statuses # {"succeeded"}
         /\ "succeeded" \in statuses
         /\ statuses \subseteq TerminalRun     -> "partial"
    [] OTHER                                   -> "failed"

=============================================================================

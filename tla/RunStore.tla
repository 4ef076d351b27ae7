------------------------------ MODULE RunStore ------------------------------
(***************************************************************************)
(* The status column of a row of the runs table, its cancel_requested      *)
(* flag, and the conditional updates of src/store/sqlite.go (the same      *)
(* statements are in src/store/postgres.go). A conditional update is       *)
(* UPDATE runs SET status=... WHERE id=? AND status=...: its WHERE clause  *)
(* is the predicate here, and it takes effect on one row or on none.       *)
(* UpdateRun has no such clause: it overwrites whatever is there, but      *)
(* leaves cancel_requested alone.                                          *)
(***************************************************************************)

TerminalRun == {"success", "failed", "cancelled"}
RunStatus == {"absent", "pending", "running", "waiting"} \cup TerminalRun

\* isTerminalRunStatus
IsTerminalRun(s) == s \in TerminalRun

\* Faulty variants: a run that runs, or was cancelled, is claimed too.
CanClaimRunning(s) == s \in {"pending", "running"}
CanClaimCancelled(s) == s \in {"pending", "cancelled"}

CanClaimPending(s) == s = "pending"             \* ClaimPendingRun
CanCancelPending(s) == s = "pending"            \* CancelPendingRun
CanClaimWaiting(s) == s = "waiting"             \* ClaimWaitingRun
CanFailWaiting(s) == s = "waiting"              \* FailWaitingRun
CanCancelWaiting(s) == s = "waiting"            \* CancelWaitingRun

\* RequestRunCancel: nothing is recorded for a waiting or a finished run.
CanRequestCancel(s) == s \in {"pending", "running"}

\* ListNonTerminalRuns: a parked run is the wait watcher's, not recovery's.
IsListedNonTerminal(s) == s \in {"pending", "running"}
=============================================================================

---------------------------- MODULE CrashRecovery ----------------------------
(***************************************************************************)
(* A run whose process may die at any point, and the recovery passes that  *)
(* take it up: RecoverNonTerminalRuns / recoverRun (src/engine/recovery.go)*)
(* at startup and from the leader's sweep, the re-queue of interrupted     *)
(* runs (src/engine/recovery_requeue.go), and the event log they rebuild   *)
(* the run from (ProjectRun, src/engine/projection.go).                    *)
(*                                                                         *)
(* ProjectRun is a left fold over the log, so the log is kept as what the  *)
(* fold has made of it so far: projStatus and nodeRun, changed by every    *)
(* append. Nodes run one after the other (one-node waves); an attempt row  *)
(* is AttemptStore's. Clocks are abstracted to what recovery asks of them: *)
(* whether a lease has expired, whether the run is young, and whether the  *)
(* last event that is not recovery's own is recent. Processes that do not  *)
(* stall renew their leases in time and go from one node to the next       *)
(* within the grace period; waiting for a concurrency slot or for a retry  *)
(* takes as long as it takes.                                              *)
(***************************************************************************)
EXTENDS AttemptStore, RunStore, Sequences

CONSTANTS
    Procs,          \* engine processes
    Execs,          \* deliveries of the run's job
    ProcOf,         \* the process of each
    Sweepers,       \* processes that run recovery passes
    Pipeline,       \* the nodes, in execution order
    Unsafe,         \* nodes that may write outside Brokoli
    MaxRetries,     \* retries of a node
    MaxRequeues,    \* maxRecoveryRequeues
    MaxCrashes,     \* bound on process deaths
    UserCancels     \* whether the user cancels the run

Nodes == {Pipeline[i] : i \in 1..Len(Pipeline)}
Attempts == 0..MaxRetries

ASSUME RecoveryAssumption ==
    /\ ProcOf \in [Execs -> Procs]
    /\ Pipeline \in Seq(Nodes) /\ Unsafe \subseteq Nodes
    /\ Sweepers \subseteq Procs
    /\ NoOne \notin Procs
    /\ MaxRetries \in Nat /\ MaxRequeues \in Nat /\ MaxCrashes \in Nat
    /\ UserCancels \in BOOLEAN

VARIABLES
    status,     \* runs.status
    cancelReq,  \* runs.cancel_requested
    young,      \* started_at is younger than RecoveryMinRunAge
    attempt,    \* <<node, attempt>> -> its execution_attempts row
    projStatus, \* ProjectRun(log).Status
    nodeRun,    \* <<node, attempt>> -> the status of its projected NodeRun
    requeues,   \* run.recovery_requeued events in the log
    recent,     \* the last genuine event is younger than the grace period
    epc,        \* Exec -> where it is
    cur,        \* Exec -> index of its node
    att,        \* Exec -> attempt number
    gen,        \* Exec -> fencing generation it holds
    want,       \* Exec -> the status it is about to write
    rpc,        \* sweeping process -> where its pass over this run is
    rwhy,       \* sweeping process -> the verdict it is about to record
    rcancel,    \* sweeping process -> CancelRequested of the row it listed
    rclose,     \* sweeping process -> the NodeRun it is about to close, in a set
    crashes,    \* process deaths so far
    finished,   \* history: nodes whose handler returned success
    handled,    \* history: <<node, Exec>> whose handler was started
    early       \* history: a re-queue was written when it was no longer, or not yet, safe

log == <<projStatus, nodeRun, requeues, recent>>
exec == <<epc, cur, att, gen, want>>
sweep == <<rpc, rwhy, rcancel, rclose>>
history == <<crashes, finished, handled, early>>
vars == <<status, cancelReq, young, attempt, log, exec, sweep, history>>

\* The clock reads 1: a lease that ends at 2 is live, one that ended at 0 has expired.
Now == 1
LeaseTerm == 1
Expired == 0

ExecPC == {"idle", "claimed", "slot", "wave", "attempt", "created", "run", "ok", "bad",
           "settleOk", "settleBad", "backoff", "write", "logEnd", "done", "dead"}
Verdict == {"none", "requeue", "giveUp", "unresolved"} \cup TerminalRun

\* A Runner of this process is registered in Engine.active.
LocallyActive(p) ==
    \E x \in Execs : ProcOf[x] = p /\ epc[x] \notin {"idle", "claimed", "done", "dead"}

LiveRunner(x) == epc[x] \notin {"idle", "done", "dead"}

\* The phases in which a Runner makes progress on its own account, and soon.
InTransition(x) == epc[x] \in {"claimed", "wave", "attempt", "created", "ok", "bad",
                               "settleOk", "settleBad", "write", "logEnd"}

Key(x) == <<Pipeline[cur[x]], att[x]>>

Init ==
    /\ status = "pending" /\ cancelReq = FALSE /\ young = FALSE
    /\ attempt = [k \in Nodes \X Attempts |-> AbsentRow]
    /\ projStatus = "pending" /\ requeues = 0 /\ recent = TRUE
    /\ nodeRun = [k \in Nodes \X Attempts |-> "none"]
    /\ epc = [x \in Execs |-> "idle"]
    /\ cur = [x \in Execs |-> 1] /\ att = [x \in Execs |-> 0] /\ gen = [x \in Execs |-> 0]
    /\ want = [x \in Execs |-> "none"]
    /\ rpc = [p \in Sweepers |-> "idle"]
    /\ rwhy = [p \in Sweepers |-> "none"]
    /\ rcancel = [p \in Sweepers |-> FALSE]
    /\ rclose = [p \in Sweepers |-> {}]
    /\ crashes = 0 /\ finished = {} /\ handled = {}
    /\ early = FALSE

At(x, from, to) == epc[x] = from /\ epc' = [epc EXCEPT ![x] = to]

\* The executions in X end, and what they held in memory is gone.
EndExecs(X, to) ==
    /\ epc' = [x \in Execs |-> IF x \in X THEN to ELSE epc[x]]
    /\ cur' = [x \in Execs |-> IF x \in X THEN 1 ELSE cur[x]]
    /\ att' = [x \in Execs |-> IF x \in X THEN 0 ELSE att[x]]
    /\ gen' = [x \in Execs |-> IF x \in X THEN 0 ELSE gen[x]]
    /\ want' = [x \in Execs |-> IF x \in X THEN "none" ELSE want[x]]

-----------------------------------------------------------------------------
(* ProjectRun: what appending an event does to the projection. These       *)
(* events are genuine activity, so the log becomes recent.                 *)

\* run.claimed, run.terminal, run.cancelled: the run's status.
LogRun(s) ==
    /\ projStatus' = s
    /\ recent' = TRUE
    /\ UNCHANGED <<nodeRun, requeues>>

\* attempt.started, attempt.completed, attempt.failed: the NodeRun of (node, attempt).
LogAttempt(k, s) ==
    /\ nodeRun' = [nodeRun EXCEPT ![k] = s]
    /\ recent' = TRUE
    /\ UNCHANGED <<projStatus, requeues>>

\* latestNodeOutcome: the highest attempt of a node that has a record.
Recorded(n) == {a \in Attempts : nodeRun[<<n, a>>] # "none"}
LatestAttempt(n) == CHOOSE a \in Recorded(n) : \A b \in Recorded(n) : b <= a
LatestOutcome(n) == IF Recorded(n) = {} THEN "none" ELSE nodeRun[<<n, LatestAttempt(n)>>]

-----------------------------------------------------------------------------
(* ExecuteQueuedRun and Runner.Execute.                                    *)

(* A delivery of the job finds the run pending and ClaimPendingRun takes   *)
(* effect. The queue delivers at least once and the redispatch sweep       *)
(* enqueues every pending run again, so a delivery may come at any time.   *)
Claim(x) ==
    /\ CanClaimPending(status)
    /\ At(x, "idle", "claimed")
    /\ status' = "running" /\ young' = TRUE
    /\ UNCHANGED <<cancelReq, attempt, log, cur, att, gen, want, sweep, history>>

\* The run.claimed event, then the wait for a concurrency slot.
LogClaimed(x) ==
    /\ At(x, "claimed", "slot")
    /\ LogRun("running")
    /\ UNCHANGED <<status, cancelReq, young, attempt, cur, att, gen, want, sweep, history>>

BeginExecute(x) ==
    /\ At(x, "slot", "wave")
    /\ UNCHANGED <<status, cancelReq, young, attempt, log, cur, att, gen, want, sweep, history>>

\* The results a Runner may come to write: cancellation wins if it has been noticed.
MayWrite(s) == IF cancelReq THEN {s, "cancelled"} ELSE {s}

\* The wave boundary: the cancel is noticed, all nodes are done, or the next node.
Wave(x) ==
    /\ \/ /\ cancelReq
          /\ At(x, "wave", "write")
          /\ want' = [want EXCEPT ![x] = "cancelled"]
       \/ /\ cur[x] > Len(Pipeline)
          /\ At(x, "wave", "write")
          /\ want' = [want EXCEPT ![x] = "success"]
       \/ /\ cur[x] <= Len(Pipeline)
          /\ At(x, "wave", "attempt")
          /\ UNCHANGED want
    /\ UNCHANGED <<status, cancelReq, young, attempt, log, cur, att, gen, sweep, history>>

\* The node attempt's row is created and claimed.
ClaimNode(x) ==
    /\ At(x, "attempt", "created")
    /\ LET r == CreateAttempt(attempt[Key(x)]) IN
        /\ CanClaim(r, Now)
        /\ attempt' = [attempt EXCEPT ![Key(x)] = Claimed(r, ProcOf[x], Now, LeaseTerm)]
        /\ gen' = [gen EXCEPT ![x] = r.gen + 1]
    /\ UNCHANGED <<status, cancelReq, young, log, cur, att, want, sweep, history>>

\* "Already claimed or terminal": the node fails without a retry.
ClaimNodeRefused(x) ==
    /\ At(x, "attempt", "write")
    /\ ~CanClaim(CreateAttempt(attempt[Key(x)]), Now)
    /\ \E s \in MayWrite("failed") : want' = [want EXCEPT ![x] = s]
    /\ UNCHANGED <<status, cancelReq, young, attempt, log, cur, att, gen, sweep, history>>

(* The attempt.started event, AckAttempt, and the handler starts. (An ack  *)
(* that is refused takes a stall past the lease: ExecutionAttempt has it.) *)
StartNode(x) ==
    /\ At(x, "created", "run")
    /\ HoldsLease(attempt[Key(x)], ProcOf[x], gen[x])
    /\ attempt' = [attempt EXCEPT ![Key(x)] = Acked(@)]
    /\ LogAttempt(Key(x), "running")
    /\ handled' = handled \cup {<<Pipeline[cur[x]], x>>}
    /\ UNCHANGED <<status, cancelReq, young, cur, att, gen, want, sweep>>
    /\ UNCHANGED <<crashes, finished, early>>

NodeSucceeds(x) ==
    /\ At(x, "run", "ok")
    /\ finished' = finished \cup {Pipeline[cur[x]]}
    /\ UNCHANGED <<status, cancelReq, young, attempt, log, cur, att, gen, want, sweep>>
    /\ UNCHANGED <<crashes, handled, early>>

\* The handler fails by itself, or because the cancel has ended its context.
NodeFails(x) ==
    /\ At(x, "run", "bad")
    /\ UNCHANGED <<status, cancelReq, young, attempt, log, cur, att, gen, want, sweep, history>>

\* UpdateNodeRun and the attempt.completed or attempt.failed event.
LogOutcome(x) ==
    /\ \/ At(x, "ok", "settleOk") /\ LogAttempt(Key(x), "success")
       \/ At(x, "bad", "settleBad") /\ LogAttempt(Key(x), "failed")
    /\ UNCHANGED <<status, cancelReq, young, attempt, cur, att, gen, want, sweep, history>>

\* CompleteAttempt, and on to the next node.
SettleOk(x) ==
    /\ At(x, "settleOk", "wave")
    /\ attempt' = [attempt EXCEPT ![Key(x)] = Settle(@, gen[x], "completed")]
    /\ cur' = [cur EXCEPT ![x] = @ + 1]
    /\ att' = [att EXCEPT ![x] = 0]
    /\ UNCHANGED <<status, cancelReq, young, log, gen, want, sweep, history>>

(* FailAttempt, then the retry.scheduled event and the back-off, or failRun *)
(* when no retry is left or the timed-out handler does not stop.           *)
SettleBad(x) ==
    /\ \/ /\ att[x] < MaxRetries
          /\ At(x, "settleBad", "backoff")
          /\ UNCHANGED want
       \/ /\ At(x, "settleBad", "write")
          /\ \E s \in MayWrite("failed") : want' = [want EXCEPT ![x] = s]
    /\ attempt' = [attempt EXCEPT ![Key(x)] = Settle(@, gen[x], "failed")]
    /\ recent' = TRUE
    /\ UNCHANGED <<status, cancelReq, young, projStatus, nodeRun, requeues, cur, att, gen, sweep, history>>

\* The back-off is over, or cut short by the cancel.
Retry(x) ==
    /\ \/ /\ At(x, "backoff", "attempt")
          /\ att' = [att EXCEPT ![x] = @ + 1]
          /\ UNCHANGED want
       \/ /\ cancelReq
          /\ At(x, "backoff", "write")
          /\ want' = [want EXCEPT ![x] = "cancelled"]
          /\ UNCHANGED att
    /\ UNCHANGED <<status, cancelReq, young, attempt, log, cur, gen, sweep, history>>

\* UpdateRun with the result, whatever the row has come to say; then its event.
WriteResult(x) ==
    /\ At(x, "write", "logEnd")
    /\ status' = want[x]
    /\ UNCHANGED <<cancelReq, young, attempt, log, cur, att, gen, want, sweep, history>>

LogResult(x) ==
    /\ epc[x] = "logEnd"
    /\ LogRun(want[x])
    /\ EndExecs({x}, "done")
    /\ UNCHANGED <<status, cancelReq, young, attempt, sweep, history>>

-----------------------------------------------------------------------------
(* recoverRun.                                                             *)

SweepAt(p, from, to) == rpc[p] = from /\ rpc' = [rpc EXCEPT ![p] = to]

\* The pass is over with this run, and forgets what it read of it.
EndSweeps(P) ==
    /\ rpc' = [p \in Sweepers |-> IF p \in P THEN "idle" ELSE rpc[p]]
    /\ rwhy' = [p \in Sweepers |-> IF p \in P THEN "none" ELSE rwhy[p]]
    /\ rcancel' = [p \in Sweepers |-> IF p \in P THEN FALSE ELSE rcancel[p]]
    /\ rclose' = [p \in Sweepers |-> IF p \in P THEN {} ELSE rclose[p]]

\* Faulty variant: the pass's own run.recovery_started counts as activity.
BeginSweepIsActivity(p) ==
    /\ IsListedNonTerminal(status)
    /\ ~LocallyActive(p)
    /\ status = "running" => ~young
    /\ SweepAt(p, "idle", "reconcile")
    /\ rcancel' = [rcancel EXCEPT ![p] = cancelReq]
    /\ recent' = TRUE
    /\ UNCHANGED <<status, cancelReq, young, attempt, projStatus, nodeRun, requeues, exec, rwhy, rclose, history>>

(* ListNonTerminalRuns returned the run, and neither Engine.active nor its *)
(* age defers it. A pending run has no started_at.                         *)
BeginSweep(p) ==
    /\ IsListedNonTerminal(status)
    /\ ~LocallyActive(p)
    /\ status = "running" => ~young
    /\ SweepAt(p, "idle", "reconcile")
    /\ rcancel' = [rcancel EXCEPT ![p] = cancelReq]
    /\ UNCHANGED <<status, cancelReq, young, attempt, log, exec, rwhy, rclose, history>>

Unsettled(r) == ~IsTerminalAttempt(r) /\ r.lease # NoLease

(* reconcileExecutionAttempts: a live lease defers the run, otherwise the  *)
(* expired attempts are failed. (That the listed lease may be renewed      *)
(* before it is failed is ExecutionAttempt's NoLiveLeaseReclaimed.)        *)
Reconcile(p) ==
    /\ rpc[p] = "reconcile"
    /\ IF \E k \in DOMAIN attempt : Unsettled(attempt[k]) /\ attempt[k].lease > Now
       THEN EndSweeps({p}) /\ UNCHANGED attempt
       ELSE /\ SweepAt(p, "reconcile", "decide")
            /\ attempt' = [k \in DOMAIN attempt |->
                   IF Unsettled(attempt[k]) THEN Settled(attempt[k], "failed") ELSE attempt[k]]
            /\ UNCHANGED <<rwhy, rcancel, rclose>>
    /\ UNCHANGED <<status, cancelReq, young, log, exec, history>>

\* Faulty variant: a node without a record does not count against success.
AllSuccessOfRecorded == \A n \in Nodes : LatestOutcome(n) \in {"none", "success"}

AllSuccess == \A n \in Nodes : LatestOutcome(n) = "success"

\* A node is stuck mid-attempt: whether it did its work cannot be known.
Stuck == {n \in Nodes : LatestOutcome(n) = "running"}
Ambiguous == Stuck # {}
DefiniteFailure == ~Ambiguous /\ \E n \in Nodes : LatestOutcome(n) = "failed"

\* interruptedRunIsSafeToRequeue: nothing with a record could have written outside.
SafeToRequeue == \A n \in Nodes : LatestOutcome(n) # "none" => n \notin Unsafe

\* tryRequeueInterruptedRun's conditions (a job queue is configured).
Requeueable(p) == ~rcancel[p] /\ requeues < MaxRequeues /\ SafeToRequeue

(* ListEventsByRun, ProjectRun and the decision. The row of a run whose    *)
(* log has ended is brought in line with what was read of the log. A run   *)
(* whose projection is pending, or ambiguous and recent, is left alone     *)
(* until the next sweep.                                                   *)
Decide(p) ==
    LET verdict == IF IsTerminalRun(projStatus) THEN projStatus
                   ELSE IF projStatus = "pending" THEN "none"
                   ELSE IF AllSuccess THEN "success"
                   ELSE IF DefiniteFailure THEN "failed"
                   ELSE IF recent THEN "none"
                   ELSE IF Requeueable(p) THEN "requeue"
                   ELSE "giveUp"
        next == IF IsTerminalRun(projStatus) THEN "sync"
                ELSE IF verdict = "giveUp" /\ Ambiguous THEN "close"
                ELSE "write"
    IN  /\ rpc[p] = "decide"
        /\ IF verdict = "none"
           THEN EndSweeps({p})
           ELSE /\ SweepAt(p, "decide", next)
                /\ rwhy' = [rwhy EXCEPT ![p] = verdict]
                /\ IF next = "close"
                   THEN \E n \in Stuck : rclose' = [rclose EXCEPT ![p] = {<<n, LatestAttempt(n)>>}]
                   ELSE UNCHANGED rclose
                /\ UNCHANGED rcancel
        /\ UNCHANGED <<status, cancelReq, young, attempt, log, exec, history>>

(* The pipeline version cannot be resolved: markRecoveryFailed at once.    *)
CannotResolve(p) ==
    /\ projStatus = "running"
    /\ SweepAt(p, "decide", "write")
    /\ rwhy' = [rwhy EXCEPT ![p] = "unresolved"]
    /\ UNCHANGED <<status, cancelReq, young, attempt, log, exec, rcancel, rclose, history>>

(* closeDanglingNodeRun, before the run itself is given up: the one NodeRun *)
(* the verdict was blamed on, as it was read of the log, whatever has been  *)
(* appended since.                                                          *)
CloseDangling(p) ==
    /\ SweepAt(p, "close", "write")
    /\ \E k \in rclose[p] : LogAttempt(k, "failed")
    /\ rclose' = [rclose EXCEPT ![p] = {}]
    /\ UNCHANGED <<status, cancelReq, young, attempt, exec, rwhy, rcancel, history>>

\* What markRecoveryFailed makes of a run: a listed cancel is honoured.
GiveUpStatus(p) == IF rcancel[p] THEN "cancelled" ELSE "failed"

\* UpdateRun(projected): the log has its last event already.
WriteSynced(p) ==
    /\ rpc[p] = "sync"
    /\ status' = rwhy[p]
    /\ EndSweeps({p})
    /\ UNCHANGED <<cancelReq, young, attempt, log, exec, history>>

(* What a re-queue was decided on holds: nobody runs the run, and nothing  *)
(* that may write outside has a record. The code does not ask again.       *)
StillSafe == SafeToRequeue /\ \A x \in Execs : ~LiveRunner(x)

\* The UpdateRun of the verdict, as blind as the Runner's.
WriteVerdict(p) ==
    /\ SweepAt(p, "write", "log")
    /\ status' = CASE rwhy[p] = "requeue" -> "pending"
                   [] rwhy[p] \in {"giveUp", "unresolved"} -> GiveUpStatus(p)
                   [] OTHER -> rwhy[p]
    /\ early' = (early \/ (rwhy[p] = "requeue" /\ ~StillSafe))
    /\ UNCHANGED <<cancelReq, young, attempt, log, exec, rwhy, rcancel, rclose>>
    /\ UNCHANGED <<crashes, finished, handled>>

Logged(p) ==
    /\ rpc[p] = "log"
    /\ EndSweeps({p})
    /\ UNCHANGED <<status, cancelReq, young, attempt, exec, history>>

\* finalizeRecoveredRun
LogFinalized(p) ==
    /\ rwhy[p] \in {"success", "failed"}
    /\ Logged(p)
    /\ LogRun(rwhy[p])

\* markRecoveryFailed, whose run.recovery_failed is not genuine activity.
LogGivenUp(p) ==
    /\ rwhy[p] \in {"giveUp", "unresolved"}
    /\ Logged(p)
    /\ projStatus' = GiveUpStatus(p)
    /\ recent' = (recent \/ rcancel[p])
    /\ UNCHANGED <<nodeRun, requeues>>

\* tryRequeueInterruptedRun's event and its Enqueue: a delivery is to come.
LogRequeued(p) ==
    /\ rwhy[p] = "requeue"
    /\ Logged(p)
    /\ projStatus' = "pending"
    /\ requeues' = requeues + 1
    /\ recent' = TRUE
    /\ UNCHANGED nodeRun

-----------------------------------------------------------------------------
(* Time, users and failures.                                               *)

LeaseExpires(k) ==
    /\ attempt[k].lease > Now /\ ~IsTerminalAttempt(attempt[k])
    /\ \A x \in Execs : epc[x] \in {"created", "run", "ok", "bad", "settleOk", "settleBad"} =>
                            Key(x) # k \/ gen[x] # attempt[k].gen
    /\ attempt' = [attempt EXCEPT ![k].lease = Expired]
    /\ UNCHANGED <<status, cancelReq, young, log, exec, sweep, history>>

Quiet ==
    /\ recent
    /\ \A x \in Execs : ~InTransition(x)
    /\ recent' = FALSE
    /\ UNCHANGED <<status, cancelReq, young, attempt, projStatus, nodeRun, requeues, exec, sweep, history>>

Age ==
    /\ young
    /\ young' = FALSE
    /\ UNCHANGED <<status, cancelReq, attempt, log, exec, sweep, history>>

RequestCancel ==
    /\ UserCancels
    /\ ~cancelReq /\ CanRequestCancel(status)
    /\ cancelReq' = TRUE
    /\ UNCHANGED <<status, young, attempt, log, exec, sweep, history>>

\* CancelRun of a run that nobody has claimed, after its intent is recorded.
CancelPending ==
    /\ cancelReq /\ CanCancelPending(status)
    /\ status' = "cancelled"
    /\ LogRun("cancelled")
    /\ UNCHANGED <<cancelReq, young, attempt, exec, sweep, history>>

\* A process dies, with its Runners and its recovery pass; it comes up again.
Crash(p) ==
    /\ crashes < MaxCrashes
    /\ crashes' = crashes + 1
    /\ \/ \E x \in Execs : ProcOf[x] = p /\ LiveRunner(x)
       \/ p \in Sweepers /\ rpc[p] # "idle"
    /\ EndExecs({x \in Execs : ProcOf[x] = p /\ LiveRunner(x)}, "dead")
    /\ EndSweeps({p})
    /\ UNCHANGED <<status, cancelReq, young, attempt, log>>
    /\ UNCHANGED <<finished, handled, early>>

ExecStep(x) ==
    \/ Claim(x) \/ LogClaimed(x) \/ BeginExecute(x) \/ Wave(x)
    \/ ClaimNode(x) \/ ClaimNodeRefused(x) \/ StartNode(x)
    \/ NodeSucceeds(x) \/ NodeFails(x) \/ LogOutcome(x)
    \/ SettleOk(x) \/ SettleBad(x) \/ Retry(x) \/ WriteResult(x) \/ LogResult(x)

SweepStep(p) ==
    \/ BeginSweep(p) \/ Reconcile(p) \/ Decide(p) \/ CannotResolve(p)
    \/ WriteSynced(p) \/ CloseDangling(p) \/ WriteVerdict(p) \/ LogFinalized(p) \/ LogGivenUp(p) \/ LogRequeued(p)

TimePasses == Quiet \/ Age \/ \E k \in Nodes \X Attempts : LeaseExpires(k)

Next ==
    \/ \E x \in Execs : ExecStep(x)
    \/ \E p \in Sweepers : SweepStep(p)
    \/ TimePasses \/ RequestCancel \/ CancelPending
    \/ \E p \in Procs : Crash(p)

Spec == Init /\ [][Next]_vars

(* Goroutines that can go on do, the leader keeps sweeping, and time       *)
(* passes. Nothing says that a process ever dies or that a user cancels.   *)
FairSpec ==
    /\ Spec
    /\ \A x \in Execs : WF_vars(ExecStep(x))
    /\ \A p \in Sweepers : WF_vars(SweepStep(p))
    /\ WF_vars(TimePasses)

-----------------------------------------------------------------------------
(* Properties                                                              *)

TypeOK ==
    /\ status \in RunStatus /\ projStatus \in RunStatus
    /\ cancelReq \in BOOLEAN /\ young \in BOOLEAN /\ recent \in BOOLEAN
    /\ attempt \in [Nodes \X Attempts ->
            [status: AttemptStatus, claimedBy: Procs \cup {NoOne}, lease: Nat \cup {NoLease}, gen: Nat]]
    /\ nodeRun \in [Nodes \X Attempts -> {"none", "running", "success", "failed"}]
    /\ requeues \in Nat
    /\ epc \in [Execs -> ExecPC]
    /\ cur \in [Execs -> 1..(Len(Pipeline) + 1)]
    /\ att \in [Execs -> Attempts]
    /\ gen \in [Execs -> Nat]
    /\ want \in [Execs -> {"none"} \cup TerminalRun]
    /\ rpc \in [Sweepers -> {"idle", "reconcile", "decide", "sync", "close", "write", "log"}]
    /\ rwhy \in [Sweepers -> Verdict]
    /\ rcancel \in [Sweepers -> BOOLEAN]
    /\ rclose \in [Sweepers -> SUBSET (Nodes \X Attempts)]
    /\ finished \subseteq Nodes
    /\ handled \subseteq Nodes \X Execs
    /\ early \in BOOLEAN
    /\ crashes \in 0..MaxCrashes

(* A run recorded as successful, by its Runner or by recovery from the     *)
(* log, has had every one of its nodes run to success.                     *)
SuccessIsTrue == status = "success" => finished = Nodes

(* A node that may write outside Brokoli is started by one execution of    *)
(* the run only, through every crash, retry and adoption: for a second one *)
(* a re-queue must have been written while a Runner was alive or after     *)
(* such a node had started, and then the lease still lets it start only    *)
(* after the death of the first.                                           *)
UnsafeRunsOnce ==
    \A n \in Unsafe, x, y \in Execs :
        <<n, x>> \in handled /\ <<n, y>> \in handled /\ x # y =>
            early /\ "dead" \in {epc[x], epc[y]}

\* The run is running by its row, and no process is alive to run it.
Orphaned == status = "running" /\ \A x \in Execs : ~LiveRunner(x)

(* A run whose process died does not stay orphaned for ever: some pass of  *)
(* the sweep finishes it or puts it back on the queue, unless its log does *)
(* not have it as claimed.                                                 *)
LoggedOrphanRecovered == []<>(~Orphaned \/ projStatus = "pending")

-----------------------------------------------------------------------------
(* Stated by the code or its comments, and refuted by TLC: see the section *)
(* on divergences in README.md.                                            *)

(* Orphans with no exception: recoverRun says that a run whose log has it  *)
(* as pending "was never claimed": then no run stays running for ever with *)
(* nobody to run it.                                                       *)
OrphanRecovered == []<>~Orphaned

(* "Only the delivery that atomically transitions pending to running       *)
(* executes": no two live executions of the run.                           *)
OneLiveRunner == \A x, y \in Execs : LiveRunner(x) /\ LiveRunner(y) => x = y

(* "Those can be re-queued with no risk at all, because there is nothing   *)
(* to duplicate": no node that may write is started by two executions.     *)
NoRiskInRequeue ==
    \A n \in Unsafe, x, y \in Execs : <<n, x>> \in handled /\ <<n, y>> \in handled => x = y

(* "An explicit failed-node outcome is unambiguous regardless of timing":  *)
(* recovery does not finalize as failed a run whose Runner is alive and    *)
(* waits to retry the failed node.                                         *)
FailedVerdictIsFinal ==
    [][\A p \in Sweepers :
          rpc[p] = "write" /\ rpc'[p] = "log" /\ rwhy[p] = "failed" =>
              \A x \in Execs : epc[x] # "backoff"]_vars

(* "A just-created Queued row must be claimable": the execution that owns  *)
(* the run is never refused the attempt of a node it comes to.             *)
ClaimNeverRefused == [][\A x \in Execs : ~ClaimNodeRefused(x)]_vars

(* "A cancel is never rewritten into a failure by the recovery path": a    *)
(* pass that listed the run with its cancel intent does not record it as   *)
(* failed.                                                                 *)
CancelNotRewritten ==
    [][\A p \in Sweepers :
          rpc[p] = "write" /\ rpc'[p] = "log" /\ rcancel[p] => status' # "failed"]_vars
=============================================================================

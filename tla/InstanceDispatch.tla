-------------------------- MODULE InstanceDispatch --------------------------
(***************************************************************************)
(* Remote instances of one expansion node (src/engine/expansion.go,        *)
(* src/engine/instance_worker.go, src/engine/sql_artifact_store.go): the   *)
(* Runner claims an attempt row per item, puts a work order on the job     *)
(* queue and polls the row; a worker executes the order, writes the        *)
(* artifact under the order's (attempt, generation) and settles the row.   *)
(*                                                                         *)
(* Jobs are delivered at least once: a job that a worker fails goes back   *)
(* to the queue, and one whose worker falls silent is handed to another    *)
(* (extensions.JobQueueRenewer). Runner and workers may die anywhere. A    *)
(* run that recovery re-queues executes the node again from attempt 0.     *)
(*                                                                         *)
(* Left out: an artifact store without fencing, and the local path, which  *)
(* has no worker to race with. The list-then-fail race of recovery is in   *)
(* ExecutionAttempt; here a reconciliation is one step.                    *)
(***************************************************************************)
EXTENDS AttemptStore, FiniteSets

CONSTANTS
    Items,              \* the items of the expansion, by instance key
    MaxConcurrent,      \* maxConcurrentRemoteExpansionDispatch
    MaxAttempt,         \* the node's max_retries
    MaxEpoch,           \* bound: executions of the run
    MaxDeliveries,      \* bound: deliveries of one job
    MaxRepeats,         \* bound: jobs that are delivered more than once
    MayCancel           \* whether a user may cancel the run

VARIABLES
    row,        \* execution_attempts, by instance and attempt
    artifact,   \* the artifacts table: who wrote the row of each instance
    queue,      \* every job: where it is, and how often it was delivered
    work,       \* the deliveries that workers are processing
    alive,      \* whether the process of the current execution lives
    epoch,      \* which execution of the run this is
    attempt,    \* executeNode's attempt of the expansion node
    node,       \* what executeNode has made of the node
    disp,       \* the phase of each item's dispatch goroutine
    token,      \* the fencing generation its claim returned
    slot,       \* slots[i]: the artifact it read, or None
    cache,      \* Runner.expansionResults
    cancelled   \* runs.cancel_requested, and the Runner's context with it

runnerVars == <<alive, epoch, attempt, node, disp, token, slot, cache>>
vars == <<row, artifact, queue, work, runnerVars, cancelled>>

Attempts == 0..MaxAttempt
Jobs == [inst : Items, attempt : Attempts, gen : 1..MaxEpoch]
Deliveries == [job : Jobs, n : 1..MaxDeliveries]
None == [attempt |-> -1, gen |-> 0]
Written == [attempt : Attempts, gen : 1..MaxEpoch]

(* A lease is live or it is not: time stands at 1, a claim or a renewal    *)
(* sets the lease to 1, and an expired one is 0.                           *)
Now == 1
LeaseLive(r) == ~IsTerminalAttempt(r) /\ r.lease >= Now
LeaseExpired(r) == ~IsTerminalAttempt(r) /\ r.lease # NoLease /\ r.lease < Now

InFlight == {i \in Items : disp[i] \in {"claimed", "acked", "waiting"}}

TypeOK ==
    /\ row \in [Items -> [Attempts -> [status : AttemptStatus, claimedBy : 0..MaxEpoch \cup {NoOne},
                                           lease : {NoLease, 0, 1}, gen : 0..MaxEpoch]]]
    /\ artifact \in [Items -> Written \cup {None}]
    /\ queue \in [Jobs -> [at : {"nowhere", "pending", "processing", "settled"}, n : 0..MaxDeliveries]]
    /\ work \in [Deliveries -> {"none", "running", "cancelled", "wrote"}]
    /\ alive \in BOOLEAN /\ cancelled \in BOOLEAN
    /\ epoch \in 1..MaxEpoch /\ attempt \in Attempts
    /\ node \in {"running", "success", "failed"}
    /\ disp \in [Items -> {"idle", "claimed", "acked", "waiting", "got", "failed"}]
    /\ token \in [Items -> 0..MaxEpoch]
    /\ slot \in [Items -> Written \cup {None}]
    /\ cache \in [Items -> Written \cup {None}]

Init ==
    /\ row = [i \in Items |-> [a \in Attempts |-> AbsentRow]]
    /\ artifact = [i \in Items |-> None]
    /\ queue = [j \in Jobs |-> [at |-> "nowhere", n |-> 0]]
    /\ work = [d \in Deliveries |-> "none"]
    /\ alive = TRUE /\ epoch = 1 /\ attempt = 0 /\ node = "running"
    /\ disp = [i \in Items |-> "idle"]
    /\ token = [i \in Items |-> 0]
    /\ slot = [i \in Items |-> None]
    /\ cache = [i \in Items |-> None]
    /\ cancelled = FALSE
-----------------------------------------------------------------------------
(* The Runner: executeExpansionInstance and dispatchInstanceWorkOrderRemotely. *)

\* One step of item i's goroutine on its own row: the row and the phase after it.
Step(i, r, phase) ==
    /\ row' = [row EXCEPT ![i][attempt] = r]
    /\ disp' = [disp EXCEPT ![i] = phase]

(* CreateExecutionAttemptTx and ClaimAttempt. A row that an earlier        *)
(* execution has settled, or whose lease is live, refuses the claim.       *)
StartInstance(i) ==
    LET r == CreateAttempt(row[i][attempt])
        ok == CanClaim(r, Now)
    IN  /\ alive /\ disp[i] = "idle"
        /\ Cardinality(InFlight) < MaxConcurrent
        /\ Step(i, IF ok THEN Claimed(r, epoch, Now, 0) ELSE r, IF ok THEN "claimed" ELSE "failed")
        /\ token' = [token EXCEPT ![i] = IF ok THEN r.gen + 1 ELSE 0]
        /\ UNCHANGED <<artifact, queue, work, alive, epoch, attempt, node, slot, cache, cancelled>>

\* AckAttempt
AckInstance(i) ==
    LET r == row[i][attempt]
        ok == HoldsLease(r, epoch, token[i])
    IN  /\ alive /\ disp[i] = "claimed"
        /\ Step(i, IF ok THEN Acked(r) ELSE r, IF ok THEN "acked" ELSE "failed")
        /\ UNCHANGED <<artifact, queue, work, alive, epoch, attempt, node, token, slot, cache, cancelled>>

\* The job carries the claim's token; the worker claims nothing itself.
EnqueueInstance(i) ==
    /\ alive /\ disp[i] = "acked" /\ ~cancelled
    /\ queue' = [queue EXCEPT ![[inst |-> i, attempt |-> attempt, gen |-> token[i]]].at = "pending"]
    /\ disp' = [disp EXCEPT ![i] = "waiting"]
    /\ UNCHANGED <<row, artifact, work, alive, epoch, attempt, node, token, slot, cache, cancelled>>

(* A cancelled run sends no more work, and a full or closed queue takes    *)
(* none. Either way the attempt is settled as failed.                      *)
RefuseInstance(i) ==
    /\ alive /\ disp[i] = "acked"
    /\ Step(i, Settle(row[i][attempt], token[i], "failed"), "failed")
    /\ UNCHANGED <<artifact, queue, work, alive, epoch, attempt, node, token, slot, cache, cancelled>>

\* renewAttemptLease, which lives as long as the wait.
RenewInstance(i) ==
    /\ alive /\ disp[i] = "waiting"
    /\ HoldsLease(row[i][attempt], epoch, token[i])
    /\ row' = [row EXCEPT ![i][attempt] = Renewed(@, Now, 0)]
    /\ UNCHANGED <<artifact, queue, work, runnerVars, cancelled>>

\* Faulty variant: whatever ended the attempt, an artifact is its result.
HasResultAnyhow(i) == artifact[i] # None

HasResult(i) == row[i][attempt].status = "completed" /\ artifact[i] # None

(* checkAttempt: a completed row is answered with whatever artifact the    *)
(* instance has, a failed one with its error.                              *)
PollInstance(i) ==
    /\ alive /\ disp[i] = "waiting"
    /\ IsTerminalAttempt(row[i][attempt])
    /\ disp' = [disp EXCEPT ![i] = IF HasResult(i) THEN "got" ELSE "failed"]
    /\ slot' = [slot EXCEPT ![i] = IF HasResult(i) THEN artifact[i] ELSE None]
    /\ UNCHANGED <<row, artifact, queue, work, alive, epoch, attempt, node, token, cache, cancelled>>

\* Faulty variant: the wait has no deadline of its own.
GiveUpInstanceOnCancel(i) ==
    /\ alive /\ disp[i] = "waiting" /\ cancelled
    /\ Step(i, Settle(row[i][attempt], token[i], "failed"), "failed")
    /\ UNCHANGED <<artifact, queue, work, alive, epoch, attempt, node, token, slot, cache, cancelled>>

\* waitCtx ends: the deadline has passed, or the run is cancelled.
GiveUpInstance(i) ==
    /\ alive /\ disp[i] = "waiting"
    /\ Step(i, Settle(row[i][attempt], token[i], "failed"), "failed")
    /\ UNCHANGED <<artifact, queue, work, alive, epoch, attempt, node, token, slot, cache, cancelled>>

\* rememberExpansionInstance, once every goroutine is done.
Remembered == [i \in Items |-> IF slot[i] # None THEN slot[i] ELSE cache[i]]

(* runCodeExpansion's first pass in a later attempt: an item that          *)
(* succeeded before is not dispatched again; it gets a row that is         *)
(* completed from the start.                                               *)
ReusedRow(r) == IF r.status = "absent" THEN [r EXCEPT !.status = "completed"] ELSE r

EndAttempt ==
    /\ alive /\ node = "running"
    /\ \A i \in Items : disp[i] \in {"got", "failed"}
    /\ cache' = Remembered

\* runCodeExpansion returns its combined output, and executeNode takes it.
NodeSucceeds ==
    /\ EndAttempt
    /\ \A i \in Items : disp[i] = "got"
    /\ node' = "success"
    /\ UNCHANGED <<row, artifact, queue, work, alive, epoch, attempt, disp, token, slot, cancelled>>

(* executeNode retries: an item failed, or the node's own timeout passed   *)
(* and the handler came back within the grace period.                      *)
NodeRetries ==
    /\ EndAttempt
    /\ attempt < MaxAttempt /\ ~cancelled
    /\ attempt' = attempt + 1
    /\ disp' = [i \in Items |-> IF Remembered[i] # None THEN "got" ELSE "idle"]
    /\ slot' = Remembered
    /\ row' = [i \in Items |->
                  IF Remembered[i] # None THEN [row[i] EXCEPT ![attempt + 1] = ReusedRow(@)] ELSE row[i]]
    /\ UNCHANGED <<artifact, queue, work, alive, epoch, node, token, cancelled>>

\* The retries are used up, or the run is cancelled.
NodeFails ==
    /\ EndAttempt
    /\ attempt = MaxAttempt \/ cancelled
    /\ \E i \in Items : disp[i] = "failed"
    /\ node' = "failed"
    /\ UNCHANGED <<row, artifact, queue, work, alive, epoch, attempt, disp, token, slot, cancelled>>

(* The node's timeout and the grace period pass, or the run is cancelled,  *)
(* while items are out: executeNode fails the node and waits for none.     *)
NodeAbandoned ==
    /\ alive /\ node = "running"
    /\ \E i \in Items : disp[i] \notin {"got", "failed"}
    /\ node' = "failed"
    /\ UNCHANGED <<row, artifact, queue, work, alive, epoch, attempt, disp, token, slot, cache, cancelled>>
-----------------------------------------------------------------------------
(* The worker: ExecuteInstanceJob, on a delivery d. A worker that dies is   *)
(* a delivery that takes no further step.                                  *)

Held(d) == queue[d.job] = [at |-> "processing", n |-> d.n]

(* Ack and Fail settle or release a job that is still claimed by this      *)
(* delivery; for one that was handed on they are refused.                  *)
FinishDelivery(d, at) ==
    /\ work' = [work EXCEPT ![d] = "none"]
    /\ queue' = IF Held(d) THEN [queue EXCEPT ![d.job].at = at] ELSE queue

\* sqliteSettleAttempt reports success for a row that already has that status.
SettleAccepted(r, g, to) == CanSettle(r, g) \/ r.status = to

\* Bounds: how often a job is delivered.
MayDeliver(j) ==
    /\ queue[j].n < MaxDeliveries
    /\ queue[j].n = 0 \/ Cardinality({k \in Jobs \ {j} : queue[k].n > 1}) < MaxRepeats

\* The job a worker takes: a cancelled run's work order is not begun.
Deliver(j) ==
    LET d == [job |-> j, n |-> queue[j].n + 1]
    IN  /\ queue[j].at = "pending" /\ MayDeliver(j)
        /\ queue' = [queue EXCEPT ![j] = [at |-> "processing", n |-> d.n]]
        /\ work' = [work EXCEPT ![d] = IF cancelled THEN "cancelled" ELSE "running"]
        /\ UNCHANGED <<row, artifact, runnerVars, cancelled>>

\* The script fails, or the run is cancelled.
ExecFails(d) ==
    LET r == row[d.job.inst][d.job.attempt]
    IN  /\ work[d] \in {"running", "cancelled"}
        /\ row' = [row EXCEPT ![d.job.inst][d.job.attempt] = Settle(@, d.job.gen, "failed")]
        /\ FinishDelivery(d, IF SettleAccepted(r, d.job.gen, "failed") THEN "settled" ELSE "pending")
        /\ UNCHANGED <<artifact, runnerVars, cancelled>>

(* The result cannot be stored: the attempt is failed, and the job is too, *)
(* so that it is delivered again.                                          *)
StoreFails(d) ==
    /\ work[d] = "running"
    /\ row' = [row EXCEPT ![d.job.inst][d.job.attempt] = Settle(@, d.job.gen, "failed")]
    /\ FinishDelivery(d, "pending")
    /\ UNCHANGED <<artifact, runnerVars, cancelled>>

\* The WHERE clause of WriteArtifactFenced's upsert.
OwnsArtifact(have, j) ==
    \/ have.attempt < j.attempt
    \/ have.attempt = j.attempt /\ have.gen <= j.gen

(* The work is done and WriteArtifactFenced writes it. Nothing is settled  *)
(* by an order whose write is fenced off.                                  *)
WriteResult(d) ==
    LET have == artifact[d.job.inst]
    IN  /\ work[d] = "running"
        /\ IF OwnsArtifact(have, d.job)
           THEN /\ artifact' = [artifact EXCEPT ![d.job.inst] =
                                   [attempt |-> d.job.attempt, gen |-> d.job.gen]]
                /\ work' = [work EXCEPT ![d] = "wrote"]
                /\ UNCHANGED queue
           ELSE FinishDelivery(d, "settled") /\ UNCHANGED artifact
        /\ UNCHANGED <<row, runnerVars, cancelled>>

\* CompleteAttempt; if it is refused the job is failed, and so delivered again.
CompleteResult(d) ==
    LET r == row[d.job.inst][d.job.attempt]
    IN  /\ work[d] = "wrote"
        /\ row' = [row EXCEPT ![d.job.inst][d.job.attempt] = Settle(@, d.job.gen, "completed")]
        /\ FinishDelivery(d, IF SettleAccepted(r, d.job.gen, "completed") THEN "settled" ELSE "pending")
        /\ UNCHANGED <<artifact, runnerVars, cancelled>>

\* The transport takes a worker's silence for its death and offers the job again.
HandOn(j) ==
    /\ queue[j].at = "processing"
    /\ queue' = [queue EXCEPT ![j].at = "pending"]
    /\ UNCHANGED <<row, artifact, work, runnerVars, cancelled>>
-----------------------------------------------------------------------------
(* Time, users, crashes and recovery. *)

LeaseRunsOut(i, a) ==
    /\ row[i][a].status \in {"claimed", "started"} /\ LeaseLive(row[i][a])
    /\ row' = [row EXCEPT ![i][a].lease = 0]
    /\ UNCHANGED <<artifact, queue, work, runnerVars, cancelled>>

(* reconcileExecutionAttempts: nothing is touched while any lease of the   *)
(* run is live; the failing of a single row may itself fail.               *)
Reconcile ==
    /\ \A i \in Items, a \in Attempts : ~LeaseLive(row[i][a])
    /\ \E i \in Items, a \in Attempts :
          /\ LeaseExpired(row[i][a])
          /\ row' = [row EXCEPT ![i][a] = Settle(@, @.gen, "failed")]
    /\ UNCHANGED <<artifact, queue, work, runnerVars, cancelled>>

RequestCancel ==
    /\ MayCancel /\ ~cancelled
    /\ cancelled' = TRUE
    /\ UNCHANGED <<row, artifact, queue, work, runnerVars>>

\* What the Runner has in memory is lost; the next execution begins at attempt 0.
Crash ==
    /\ alive
    /\ alive' = FALSE /\ attempt' = 0
    /\ disp' = [i \in Items |-> "idle"]
    /\ token' = [i \in Items |-> 0]
    /\ slot' = [i \in Items |-> None]
    /\ cache' = [i \in Items |-> None]
    /\ UNCHANGED <<row, artifact, queue, work, epoch, node, cancelled>>

\* The run was re-queued, which recovery does only once no lease is live.
Restart ==
    /\ ~alive /\ node = "running" /\ epoch < MaxEpoch
    /\ \A i \in Items, a \in Attempts : ~LeaseLive(row[i][a])
    /\ alive' = TRUE /\ epoch' = epoch + 1
    /\ UNCHANGED <<row, artifact, queue, work, attempt, node, disp, token, slot, cache, cancelled>>
-----------------------------------------------------------------------------
Dispatch(i) ==
    \/ StartInstance(i) \/ AckInstance(i) \/ EnqueueInstance(i) \/ RefuseInstance(i)
    \/ PollInstance(i) \/ GiveUpInstance(i)
NodeEnds == NodeSucceeds \/ NodeRetries \/ NodeFails
Process(d) == ExecFails(d) \/ StoreFails(d) \/ WriteResult(d) \/ CompleteResult(d)

Next ==
    \/ \E i \in Items : Dispatch(i) \/ RenewInstance(i)
    \/ NodeEnds \/ NodeAbandoned
    \/ \E j \in Jobs : Deliver(j) \/ HandOn(j)
    \/ \E d \in Deliveries : Process(d)
    \/ \E i \in Items, a \in Attempts : LeaseRunsOut(i, a)
    \/ Reconcile \/ RequestCancel \/ Crash \/ Restart

Spec == Init /\ [][Next]_vars

(* The Runner goes on as long as its process lives: a wait has a deadline. *)
(* Nothing is assumed of workers, renewals, recovery, crashes or users.    *)
FairSpec ==
    /\ Spec
    /\ \A i \in Items : WF_vars(Dispatch(i))
    /\ WF_vars(NodeEnds)
-----------------------------------------------------------------------------
(* Properties *)

(* The result the Runner takes for an item was written under the token     *)
(* that completed the attempt it waited for. A late report of a superseded *)
(* attempt, or of an earlier execution of the run, never takes its place   *)
(* (WriteArtifactFenced).                                                  *)
ResultIsOfItsAttempt ==
    \A i \in Items :
        slot[i] # None => /\ row[i][slot[i].attempt].status = "completed"
                          /\ row[i][slot[i].attempt].gen = slot[i].gen

(* A completed attempt that was dispatched has its result on record: the   *)
(* poll never finds a row completed whose artifact cannot be read back     *)
(* (dispatchInstanceWorkOrderRemotely, "completed but its result could not *)
(* be read back"), nor one of an older attempt.                            *)
CompletedIsOnRecord ==
    \A i \in Items, a \in Attempts :
        (row[i][a].status = "completed" /\ row[i][a].gen > 0) =>
            \/ artifact[i].attempt > a
            \/ artifact[i].attempt = a /\ artifact[i].gen >= row[i][a].gen

(* The node ends, whatever happens to its workers and their jobs, unless   *)
(* its process dies: a job that is lost with its worker is waited for no   *)
(* longer than the deadline (remoteInstanceDispatchMargin).                *)
ExpansionEnds == []<>~(alive /\ node = "running")
-----------------------------------------------------------------------------
(* Stated by the code, and refuted by TLC. *)

(* A job whose attempt is settled is not delivered for ever: "callers must *)
(* Ack jobs whose execution reached a durably terminal run state"          *)
(* (extensions/interfaces.go:373). The worker reports the refused          *)
(* CompleteAttempt of a late result as a failure of the job.               *)
LateJobIsDropped ==
    \A d \in Deliveries :
        (d.n > 1 /\ work[d] = "running") =>
            ~IsTerminalAttempt(row[d.job.inst][d.job.attempt])

(* "items that already succeeded on an earlier attempt of the SAME Runner  *)
(* are not re-executed" (engine/expansion.go:370). The wait's deadline     *)
(* passes after the worker has completed the row and before the poll.      *)
CompletedIsNotRepeated ==
    \A i \in Items :
        alive /\ disp[i] = "waiting" =>
            \A a \in 0..(attempt - 1) :
                ~(row[i][a].status = "completed" /\ row[i][a].claimedBy = epoch)
=============================================================================

---------------------------- MODULE RunLifecycle ----------------------------
(***************************************************************************)
(* One pipeline run, from acceptance to its terminal status, and everyone  *)
(* who writes its row: the queue deliveries and wakes that execute it      *)
(* (ExecuteQueuedRun, WakeParkedRun, runPipelineAsyncOpts, Runner.Execute),*)
(* the wait watchers of the scheduler (pollParkedWaits), and users'        *)
(* cancellations (CancelRun), in several engine processes over one store.  *)
(*                                                                         *)
(* An execution (Exec) is one goroutine that may come to own a Runner for  *)
(* the run. Waves of nodes are opaque here: a wave returns an outcome.     *)
(* What a process that dies leaves behind is taken up by CrashRecovery.    *)
(***************************************************************************)
EXTENDS RunStore, Naturals

CONSTANTS
    Procs,          \* engine processes
    Execs,          \* goroutines that may execute the run
    ProcOf,         \* the process of each
    Watchers,       \* processes whose wait watcher believes it is the leader
    Cancels,        \* CancelRun calls
    NoExec,         \* no entry in Engine.active
    StoreErrors,    \* whether the watcher's and the wake's first GetRun may fail
    MaxCrashes      \* bound on process deaths

ASSUME RunAssumption ==
    /\ ProcOf \in [Execs -> Procs]
    /\ Watchers \subseteq Procs
    /\ NoExec \notin Execs
    /\ StoreErrors \in BOOLEAN
    /\ MaxCrashes \in Nat

VARIABLES
    status,     \* runs.status
    cancelReq,  \* runs.cancel_requested
    park,       \* the parked_waits row: "none", "live", or "expired" once past its deadline
    job,        \* the queue: "none", "creating" until published, "queued"
    active,     \* process -> Engine.active[runID]
    epc,        \* Exec -> where it is
    want,       \* Exec -> how its last wave ended, then the status it is about to write
    ctx,        \* Exec -> Runner.Cancel was called
    wpc,        \* watcher -> where it is in pollParkedWaits
    wexp,       \* watcher -> the park row it listed is past its deadline
    cpc,        \* CancelRun call -> where it is
    cproc,      \* CancelRun call -> the process it is in
    crashes,    \* deaths so far
    ran,        \* history: Execs that started a node
    preCancel,  \* history: Execs whose Runner was cancelled before Execute
    pendingCancelled    \* history: CancelPendingRun took effect

row == <<status, cancelReq, park, job>>
exec == <<active, epc, want, ctx>>
watch == <<wpc, wexp>>
cancel == <<cpc, cproc>>
history == <<ran, preCancel, pendingCancelled>>
vars == <<row, exec, watch, cancel, crashes, history>>

ExecPC == {"idle", "starting", "accepted", "claim", "claimed", "wake", "woken", "slot",
           "wave", "nodes", "exit", "parking", "write", "leaving", "done", "dead"}
CancelPC == {"idle", "lookup", "second", "overwrite", "get", "casPending",
             "casWaiting", "dropPark", "again", "lookupAgain", "relay", "relayed", "done"}

\* From the moment the run is this Exec's to the moment its result is written.
Owns(x) == epc[x] \in {"claimed", "woken", "slot", "wave", "nodes", "exit", "parking", "write"}

\* Goroutines that a process has at the moment.
Alive(x) == epc[x] \notin {"idle", "done", "dead"}

Init ==
    /\ status = "absent" /\ cancelReq = FALSE /\ park = "none" /\ job = "none"
    /\ active = [p \in Procs |-> NoExec]
    /\ epc = [x \in Execs |-> "idle"]
    /\ want = [x \in Execs |-> "none"]
    /\ ctx = [x \in Execs |-> FALSE]
    /\ wpc = [w \in Watchers |-> "idle"]
    /\ wexp = [w \in Watchers |-> FALSE]
    /\ cpc = [c \in Cancels |-> "idle"]
    /\ cproc \in [Cancels -> Procs]
    /\ crashes = 0
    /\ ran = {} /\ preCancel = {} /\ pendingCancelled = FALSE

At(x, from, to) == epc[x] = from /\ epc' = [epc EXCEPT ![x] = to]

-----------------------------------------------------------------------------
(* Acceptance: runPipelineAsyncOpts.                                       *)

\* With a JobQueue: the pending row and its created event, in one transaction.
Accept ==
    /\ status = "absent" /\ job = "none"
    /\ \A x \in Execs : epc[x] = "idle"
    /\ status' = "pending"
    /\ job' = "creating"
    /\ UNCHANGED <<cancelReq, park, exec, watch, cancel, crashes, history>>

\* Enqueue: the job may be delivered from here on.
Publish ==
    /\ job = "creating"
    /\ job' = "queued"
    /\ UNCHANGED <<status, cancelReq, park, exec, watch, cancel, crashes, history>>

(* Enqueue returns an error: the run is recorded failed, whatever became   *)
(* of it since.                                                            *)
PublishFails ==
    /\ job = "creating"
    /\ job' = "none"
    /\ status' = "failed"
    /\ UNCHANGED <<cancelReq, park, exec, watch, cancel, crashes, history>>

\* Without one: the Runner registers and queues for a slot, then creates the row.
StartLocal(x) ==
    /\ status = "absent" /\ job = "none"
    /\ \A y \in Execs : epc[y] = "idle"
    /\ At(x, "idle", "starting")
    /\ active' = [active EXCEPT ![ProcOf[x]] = x]
    /\ UNCHANGED <<row, want, ctx, watch, cancel, crashes, history>>

CreateLocal(x) ==
    /\ At(x, "starting", "wave")
    /\ status' = "running"
    /\ UNCHANGED <<cancelReq, park, job, active, want, ctx, watch, cancel, crashes, history>>

-----------------------------------------------------------------------------
(* ExecuteQueuedRun. The queue delivers a job at least once.               *)

\* The first GetRun; a run that is not pending is not executed.
Deliver(x) ==
    /\ job = "queued"
    /\ IF status = "pending" THEN At(x, "idle", "accepted") ELSE At(x, "idle", "done")
    /\ UNCHANGED <<row, active, want, ctx, watch, cancel, crashes, history>>

\* The pipeline is gone, a draft, or no longer valid: failAcceptedRun.
FailAccepted(x) ==
    /\ At(x, "accepted", "done")
    /\ status' = "failed"
    /\ UNCHANGED <<cancelReq, park, job, active, want, ctx, watch, cancel, crashes, history>>

Validated(x) ==
    /\ At(x, "accepted", "claim")
    /\ UNCHANGED <<row, active, want, ctx, watch, cancel, crashes, history>>

ClaimPending(x) ==
    /\ epc[x] = "claim"
    /\ IF CanClaimPending(status)
       THEN At(x, "claim", "claimed") /\ status' = "running"
       ELSE At(x, "claim", "done") /\ UNCHANGED status
    /\ UNCHANGED <<cancelReq, park, job, active, want, ctx, watch, cancel, crashes, history>>

-----------------------------------------------------------------------------
(* WakeParkedRun, in the goroutine the watcher started.                    *)

ClaimWaiting(x) ==
    /\ epc[x] = "wake"
    /\ IF CanClaimWaiting(status)
       THEN At(x, "wake", "woken") /\ status' = "running"
       ELSE At(x, "wake", "done") /\ UNCHANGED status
    /\ UNCHANGED <<cancelReq, park, job, active, want, ctx, watch, cancel, crashes, history>>

\* The engine is closing, or GetRun fails, and the park row is already deleted.
WakeRefused(x) ==
    /\ StoreErrors
    /\ At(x, "wake", "done")
    /\ UNCHANGED <<row, active, want, ctx, watch, cancel, crashes, history>>

\* The pipeline or a reusable outcome cannot be read: the run stays running, unowned.
WakeAborts(x) ==
    /\ At(x, "woken", "done")
    /\ UNCHANGED <<row, active, want, ctx, watch, cancel, crashes, history>>

-----------------------------------------------------------------------------
(* From the claim to the end of Runner.Execute.                            *)

\* e.active[runID] = runner, before the wait for a concurrency slot.
Register(x) ==
    /\ \E from \in {"claimed", "woken"} : At(x, from, "slot")
    /\ active' = [active EXCEPT ![ProcOf[x]] = x]
    /\ UNCHANGED <<row, want, ctx, watch, cancel, crashes, history>>

\* Faulty variant: Execute's fresh context forgets the earlier Cancel.
BeginExecuteAfresh(x) ==
    /\ At(x, "slot", "wave")
    /\ ctx' = [ctx EXCEPT ![x] = FALSE]
    /\ UNCHANGED <<row, active, want, watch, cancel, crashes, history>>

\* The slot, and the head of Execute: a Cancel that came before is not forgotten.
BeginExecute(x) ==
    /\ At(x, "slot", "wave")
    /\ UNCHANGED <<row, active, want, ctx, watch, cancel, crashes, history>>

\* Faulty variant: the durable flag is not read.
CancelNeverRequested == FALSE

\* Runner.cancelRequested
CancelRequested == cancelReq

(* The head of the wave loop: the durable cancel intent, then the context. *)
WaveCheck(x) ==
    /\ ctx' = [ctx EXCEPT ![x] = @ \/ CancelRequested]
    /\ IF ctx'[x]
       THEN /\ At(x, "wave", "exit")
            /\ want' = [want EXCEPT ![x] = "cancelled"]
            /\ UNCHANGED ran
       ELSE /\ At(x, "wave", "nodes")
            /\ ran' = ran \cup {x}
            /\ UNCHANGED want
    /\ UNCHANGED <<row, active, watch, cancel, crashes, preCancel, pendingCancelled>>

\* startCancelIntentWatcher's tick, while Execute runs.
IntentTick(x) ==
    /\ epc[x] \in {"wave", "nodes", "exit", "parking", "write"}
    /\ CancelRequested /\ ~ctx[x]
    /\ ctx' = [ctx EXCEPT ![x] = TRUE]
    /\ UNCHANGED <<row, active, epc, want, watch, cancel, crashes, history>>

(* The nodes of a wave have all returned: more waves to go, all nodes      *)
(* done, a node failed, or a wait node parked the run.                     *)
MoreWaves(x) ==
    /\ At(x, "nodes", "wave")
    /\ UNCHANGED <<row, active, want, ctx, watch, cancel, crashes, history>>

WaveEnds(x, o) ==
    /\ At(x, "nodes", IF o = "waiting" THEN "parking" ELSE "exit")
    /\ want' = [want EXCEPT ![x] = o]
    /\ UNCHANGED <<row, active, ctx, watch, cancel, crashes, history>>

\* The last context check before the result is written: cancellation wins.
ExitCheck(x) ==
    /\ At(x, "exit", "write")
    /\ want' = [want EXCEPT ![x] = IF ctx[x] THEN "cancelled" ELSE @]
    /\ UNCHANGED <<row, active, ctx, watch, cancel, crashes, history>>

\* Faulty variant: the run is already waiting when its park row is written.
CreateParkedWaitLast(x) ==
    /\ At(x, "parking", "write")
    /\ park' = "live" /\ status' = "waiting"
    /\ UNCHANGED <<cancelReq, job, active, want, ctx, watch, cancel, crashes, history>>

(* parkRun's CreateParkedWait, an INSERT keyed by the run: a left-over row *)
(* makes it fail, and the run is failed instead (failRun). parkRun does    *)
(* not look at the context.                                                *)
CreateParkedWait(x) ==
    /\ IF park = "none"
       THEN At(x, "parking", "write") /\ park' = "live" /\ UNCHANGED want
       ELSE /\ At(x, "parking", "exit")
            /\ want' = [want EXCEPT ![x] = "failed"]
            /\ UNCHANGED park
    /\ UNCHANGED <<status, cancelReq, job, active, ctx, watch, cancel, crashes, history>>

\* UpdateRun with the result (success, failed, cancelled or waiting), and its event.
WriteResult(x) ==
    /\ At(x, "write", "leaving")
    /\ status' = want[x]
    /\ UNCHANGED <<cancelReq, park, job, active, want, ctx, watch, cancel, crashes, history>>

(* delete(e.active, runID), deferred to the end of the goroutine: it       *)
(* removes the entry whoever put it there.                                 *)
Unregister(x) ==
    /\ At(x, "leaving", "done")
    /\ active' = [active EXCEPT ![ProcOf[x]] = NoExec]
    /\ UNCHANGED <<row, want, ctx, watch, cancel, crashes, history>>

-----------------------------------------------------------------------------
(* The wait watcher: pollParkedWaits and TimeoutParkedRun.                 *)

\* The deadline of the parked wait passes.
Expire ==
    /\ park = "live"
    /\ park' = "expired"
    /\ UNCHANGED <<status, cancelReq, job, exec, watch, cancel, crashes, history>>

WatcherAt(w, from, to) == wpc[w] = from /\ wpc' = [wpc EXCEPT ![w] = to]

ListDue(w) ==
    /\ park # "none"
    /\ WatcherAt(w, "idle", "listed")
    /\ wexp' = [wexp EXCEPT ![w] = park = "expired"]
    /\ UNCHANGED <<row, exec, cancel, crashes, history>>

\* GetRun: a run that is not waiting has a stale park; the deadline is tested next.
LookAtRun(w) ==
    /\ WatcherAt(w, "listed", IF status # "waiting" THEN "stale"
                              ELSE IF wexp[w] THEN "timeout" ELSE "evaluate")
    /\ UNCHANGED <<row, exec, wexp, cancel, crashes, history>>

\* GetRun returns an error, which is treated like a run that is not waiting.
LookFails(w) ==
    /\ StoreErrors
    /\ WatcherAt(w, "listed", "stale")
    /\ UNCHANGED <<row, exec, wexp, cancel, crashes, history>>

DeleteStale(w) ==
    /\ WatcherAt(w, "stale", "idle")
    /\ park' = "none"
    /\ UNCHANGED <<status, cancelReq, job, exec, wexp, cancel, crashes, history>>

\* The condition does not hold yet: BumpParkedWait puts the next poll off.
NotMet(w) ==
    /\ WatcherAt(w, "evaluate", "idle")
    /\ UNCHANGED <<row, exec, wexp, cancel, crashes, history>>

\* It holds: whoever deletes the row starts the wake.
WakeMet(w, x) ==
    /\ WatcherAt(w, "evaluate", "idle")
    /\ park # "none"
    /\ park' = "none"
    /\ ProcOf[x] = w
    /\ At(x, "idle", "wake")
    /\ UNCHANGED <<status, cancelReq, job, active, want, ctx, wexp, cancel, crashes, history>>

WakeTaken(w) ==
    /\ WatcherAt(w, "evaluate", "idle")
    /\ park = "none"
    /\ UNCHANGED <<row, exec, wexp, cancel, crashes, history>>

\* FailWaitingRun, then DeleteParkedWait whether or not it took effect.
TimeoutRun(w) ==
    /\ WatcherAt(w, "timeout", "stale")
    /\ status' = IF CanFailWaiting(status) THEN "failed" ELSE status
    /\ UNCHANGED <<cancelReq, park, job, exec, wexp, cancel, crashes, history>>

-----------------------------------------------------------------------------
(* CancelRun.                                                              *)

CancelAt(c, from, to) == cpc[c] = from /\ cpc' = [cpc EXCEPT ![c] = to]

\* RequestRunCancel, first of all.
RequestCancel(c) ==
    /\ \/ CancelAt(c, "idle", "lookup")
       \/ CancelAt(c, "again", "lookupAgain")
    /\ cancelReq' = (cancelReq \/ CanRequestCancel(status))
    /\ UNCHANGED <<status, park, job, exec, watch, cproc, crashes, history>>

(* cancelLocalRun finds no Runner, or one whose run has parked or finished *)
(* (the Runner stays registered for a moment after its result).            *)
NotLocal(c) ==
    /\ active[cproc[c]] = NoExec \/ status = "waiting" \/ IsTerminalRun(status)
    /\ \/ CancelAt(c, "lookup", "get")
       \/ CancelAt(c, "lookupAgain", "relay")
       \/ CancelAt(c, "relayed", "done")
    /\ UNCHANGED <<row, exec, watch, cproc, crashes, history>>

\* It finds one: runner.Cancel().
CancelRunner(c) ==
    LET x == active[cproc[c]] IN
    /\ x # NoExec /\ status # "waiting" /\ ~IsTerminalRun(status)
    /\ \E from \in {"lookup", "lookupAgain", "relayed"} : CancelAt(c, from, "second")
    /\ ctx' = [ctx EXCEPT ![x] = TRUE]
    /\ preCancel' = IF epc[x] \in {"starting", "slot"} THEN preCancel \cup {x} ELSE preCancel
    /\ UNCHANGED <<row, active, epc, want, watch, cproc, crashes, ran, pendingCancelled>>

\* The second GetRun: a run still running is overwritten as cancelled.
LookAgain(c) ==
    /\ CancelAt(c, "second", IF status = "running" THEN "overwrite" ELSE "done")
    /\ UNCHANGED <<row, exec, watch, cproc, crashes, history>>

OverwriteCancelled(c) ==
    /\ CancelAt(c, "overwrite", "done")
    /\ status' = "cancelled"
    /\ UNCHANGED <<cancelReq, park, job, exec, watch, cproc, crashes, history>>

\* No local Runner: the row decides which of the store-side cases applies.
GetForCancel(c) ==
    /\ CancelAt(c, "get", CASE status = "pending" -> "casPending"
                            [] status = "waiting" -> "casWaiting"
                            [] status = "running" -> "relay"
                            [] OTHER -> "done")
    /\ UNCHANGED <<row, exec, watch, cproc, crashes, history>>

CancelPending(c) ==
    /\ IF CanCancelPending(status)
       THEN CancelAt(c, "casPending", "done") /\ status' = "cancelled" /\ pendingCancelled' = TRUE
       ELSE CancelAt(c, "casPending", "relay") /\ UNCHANGED <<status, pendingCancelled>>
    /\ UNCHANGED <<cancelReq, park, job, exec, watch, cproc, crashes, ran, preCancel>>

CancelWaiting(c) ==
    /\ IF CanCancelWaiting(status)
       THEN CancelAt(c, "casWaiting", "dropPark") /\ status' = "cancelled"
       ELSE CancelAt(c, "casWaiting", "again") /\ UNCHANGED status
    /\ UNCHANGED <<cancelReq, park, job, exec, watch, cproc, crashes, history>>

DropPark(c) ==
    /\ CancelAt(c, "dropPark", "done")
    /\ park' = "none"
    /\ UNCHANGED <<status, cancelReq, job, exec, watch, cproc, crashes, history>>

(* The run executes elsewhere. BroadcastCancel reaches the other process   *)
(* (CancelRelayedRun) or is lost; without a broadcaster the durable intent *)
(* is all there is.                                                        *)
Relay(c, p) ==
    /\ CancelAt(c, "relay", "relayed")
    /\ cproc' = [cproc EXCEPT ![c] = p]
    /\ UNCHANGED <<row, exec, watch, crashes, history>>

RelayLost(c) ==
    /\ CancelAt(c, "relay", "done")
    /\ UNCHANGED <<row, exec, watch, cproc, crashes, history>>

-----------------------------------------------------------------------------
\* A process dies: its goroutines, its active map, its watcher and its CancelRun calls.
Crash(p) ==
    /\ crashes < MaxCrashes
    /\ crashes' = crashes + 1
    /\ epc' = [x \in Execs |-> IF ProcOf[x] = p /\ Alive(x) THEN "dead" ELSE epc[x]]
    /\ active' = [active EXCEPT ![p] = NoExec]
    /\ wpc' = [w \in Watchers |-> IF w = p THEN "idle" ELSE wpc[w]]
    /\ cpc' = [c \in Cancels |-> IF cproc[c] = p /\ cpc[c] # "idle" THEN "done" ELSE cpc[c]]
    /\ UNCHANGED <<row, want, ctx, wexp, cproc, history>>

Outcomes == {"success", "failed", "waiting"}

ExecStep(x) ==
    \/ CreateLocal(x) \/ FailAccepted(x) \/ Validated(x) \/ ClaimPending(x)
    \/ ClaimWaiting(x) \/ WakeRefused(x) \/ WakeAborts(x)
    \/ Register(x) \/ BeginExecute(x) \/ WaveCheck(x)
    \/ MoreWaves(x) \/ \E o \in Outcomes : WaveEnds(x, o)
    \/ ExitCheck(x) \/ CreateParkedWait(x) \/ WriteResult(x) \/ Unregister(x)

WatcherStep(w) ==
    \/ ListDue(w) \/ LookAtRun(w) \/ LookFails(w) \/ DeleteStale(w) \/ NotMet(w)
    \/ \E x \in Execs : WakeMet(w, x)
    \/ WakeTaken(w) \/ TimeoutRun(w)

CancelStep(c) ==
    \/ RequestCancel(c) \/ NotLocal(c) \/ CancelRunner(c) \/ LookAgain(c) \/ OverwriteCancelled(c)
    \/ GetForCancel(c) \/ CancelPending(c) \/ CancelWaiting(c) \/ DropPark(c)
    \/ \E p \in Procs : Relay(c, p)
    \/ RelayLost(c)

Next ==
    \/ Accept \/ Publish \/ PublishFails \/ Expire
    \/ \E x \in Execs : StartLocal(x) \/ Deliver(x) \/ ExecStep(x) \/ IntentTick(x)
    \/ \E w \in Watchers : WatcherStep(w)
    \/ \E c \in Cancels : CancelStep(c)
    \/ \E p \in Procs : Crash(p)

Spec == Init /\ [][Next]_vars

(* A goroutine that can go on does: nodes return (each attempt has a       *)
(* timeout) and a concurrency slot is freed when another run ends.         *)
FairSpec == Spec /\ \A x \in Execs : WF_vars(ExecStep(x))

(* Everybody goes on: the queue too delivers what was published, watchers  *)
(* keep polling and a CancelRun call runs to its end.                      *)
FairEverywhere ==
    /\ FairSpec
    /\ WF_vars(Publish \/ PublishFails)
    /\ \A x \in Execs : WF_vars(Deliver(x)) /\ WF_vars(IntentTick(x))
    /\ \A w \in Watchers : WF_vars(WatcherStep(w))
    /\ \A c \in Cancels : WF_vars(CancelStep(c))

-----------------------------------------------------------------------------
(* Properties                                                              *)

TypeOK ==
    /\ status \in RunStatus
    /\ cancelReq \in BOOLEAN
    /\ park \in {"none", "live", "expired"}
    /\ job \in {"none", "creating", "queued"}
    /\ active \in [Procs -> Execs \cup {NoExec}]
    /\ epc \in [Execs -> ExecPC]
    /\ want \in [Execs -> {"none", "waiting"} \cup TerminalRun]
    /\ ctx \in [Execs -> BOOLEAN]
    /\ wpc \in [Watchers -> {"idle", "listed", "stale", "evaluate", "timeout"}]
    /\ wexp \in [Watchers -> BOOLEAN]
    /\ cpc \in [Cancels -> CancelPC]
    /\ cproc \in [Cancels -> Procs]
    /\ crashes \in Nat
    /\ ran \subseteq Execs
    /\ preCancel \subseteq Execs
    /\ pendingCancelled \in BOOLEAN

(* At most one goroutine, in any process, executes the run: duplicate      *)
(* deliveries, several watchers and wakes during a park all lose the       *)
(* conditional claims to one of them, whatever the blind writes do.        *)
OneExecutor == \A x, y \in Execs : Owns(x) /\ Owns(y) => x = y

(* A run that is on the queue or parked is nobody's: a Runner hands the    *)
(* run over (parkRun's UpdateRun) only as the last thing it does to it.    *)
ClaimableIsUnowned == status \in {"pending", "waiting"} => \A x \in Execs : ~Owns(x)

(* "A worker can never execute a run this path cancelled": a run that      *)
(* CancelPendingRun cancelled on the queue never runs a node, even if a    *)
(* delivery had read it as pending before.                                 *)
CancelledPendingNeverRuns == pendingCancelled => ran = {}

(* A cancellation that reaches the Runner while it waits for its slot, or  *)
(* before its row exists, is not forgotten: none of its nodes runs.        *)
PreCancelledRunsNothing == preCancel \cap ran = {}

(* The durable intent is enough: once cancel_requested is set, the Runner  *)
(* executing the run stops, even if no message or local cancel reaches it  *)
(* and its pipeline would go on for ever.                                  *)
IntentStopsRunner == \A x \in Execs : []<>~(cancelReq /\ Owns(x))

-----------------------------------------------------------------------------
(* Stated by the code or its comments, and refuted by TLC: see the section *)
(* on divergences in README.md.                                            *)

(* "Both record cancelled, whichever lands last": a run recorded as        *)
(* cancelled stays cancelled.                                              *)
CancelledStays == [][status = "cancelled" => status' = "cancelled"]_vars

(* "A cancel that gets this far always converges to cancelled."            *)
CancelConverges == cancelReq ~> status = "cancelled"

(* A run is not stranded "in waiting with nothing to wake it": it has its  *)
(* park row, or a wake that has deleted the row and is about to claim it.  *)
WaitingHasWaker == status = "waiting" => park # "none" \/ \E x \in Execs : epc[x] = "wake"
=============================================================================

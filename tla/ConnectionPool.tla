---------------------------- MODULE ConnectionPool ----------------------------
(***************************************************************************)
(* A connection's concurrency budget (src/engine/connection_pool.go) and   *)
(* the attempts of the nodes that draw from it (executeNode in             *)
(* src/engine/runner.go): the wait for a slot, the goroutine that runs the *)
(* handler and gives the slot back, the attempt's timeout and the grace    *)
(* period after it, the retry.                                             *)
(*                                                                         *)
(* One pool, and nodes of different runs. Left out: a pool that names no   *)
(* connection (the node fails at once), and a broadcast of AfterFunc that  *)
(* comes after its acquire has returned, which wakes sleepers for nothing. *)
(***************************************************************************)
EXTENDS Naturals, FiniteSets

CONSTANTS
    Nodes,          \* the node executions that share the connection
    Limits,         \* the values an operator gives max_concurrent
    MaxRetries      \* the nodes' max_retries

VARIABLES
    limit,      \* Connection.MaxConcurrent; 0 is no limit
    highest,    \* history: the highest limit there has been
    inUse,      \* connectionPools.inUse
    pc,         \* where executeNode is
    attempt,    \* its attempt
    lim,        \* the limit its Acquire was given; 0 outside Acquire
    expired,    \* whether the attempt's own deadline has passed
    cancelled,  \* whether the run's context is done
    alarm,      \* whether Acquire's context.AfterFunc is armed
    handler,    \* the handler goroutine of each attempt: what it sent, if anything
    slot        \* whether that goroutine holds a slot

nodeVars == <<pc, attempt, lim, expired, alarm>>
vars == <<limit, highest, inUse, nodeVars, cancelled, handler, slot>>

Attempts == 0..MaxRetries
Waiting == {"enter", "logging", "recheck", "asleep"}
Done == {"success", "failed"}
Held == {x \in Nodes \X Attempts : slot[x[1]][x[2]]}
Running(n) == {a \in Attempts : handler[n][a] = "running"}

TypeOK ==
    /\ limit \in Limits /\ highest \in Limits
    /\ inUse \in 0..(Cardinality(Nodes) * (MaxRetries + 1))
    /\ pc \in [Nodes -> Waiting \cup Done \cup {"begin", "select", "grace", "backoff"}]
    /\ attempt \in [Nodes -> Attempts]
    /\ lim \in [Nodes -> Limits \cup {0}]
    /\ \A b \in {expired, cancelled, alarm} : b \in [Nodes -> BOOLEAN]
    /\ handler \in [Nodes -> [Attempts -> {"none", "running", "ok", "error"}]]
    /\ slot \in [Nodes -> [Attempts -> BOOLEAN]]

Init ==
    /\ limit \in Limits /\ highest = limit
    /\ inUse = 0
    /\ pc = [n \in Nodes |-> "begin"]
    /\ attempt = [n \in Nodes |-> 0]
    /\ lim = [n \in Nodes |-> 0]
    /\ expired = [n \in Nodes |-> FALSE]
    /\ cancelled = [n \in Nodes |-> FALSE]
    /\ alarm = [n \in Nodes |-> FALSE]
    /\ handler = [n \in Nodes |-> [a \in Attempts |-> "none"]]
    /\ slot = [n \in Nodes |-> [a \in Attempts |-> FALSE]]
-----------------------------------------------------------------------------
(* The pool *)

At(n, where) == pc' = [pc EXCEPT ![n] = where]

\* c.Broadcast: whoever is in c.Wait competes for the lock again.
Broadcast == [n \in Nodes |-> IF pc[n] = "asleep" THEN "recheck" ELSE pc[n]]

\* The attempt starts its handler, with or without a slot.
StartHandler(n, withSlot) ==
    /\ handler' = [handler EXCEPT ![n][attempt[n]] = "running"]
    /\ slot' = [slot EXCEPT ![n][attempt[n]] = withSlot]
    /\ At(n, "select")

(* acquireConnectionSlot reads the connection's budget once; no budget, no *)
(* slot. The attempt's deadline is running already.                        *)
Lookup(n) ==
    /\ pc[n] = "begin"
    /\ lim' = [lim EXCEPT ![n] = limit]
    /\ alarm' = [alarm EXCEPT ![n] = limit > 0]
    /\ IF limit = 0
       THEN StartHandler(n, FALSE)
       ELSE At(n, "enter") /\ UNCHANGED <<handler, slot>>
    /\ UNCHANGED <<limit, highest, inUse, attempt, expired, cancelled>>

\* Acquire returns, and stops its AfterFunc.
Returns(n) == alarm' = [alarm EXCEPT ![n] = FALSE] /\ lim' = [lim EXCEPT ![n] = 0]

\* Acquire finds a slot free.
TakeSlot(n) ==
    /\ pc[n] \in {"enter", "recheck"}
    /\ inUse < lim[n]
    /\ inUse' = inUse + 1
    /\ Returns(n)
    /\ StartHandler(n, TRUE)
    /\ UNCHANGED <<limit, highest, attempt, expired, cancelled>>

\* Acquire finds none and its context done: the node fails, with no retry.
AbandonWait(n) ==
    /\ pc[n] \in {"enter", "recheck"}
    /\ inUse >= lim[n] /\ cancelled[n]
    /\ Returns(n)
    /\ At(n, "failed")
    /\ UNCHANGED <<limit, highest, inUse, attempt, expired, cancelled, handler, slot>>

\* The first time it logs the wait, outside the lock; then it sleeps.
WaitForSlot(n) ==
    /\ pc[n] \in {"enter", "recheck"}
    /\ inUse >= lim[n] /\ ~cancelled[n]
    /\ At(n, IF pc[n] = "enter" THEN "logging" ELSE "asleep")
    /\ UNCHANGED <<limit, highest, inUse, attempt, lim, expired, cancelled, alarm, handler, slot>>

\* onWait returns, and the loop looks again before it sleeps.
Logged(n) ==
    /\ pc[n] = "logging"
    /\ At(n, "recheck")
    /\ UNCHANGED <<limit, highest, inUse, attempt, lim, expired, cancelled, alarm, handler, slot>>

\* The AfterFunc of Acquire.
AlarmRings(n) ==
    /\ alarm[n] /\ cancelled[n]
    /\ alarm' = [alarm EXCEPT ![n] = FALSE]
    /\ pc' = Broadcast
    /\ UNCHANGED <<limit, highest, inUse, attempt, lim, expired, cancelled, handler, slot>>

\* Faulty variant: a slot comes back without a broadcast.
ReleaseQuietly(n, a) ==
    /\ slot[n][a] /\ handler[n][a] \in {"ok", "error"}
    /\ slot' = [slot EXCEPT ![n][a] = FALSE]
    /\ inUse' = inUse - 1
    /\ UNCHANGED <<pc, limit, highest, attempt, lim, expired, cancelled, alarm, handler>>

(* Release, deferred by the handler's goroutine: it comes after the result *)
(* was sent, when the next attempt may already be waiting.                 *)
Release(n, a) ==
    /\ slot[n][a] /\ handler[n][a] \in {"ok", "error"}
    /\ slot' = [slot EXCEPT ![n][a] = FALSE]
    /\ inUse' = IF inUse > 0 THEN inUse - 1 ELSE 0
    /\ pc' = Broadcast
    /\ UNCHANGED <<limit, highest, attempt, lim, expired, cancelled, alarm, handler>>
-----------------------------------------------------------------------------
(* The attempt *)

\* The handler ends, by itself or because it watches its context, and sends its result.
HandlerReturns(n, a) ==
    /\ handler[n][a] = "running"
    /\ \E out \in {"ok", "error"} : handler' = [handler EXCEPT ![n][a] = out]
    /\ UNCHANGED <<limit, highest, inUse, nodeVars, cancelled, slot>>

(* An attempt failed: the backoff before the next one, if there is one and *)
(* the run is not cancelled (the delay is at least a millisecond, and      *)
(* ctx.Done is ready).                                                     *)
AfterFailure(n) == IF attempt[n] < MaxRetries /\ ~cancelled[n] THEN "backoff" ELSE "failed"

TakeResult(n) ==
    /\ pc[n] = "select"
    /\ handler[n][attempt[n]] \in {"ok", "error"}
    /\ At(n, IF handler[n][attempt[n]] = "ok" THEN "success" ELSE AfterFailure(n))
    /\ UNCHANGED <<limit, highest, inUse, attempt, lim, expired, cancelled, alarm, handler, slot>>

\* Faulty variant: a timed-out attempt is retried beside its handler.
TimeoutRetries(n) ==
    /\ pc[n] = "select" /\ expired[n] /\ ~cancelled[n]
    /\ At(n, AfterFailure(n))
    /\ UNCHANGED <<limit, highest, inUse, attempt, lim, expired, cancelled, alarm, handler, slot>>

\* attemptCtx.Done, and not by a cancel: the handler is given time to stop.
Timeout(n) ==
    /\ pc[n] = "select" /\ expired[n] /\ ~cancelled[n]
    /\ At(n, "grace")
    /\ UNCHANGED <<limit, highest, inUse, attempt, lim, expired, cancelled, alarm, handler, slot>>

\* attemptCtx.Done by a cancel: ErrRunCancelled, whatever the handler still does.
Interrupted(n) ==
    /\ pc[n] = "select" /\ cancelled[n]
    /\ At(n, AfterFailure(n))
    /\ UNCHANGED <<limit, highest, inUse, attempt, lim, expired, cancelled, alarm, handler, slot>>

\* The handler stopped in time; what it sent is dropped, and the attempt has failed.
Stopped(n) ==
    /\ pc[n] = "grace"
    /\ handler[n][attempt[n]] \in {"ok", "error"}
    /\ At(n, AfterFailure(n))
    /\ UNCHANGED <<limit, highest, inUse, attempt, lim, expired, cancelled, alarm, handler, slot>>

\* Faulty variant: the slot of a handler that is given up comes back at once.
StillRunningReleases(n) ==
    /\ pc[n] = "grace"
    /\ inUse' = IF inUse > 0 THEN inUse - 1 ELSE 0
    /\ At(n, "failed")
    /\ UNCHANGED <<limit, highest, attempt, lim, expired, cancelled, alarm, handler, slot>>

\* It did not: stillRunning, and the node fails without a retry.
StillRunning(n) ==
    /\ pc[n] = "grace"
    /\ At(n, "failed")
    /\ UNCHANGED <<limit, highest, inUse, attempt, lim, expired, cancelled, alarm, handler, slot>>

\* The delay passes (it may do so just as the run is cancelled).
Retry(n) ==
    /\ pc[n] = "backoff"
    /\ attempt' = [attempt EXCEPT ![n] = @ + 1]
    /\ expired' = [expired EXCEPT ![n] = FALSE]
    /\ At(n, "begin")
    /\ UNCHANGED <<limit, highest, inUse, lim, cancelled, alarm, handler, slot>>

\* "cancelled during retry wait"
BackoffCancelled(n) ==
    /\ pc[n] = "backoff" /\ cancelled[n]
    /\ At(n, "failed")
    /\ UNCHANGED <<limit, highest, inUse, attempt, lim, expired, cancelled, alarm, handler, slot>>
-----------------------------------------------------------------------------
(* Time, operators and users *)

Expire(n) ==
    /\ pc[n] \in Waiting \cup {"begin", "select"} /\ ~expired[n]
    /\ expired' = [expired EXCEPT ![n] = TRUE]
    /\ UNCHANGED <<limit, highest, inUse, pc, attempt, lim, cancelled, alarm, handler, slot>>

EditLimit ==
    \E l \in Limits \ {limit} :
        /\ limit' = l
        /\ highest' = IF l > highest THEN l ELSE highest
        /\ UNCHANGED <<inUse, nodeVars, cancelled, handler, slot>>

Cancel(n) ==
    /\ ~cancelled[n] /\ pc[n] \notin Done
    /\ cancelled' = [cancelled EXCEPT ![n] = TRUE]
    /\ UNCHANGED <<limit, highest, inUse, nodeVars, handler, slot>>
-----------------------------------------------------------------------------
Acquire(n) == Lookup(n) \/ TakeSlot(n) \/ AbandonWait(n) \/ WaitForSlot(n) \/ Logged(n)
AttemptEnds(n) ==
    TakeResult(n) \/ Timeout(n) \/ Interrupted(n) \/ Stopped(n) \/ StillRunning(n)
Runner(n) == Acquire(n) \/ AttemptEnds(n) \/ Retry(n) \/ BackoffCancelled(n)

Next ==
    \/ \E n \in Nodes : Runner(n) \/ AlarmRings(n) \/ Expire(n) \/ Cancel(n)
    \/ \E n \in Nodes, a \in Attempts : HandlerReturns(n, a) \/ Release(n, a)
    \/ EditLimit

Spec == Init /\ [][Next]_vars

(* Goroutines run, timers fire, a deferred release is made. A handler may  *)
(* hang for ever: nothing is assumed of HandlerReturns.                    *)
Fairness ==
    /\ \A n \in Nodes : WF_vars(Runner(n)) /\ WF_vars(AlarmRings(n)) /\ WF_vars(Expire(n))
    /\ \A n \in Nodes, a \in Attempts : WF_vars(Release(n, a))

FairSpec == Spec /\ Fairness
-----------------------------------------------------------------------------
(* Properties *)

(* The count is the number of handlers that hold a slot, through timeouts, *)
(* retries, cancels and edits of the limit: no slot leaks and none is      *)
(* given back twice (Release, "must never take the run down over           *)
(* bookkeeping", hides an imbalance instead of reporting it). And no more  *)
(* slots are out than the highest limit there has been.                    *)
InUseIsHeld == inUse = Cardinality(Held) /\ inUse <= highest

(* "a retry alongside it could write twice": no two attempts of a node     *)
(* have their handlers running at once, and none is running after the node *)
(* has succeeded.                                                          *)
OneHandler ==
    \A n \in Nodes : Cardinality(Running(n)) <= (IF pc[n] = "success" THEN 0 ELSE 1)

(* A node ends, or it sleeps because its pool is full for good and nobody  *)
(* cancels it: no wakeup is lost between a check of the count and the      *)
(* sleep, between a release and the sleepers, or when a limit is edited    *)
(* under a waiter, and a cancel ends a wait for a slot that never comes    *)
(* ("ctx ending while waiting abandons the acquire").                      *)
EndsUnlessPoolIsFull ==
    <>[](\A n \in Nodes :
            pc[n] \in Done \/ (pc[n] = "asleep" /\ inUse >= lim[n] /\ ~cancelled[n]))
-----------------------------------------------------------------------------
(* Stated by the code, and refuted by TLC. *)

(* "Waiting is bounded by the RUN's context, not the attempt timeout -- a  *)
(* queued wait is not the node running" (engine/runner.go:1148): the       *)
(* deadline is set before the wait, so a handler can start with none left. *)
WaitIsNotTimed ==
    [][\A n \in Nodes : TakeSlot(n) => ~expired[n]]_vars

(* A node whose handler has done its work is not run again: the answer of  *)
(* a handler that succeeds in the grace period is dropped and the attempt  *)
(* retried, one after the other ("a retry alongside it could write twice", *)
(* engine/runner.go:1242).                                                 *)
SucceededIsNotRetried ==
    \A n \in Nodes, a \in Attempts : handler[n][a] = "ok" => a = attempt[n]
=============================================================================

------------------------------- MODULE CodePool -------------------------------
(***************************************************************************)
(* The warm interpreters that code nodes run on (src/pkg/codeexec/pool.go, *)
(* Exec in src/pkg/codeexec/exec.go): workers are kept per sub-pool (the   *)
(* language, the limits, the tenant and the bundle), counted against one   *)
(* cap, and retired after maxExecs executions, after a breach, or when     *)
(* they have been idle for long. At the cap an execution gets a one-shot   *)
(* worker, or it queues (BROKOLI_CODE_POOL_QUEUE).                         *)
(*                                                                         *)
(* A worker is the number of executions it has served. Left out: requests  *)
(* with a CPU limit, which never touch the pool's state.                   *)
(***************************************************************************)
EXTENDS Naturals, Sequences, FiniteSets

CONSTANTS
    Execs,          \* the callers of Exec, each for one request after another
    Keys,           \* the sub-pool keys of their requests
    MaxWorkers,     \* maxWorkers
    MaxExecs,       \* maxExecs
    MaxWaiters,     \* bound: the length of the waiters list
    Gone            \* a channel that nobody reads any more

VARIABLES
    queueAtCap, \* Pool.queueAtCap, fixed when the process starts
    subPool,    \* the key of each caller's requests
    total,      \* Pool.total
    idle,       \* subPool.idle, by key, oldest first
    waiters,    \* Pool.waiters: whose channel each is, or Gone
    closed,     \* Pool.closed
    tpc,        \* where each caller of Exec is
    worker,     \* the executions its worker has served
    gaveUp      \* history: whether a caller's context ended while it waited

callVars == <<tpc, worker>>
vars == <<queueAtCap, subPool, total, idle, waiters, closed, callVars, gaveUp>>

Busy == {e \in Execs : tpc[e] = "busy"}
Spawning == {e \in Execs : tpc[e] = "spawning"}

\* How many workers lie idle.
IdleCount == Cardinality(UNION {{<<k, n>> : n \in 1..Len(idle[k])} : k \in Keys})

TypeOK ==
    /\ queueAtCap \in BOOLEAN /\ closed \in BOOLEAN /\ gaveUp \in BOOLEAN
    /\ subPool \in [Execs -> Keys]
    /\ total \in 0..(MaxWorkers + Cardinality(Execs))
    /\ \A k \in Keys : Len(idle[k]) <= MaxWorkers /\ \A n \in DOMAIN idle[k] : idle[k][n] \in 1..(MaxExecs - 1)
    /\ \A n \in DOMAIN waiters : waiters[n] \in Execs \cup {Gone}
    /\ tpc \in [Execs -> {"out", "acquire", "spawning", "waiting", "woken", "busy", "oneshot"}]
    /\ worker \in [Execs -> 0..(MaxExecs - 1)]

Init ==
    /\ queueAtCap \in BOOLEAN
    /\ subPool \in [Execs -> Keys]
    /\ total = 0
    /\ idle = [k \in Keys |-> <<>>]
    /\ waiters = <<>>
    /\ closed = FALSE
    /\ tpc = [e \in Execs |-> "out"]
    /\ worker = [e \in Execs |-> 0]
    /\ gaveUp = FALSE
-----------------------------------------------------------------------------
(* acquire *)

Go(e, to) == tpc' = [tpc EXCEPT ![e] = to]

\* notifyWaiterLocked, with caller e moving on at the same time.
Notify(e, to) ==
    /\ waiters' = IF waiters = <<>> THEN waiters ELSE Tail(waiters)
    /\ tpc' = [x \in Execs |->
                  IF x = e THEN to
                  ELSE IF waiters # <<>> /\ waiters[1] = x THEN "woken" ELSE tpc[x]]

Begin(e) ==
    /\ tpc[e] = "out" /\ ~closed
    /\ Go(e, "acquire")
    /\ UNCHANGED <<queueAtCap, subPool, total, idle, waiters, closed, worker, gaveUp>>

\* "code worker pool is shut down"
RefuseClosed(e) ==
    /\ tpc[e] = "acquire" /\ closed
    /\ Go(e, "out")
    /\ UNCHANGED <<queueAtCap, subPool, total, idle, waiters, closed, worker, gaveUp>>

\* The worker that was used last is taken first.
TakeIdle(e) ==
    LET mine == idle[subPool[e]]
    IN  /\ tpc[e] = "acquire" /\ ~closed /\ mine # <<>>
        /\ worker' = [worker EXCEPT ![e] = mine[Len(mine)]]
        /\ idle' = [idle EXCEPT ![subPool[e]] = SubSeq(mine, 1, Len(mine) - 1)]
        /\ Go(e, "busy")
        /\ UNCHANGED <<queueAtCap, subPool, total, waiters, closed, gaveUp>>

\* A place under the cap is reserved before the lock is dropped to spawn.
Reserve(e) ==
    /\ tpc[e] = "acquire" /\ ~closed /\ idle[subPool[e]] = <<>> /\ total < MaxWorkers
    /\ total' = total + 1
    /\ Go(e, "spawning")
    /\ UNCHANGED <<queueAtCap, subPool, idle, waiters, closed, worker, gaveUp>>

SpawnOk(e) ==
    /\ tpc[e] = "spawning"
    /\ worker' = [worker EXCEPT ![e] = 0]
    /\ Go(e, "busy")
    /\ UNCHANGED <<queueAtCap, subPool, total, idle, waiters, closed, gaveUp>>

\* Faulty variant: a failed spawn keeps its place.
SpawnFailsKeepsPlace(e) ==
    /\ tpc[e] = "spawning"
    /\ Notify(e, "out")
    /\ UNCHANGED <<queueAtCap, subPool, total, idle, closed, worker, gaveUp>>

SpawnFails(e) ==
    /\ tpc[e] = "spawning"
    /\ total' = total - 1
    /\ Notify(e, "out")
    /\ UNCHANGED <<queueAtCap, subPool, idle, closed, worker, gaveUp>>

AtCap(e) == tpc[e] = "acquire" /\ ~closed /\ idle[subPool[e]] = <<>> /\ total >= MaxWorkers

\* Overflow: a worker for one execution, outside the count. Its spawn may fail.
Overflow(e) ==
    /\ AtCap(e) /\ ~queueAtCap
    /\ \E to \in {"oneshot", "out"} : Go(e, to)
    /\ UNCHANGED <<queueAtCap, subPool, total, idle, waiters, closed, worker, gaveUp>>

WaitAtCap(e) ==
    /\ AtCap(e) /\ queueAtCap
    /\ Len(waiters) < MaxWaiters
    /\ waiters' = Append(waiters, e)
    /\ Go(e, "waiting")
    /\ UNCHANGED <<queueAtCap, subPool, total, idle, closed, worker, gaveUp>>

\* The channel was closed, and the loop starts over.
TryAgain(e) ==
    /\ tpc[e] = "woken"
    /\ Go(e, "acquire")
    /\ UNCHANGED <<queueAtCap, subPool, total, idle, waiters, closed, worker, gaveUp>>

(* ctx.Done: the caller leaves. Its channel stays in the list, or, if it   *)
(* was closed already, its turn is passed to nobody.                       *)
GiveUp(e) ==
    /\ tpc[e] \in {"waiting", "woken"}
    /\ waiters' = [n \in DOMAIN waiters |-> IF waiters[n] = e THEN Gone ELSE waiters[n]]
    /\ gaveUp' = TRUE
    /\ Go(e, "out")
    /\ UNCHANGED <<queueAtCap, subPool, total, idle, closed, worker>>
-----------------------------------------------------------------------------
(* release, and the pool's own steps *)

FinishOneShot(e) ==
    /\ tpc[e] = "oneshot"
    /\ Go(e, "out")
    /\ UNCHANGED <<queueAtCap, subPool, total, idle, waiters, closed, worker, gaveUp>>

(* The script breached a limit, the worker broke, the timeout or a cancel  *)
(* killed it, or it has served its number.                                 *)
Retire(e) ==
    /\ tpc[e] = "busy"
    /\ total' = total - 1
    /\ Notify(e, "out")
    /\ UNCHANGED <<queueAtCap, subPool, idle, closed, worker, gaveUp>>

\* A healthy worker; one that comes back to a closed pool is killed.
PutBack(e) ==
    /\ tpc[e] = "busy" /\ worker[e] + 1 < MaxExecs
    /\ IF closed
       THEN Go(e, "out") /\ UNCHANGED <<idle, waiters>>
       ELSE /\ idle' = [idle EXCEPT ![subPool[e]] = Append(@, worker[e] + 1)]
            /\ Notify(e, "out")
    /\ UNCHANGED <<queueAtCap, subPool, total, closed, worker, gaveUp>>

\* reapLoop: the workers that have been idle longest, of every key. Nobody is told.
Reap ==
    /\ ~closed
    /\ \E n \in [Keys -> 0..MaxWorkers] :
          /\ \A k \in Keys : n[k] <= Len(idle[k])
          /\ \E k \in Keys : n[k] > 0
          /\ idle' = [k \in Keys |-> SubSeq(idle[k], n[k] + 1, Len(idle[k]))]
          /\ total' = total - Cardinality(UNION {{<<k, m>> : m \in 1..n[k]} : k \in Keys})
    /\ UNCHANGED <<queueAtCap, subPool, waiters, closed, callVars, gaveUp>>

Close ==
    /\ ~closed
    /\ closed' = TRUE
    /\ idle' = [k \in Keys |-> <<>>]
    /\ waiters' = <<>>
    /\ tpc' = [e \in Execs |-> IF tpc[e] = "waiting" THEN "woken" ELSE tpc[e]]
    /\ UNCHANGED <<queueAtCap, subPool, total, worker, gaveUp>>
-----------------------------------------------------------------------------
Acquire(e) ==
    \/ RefuseClosed(e) \/ TakeIdle(e) \/ Reserve(e) \/ SpawnOk(e) \/ SpawnFails(e)
    \/ Overflow(e) \/ WaitAtCap(e) \/ TryAgain(e)
Finish(e) == FinishOneShot(e) \/ Retire(e) \/ PutBack(e)

Next ==
    \/ \E e \in Execs : Begin(e) \/ Acquire(e) \/ Finish(e) \/ GiveUp(e)
    \/ Reap \/ Close

Spec == Init /\ [][Next]_vars

(* A caller goes on, and an execution ends: Exec has a timer. Nothing is   *)
(* assumed of new requests, of contexts, of the reaper or of Close.        *)
Fairness == \A e \in Execs : WF_vars(Acquire(e)) /\ WF_vars(Finish(e))
FairSpec == Spec /\ Fairness
-----------------------------------------------------------------------------
(* Properties *)

(* While the pool is open its count is the workers that exist: idle, at    *)
(* work, or being spawned; and it never exceeds the cap. A count that      *)
(* drifts (a failed spawn, a reaped or a retired worker) would shut code   *)
(* nodes out of the pool for the life of the process.                      *)
CountIsExact ==
    ~closed => total = IdleCount + Cardinality(Busy) + Cardinality(Spawning) /\ total <= MaxWorkers

(* No worker outlives the pool: one that was at work, or being spawned,    *)
(* while Close ran is not put back (release, "p.closed").                  *)
ClosedPoolIsEmpty == closed => IdleCount = 0 /\ waiters = <<>>

(* By default no caller ever waits for another: each one is through again  *)
(* and again. With the queue, requests of one key, and as long as no       *)
(* caller gives up, nobody is left waiting: a worker that comes back, or   *)
(* that is retired, wakes the next one.                                    *)
CallerGoesOn ==
    \A e \in Execs :
        []<>(IF queueAtCap
             THEN tpc[e] # "waiting" \/ gaveUp \/ \E x \in Execs : subPool[x] # subPool[e]
             ELSE tpc[e] = "out")
-----------------------------------------------------------------------------
(* Stated by the code, and refuted by TLC. *)

(* At the cap acquire "blocks until a slot frees (opt-in queue)"           *)
(* (pkg/codeexec/pool.go:124). reapLoop frees slots and wakes nobody, and  *)
(* the turn of a caller that gave up is lost.                              *)
BlocksUntilASlotFrees ==
    \A e \in Execs : ~<>[](tpc[e] = "waiting" /\ total < MaxWorkers)
=============================================================================

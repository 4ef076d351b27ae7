-------------------------- MODULE ExecutionAttempt --------------------------
(***************************************************************************)
(* One node attempt, (run_id, node_id, instance_key, attempt), from its    *)
(* queued row to its settlement: the Runners that dispatch it              *)
(* (Runner.executeNode, src/engine/runner.go), the recovery passes that    *)
(* reclaim it (reconcileExecutionAttempts, src/engine/recovery.go) and the *)
(* clock its lease is measured on.                                         *)
(*                                                                         *)
(* A Runner is one execution of the run by one engine instance. Several    *)
(* Runners meet on the same row when a run is parked and woken, or         *)
(* reclaimed from an instance that was only slow: a Runner may stall       *)
(* between any two of its steps for as long as it likes.                   *)
(***************************************************************************)
EXTENDS AttemptStore

CONSTANTS
    Runners,        \* executions of the run
    Instances,      \* engine processes: Engine.instanceID
    InstanceOf,     \* the process each Runner lives in
    Recoverers,     \* recovery passes (startup, or the leader's sweep)
    LeaseDuration,  \* store.DefaultLeaseDuration, in clock units
    MaxTime         \* bound on the clock

ASSUME AttemptAssumption ==
    /\ InstanceOf \in [Runners -> Instances]
    /\ NoOne \notin Instances
    /\ LeaseDuration \in Nat \ {0}
    /\ MaxTime \in Nat

VARIABLES
    row,        \* the execution_attempts row
    now,        \* wall clock
    pc,         \* Runner -> where it is in executeNode
    token,      \* Runner -> execFencingGen, the generation the code holds
    out,        \* Runner -> what its handler returned
    granted,    \* history: the generation the row really gave this Runner
    until,      \* history: the end of the lease it was last granted
    rec,        \* recovery pass -> the snapshot it is about to act on
    returning   \* the store: its UPDATE returns the generation (Postgres)

runner == <<pc, token, out, granted, until>>
vars == <<row, now, runner, rec, returning>>

RunnerPC == {"idle", "created", "claiming", "claimed", "running", "returned", "done", "dead"}
Outcome == {"none", "ok", "fail", "park"}

Live(p) == pc[p] \notin {"idle", "done", "dead"}

\* Between a claim that took effect and the end of the attempt's settlement.
Holding(p) == pc[p] \in {"claiming", "claimed", "running", "returned"}

Init ==
    /\ row = AbsentRow
    /\ now = 0
    /\ pc = [p \in Runners |-> "idle"]
    /\ token = [p \in Runners |-> 0]
    /\ out = [p \in Runners |-> "none"]
    /\ granted = [p \in Runners |-> 0]
    /\ until = [p \in Runners |-> -1]
    /\ rec = [r \in Recoverers |-> [pc |-> "idle", gen |-> 0]]
    /\ returning \in BOOLEAN

-----------------------------------------------------------------------------
(* executeNode, one step per store call.                                   *)

(* The transaction that creates the NodeRun and the attempt row. On SQLite *)
(* a process has one Runner per run at a time: what could put the run on   *)
(* offer again is its own sweep, which leaves the runs in Engine.active    *)
(* alone. On Postgres another process' sweep may re-queue a run that this  *)
(* one still executes, and ExecuteQueuedRun does not look at Engine.active *)
(* before it starts a second Runner here.                                  *)
Create(p) ==
    /\ pc[p] = "idle"
    /\ returning \/ \A q \in Runners : InstanceOf[q] = InstanceOf[p] => ~Live(q)
    /\ row' = CreateAttempt(row)
    /\ pc' = [pc EXCEPT ![p] = "created"]
    /\ UNCHANGED <<now, token, out, granted, until, rec>>

\* ClaimAttempt's UPDATE takes effect, and may return the generation it has set.
Claim(p) ==
    /\ pc[p] = "created"
    /\ CanClaim(row, now)
    /\ row' = Claimed(row, InstanceOf[p], now, LeaseDuration)
    /\ pc' = [pc EXCEPT ![p] = IF returning THEN "claimed" ELSE "claiming"]
    /\ token' = [token EXCEPT ![p] = IF returning THEN row.gen + 1 ELSE token[p]]
    /\ granted' = [granted EXCEPT ![p] = row.gen + 1]
    /\ until' = [until EXCEPT ![p] = now + LeaseDuration]
    /\ UNCHANGED <<now, out, rec>>

\* ClaimAttempt returns ok=false: "already claimed or terminal", the node fails.
ClaimRefused(p) ==
    /\ pc[p] = "created"
    /\ ~CanClaim(row, now)
    /\ pc' = [pc EXCEPT ![p] = "done"]
    /\ UNCHANGED <<row, now, token, out, granted, until, rec>>

(* The SELECT after the UPDATE, on SQLite: ClaimAttempt returns the        *)
(* generation that the row has now.                                        *)
ReadGeneration(p) ==
    /\ pc[p] = "claiming"
    /\ pc' = [pc EXCEPT ![p] = "claimed"]
    /\ token' = [token EXCEPT ![p] = row.gen]
    /\ UNCHANGED <<row, now, out, granted, until, rec>>

Ack(p) ==
    /\ pc[p] = "claimed"
    /\ HoldsLease(row, InstanceOf[p], token[p])
    /\ row' = Acked(row)
    /\ pc' = [pc EXCEPT ![p] = "running"]
    /\ UNCHANGED <<now, token, out, granted, until, rec>>

\* AckAttempt's error: the node fails without running.
AckRefused(p) ==
    /\ pc[p] = "claimed"
    /\ ~HoldsLease(row, InstanceOf[p], token[p])
    /\ pc' = [pc EXCEPT ![p] = "done"]
    /\ UNCHANGED <<row, now, token, out, granted, until, rec>>

(* renewAttemptLease's tick, while the handler runs. A call that was under *)
(* way when attemptCancel() ended the renewals may take effect afterwards, *)
(* even after a park has dropped the lease. A refused renewal ends the     *)
(* goroutine, and the generation never matches again.                      *)
Renew(p) ==
    /\ pc[p] = "running" \/ (out[p] # "none" /\ pc[p] # "dead")
    /\ HoldsLease(row, InstanceOf[p], token[p])
    /\ row' = Renewed(row, now, LeaseDuration)
    /\ until' = [until EXCEPT ![p] = now + LeaseDuration]
    /\ UNCHANGED <<now, pc, token, out, granted, rec>>

\* The handler returns (or times out); attemptCancel() ends the renewals.
Return(p, o) ==
    /\ pc[p] = "running"
    /\ pc' = [pc EXCEPT ![p] = "returned"]
    /\ out' = [out EXCEPT ![p] = o]
    /\ UNCHANGED <<row, now, token, granted, until, rec>>

\* CompleteAttempt after a success, FailAttempt after a failure; both best effort.
SettleOwn(p) ==
    /\ pc[p] = "returned"
    /\ out[p] \in {"ok", "fail"}
    /\ row' = Settle(row, token[p], IF out[p] = "ok" THEN "completed" ELSE "failed")
    /\ pc' = [pc EXCEPT ![p] = "done"]
    /\ UNCHANGED <<now, token, out, granted, until, rec>>

\* A wait node parks: RenewLease with duration 0, so the wake can reclaim it.
DropLease(p) ==
    /\ pc[p] = "returned"
    /\ out[p] = "park"
    /\ row' = IF HoldsLease(row, InstanceOf[p], token[p]) THEN Renewed(row, now, 0) ELSE row
    /\ pc' = [pc EXCEPT ![p] = "done"]
    /\ UNCHANGED <<now, token, out, granted, until, rec>>

\* The process dies, with every Runner in it; the row is what survives.
Crash(i) ==
    /\ \E p \in Runners : InstanceOf[p] = i /\ Live(p)
    /\ pc' = [p \in Runners |-> IF InstanceOf[p] = i /\ Live(p) THEN "dead" ELSE pc[p]]
    /\ UNCHANGED <<row, now, token, out, granted, until, rec>>

-----------------------------------------------------------------------------
(* reconcileExecutionAttempts: list the rows, then fail the expired ones   *)
(* one by one under the generation that was listed.                        *)

ListExpired(r) ==
    /\ rec[r].pc = "idle"
    /\ row.status \notin TerminalAttempt \cup {"absent"}
    /\ row.lease # NoLease
    /\ row.lease <= now
    /\ rec' = [rec EXCEPT ![r] = [pc |-> "reclaim", gen |-> row.gen]]
    /\ UNCHANGED <<row, now, runner>>

Reclaim(r) ==
    /\ rec[r].pc = "reclaim"
    /\ row' = Settle(row, rec[r].gen, "failed")
    /\ rec' = [rec EXCEPT ![r].pc = "idle"]
    /\ UNCHANGED <<now, runner>>

Tick ==
    /\ now < MaxTime
    /\ now' = now + 1
    /\ UNCHANGED <<row, runner, rec>>

Step ==
    \/ \E p \in Runners :
          \/ Create(p) \/ Claim(p) \/ ClaimRefused(p) \/ ReadGeneration(p)
          \/ Ack(p) \/ AckRefused(p) \/ Renew(p)
          \/ \E o \in {"ok", "fail", "park"} : Return(p, o)
          \/ SettleOwn(p) \/ DropLease(p)
    \/ \E i \in Instances : Crash(i)
    \/ \E r \in Recoverers : ListExpired(r) \/ Reclaim(r)
    \/ Tick

\* The store is what it is.
Next == Step /\ UNCHANGED returning

Spec == Init /\ [][Next]_vars

-----------------------------------------------------------------------------
(* Properties                                                              *)

TypeOK ==
    /\ row \in [status: AttemptStatus, claimedBy: Instances \cup {NoOne},
                lease: Nat \cup {NoLease}, gen: Nat]
    /\ now \in Nat
    /\ pc \in [Runners -> RunnerPC]
    /\ token \in [Runners -> Nat]
    /\ out \in [Runners -> Outcome]
    /\ granted \in [Runners -> Nat]
    /\ until \in [Runners -> Int]
    /\ rec \in [Recoverers -> [pc: {"idle", "reclaim"}, gen: Nat]]
    /\ returning \in BOOLEAN

(* A lease is exclusive while it lasts: as long as the lease a Runner was  *)
(* granted by ClaimAttempt or RenewLease has not run out, no other Runner  *)
(* has been granted the attempt, however late its steps are.               *)
LeaseExclusive ==
    \A p \in Runners : Holding(p) /\ now <= until[p] => row.gen = granted[p]

(* The token a Runner executes under is its own: the UPDATE and SELECT of  *)
(* ClaimAttempt on SQLite may hand a stalled Runner a later claimant's          *)
(* generation, but AckAttempt's claimed_by test stops it before it runs.   *)
TokenIsOwn ==
    \A p \in Runners : pc[p] = "running" \/ out[p] # "none" => token[p] = granted[p]

(* A completed row tells the truth: the last Runner that was granted the   *)
(* attempt, and no stale one, ran its handler to success.                  *)
CompletedByLatest ==
    row.status = "completed" =>
        \E p \in Runners : granted[p] = row.gen /\ out[p] = "ok"

(* A settled attempt stays settled: no claim, late settlement, renewal or  *)
(* reclaim of any actor changes its status or its generation again.        *)
SettledIsFinal ==
    [][IsTerminalAttempt(row) => row'.status = row.status /\ row'.gen = row.gen]_vars

-----------------------------------------------------------------------------
(* Stated by the code or its comments, and refuted by TLC: see the section *)
(* on divergences in README.md.                                            *)

(* A parked attempt's lease is dropped "so the eventual wake can reclaim   *)
(* it without waiting out the 15s expiry": a Runner that comes to a row    *)
(* whose claimant has parked is not refused for an unexpired lease.        *)
ParkedIsReclaimable ==
    \A p, q \in Runners :
        /\ pc[p] = "done" /\ out[p] = "park" /\ granted[p] = row.gen
        /\ pc[q] = "created" /\ ~IsTerminalAttempt(row)
        => row.lease <= now

(* Recovery "must not steal that work" while a lease is live: a reclaim    *)
(* does not fail an attempt whose lease is unexpired when it is failed.    *)
NoLiveLeaseReclaimed ==
    [][\A r \in Recoverers :
          rec[r].pc = "reclaim" /\ rec'[r].pc = "idle" /\ row' # row => row.lease <= now]_vars
=============================================================================

---------------------------- MODULE AttemptStore ----------------------------
(***************************************************************************)
(* One row of the execution_attempts table and the operations of           *)
(* store.ExecutionAttemptStore, as functions of that row                   *)
(* (src/store/sqlite.go; src/store/postgres.go has the same statements).   *)
(* Every operation of the store is one SQL statement with a WHERE clause:  *)
(* the clause is a predicate here (CanClaim, HoldsLease, CanSettle) and    *)
(* the SET list a function from rows to rows (Claimed, Renewed, ...).      *)
(* The module has no variables: the specifications that own such a row     *)
(* (ExecutionAttempt, CrashRecovery) apply these to it.                    *)
(***************************************************************************)
EXTENDS Integers

CONSTANT NoOne          \* claimed_by of a row nobody has claimed

\* lease_expires_at IS NULL.  Times are naturals, so no time equals it.
NoLease == -1

TerminalAttempt == {"completed", "failed"}
AttemptStatus == {"absent", "queued", "claimed", "started"} \cup TerminalAttempt

\* The row before any CreateExecutionAttemptTx for its key.
AbsentRow == [status |-> "absent", claimedBy |-> NoOne, lease |-> NoLease, gen |-> 0]

\* isTerminalAttemptStatus
IsTerminalAttempt(r) == r.status \in TerminalAttempt

-----------------------------------------------------------------------------
\* Faulty variant: the insert resets an existing row.
CreateAttemptAfresh(r) == [r EXCEPT !.status = "queued"]

(* INSERT ... ON CONFLICT DO NOTHING: an existing row is left as it is,    *)
(* whatever its status. fencing_generation starts at 0.                    *)
CreateAttempt(r) ==
    IF r.status = "absent" THEN [r EXCEPT !.status = "queued"] ELSE r

\* Faulty variant: the lease is not looked at.
CanClaimIgnoringLease(r, now) == r.status \notin TerminalAttempt \cup {"absent"}

(* ClaimAttempt's WHERE clause. The lease comparison is strict: a lease    *)
(* that ends exactly now is not yet claimable.                             *)
CanClaim(r, now) ==
    /\ r.status \notin TerminalAttempt \cup {"absent"}
    /\ r.status = "queued" \/ r.lease = NoLease \/ r.lease < now

Claimed(r, who, now, duration) ==
    [status |-> "claimed", claimedBy |-> who, lease |-> now + duration, gen |-> r.gen + 1]

\* Faulty variant: the claimant is not compared.
HoldsLeaseOfAnyone(r, who, g) == r.status \in {"claimed", "started"} /\ r.gen = g

(* The WHERE clause RenewLease and AckAttempt share: the caller is the     *)
(* recorded claimant, under the recorded generation, of an unsettled row.  *)
(* Neither asks whether the lease has run out.                             *)
HoldsLease(r, who, g) ==
    /\ r.status \in {"claimed", "started"}
    /\ r.claimedBy = who
    /\ r.gen = g

Renewed(r, now, duration) == [r EXCEPT !.lease = now + duration]

Acked(r) == [r EXCEPT !.status = "started"]

\* Faulty variants: no fencing, and a settled row settled again.
CanSettleUnfenced(r, g) == r.status \notin TerminalAttempt \cup {"absent"}
CanSettleAgain(r, g) == r.gen = g /\ r.status # "absent"

(* SettleAttempt's WHERE clause. claimed_by is not looked at.              *)
CanSettle(r, g) ==
    /\ r.gen = g
    /\ r.status \notin TerminalAttempt \cup {"absent"}

Settled(r, to) == [r EXCEPT !.status = to]

\* CompleteAttempt / FailAttempt as a whole: a refused UPDATE changes nothing.
Settle(r, g, to) == IF CanSettle(r, g) THEN Settled(r, to) ELSE r
=============================================================================

------------------------ MODULE CrashRecoveryProofs ------------------------
(***************************************************************************)
(* Theorems about recovery, for any pipeline, any number of processes,     *)
(* deliveries, passes, crashes and retries: a run recorded as successful   *)
(* has had all its nodes succeed, and what it takes for a node that may    *)
(* write outside Brokoli to be started twice.                              *)
(***************************************************************************)
EXTENDS CrashRecovery, WellFoundedInduction, TLAPS

\* The phases in which an execution is busy with a node of the pipeline.
AtNode == {"attempt", "created", "run", "ok", "bad", "settleOk", "settleBad", "backoff"}

\* Those in which it holds the attempt's lease, and those in which its handler was started.
Holding == {"created", "run", "ok", "bad", "settleOk", "settleBad"}
Started == {"run", "ok", "bad", "settleOk", "settleBad", "backoff"}

(* What an execution or a pass is about to write is decided, and an        *)
(* execution that is busy with a node has one.                             *)
PhaseOK ==
    /\ \A x \in Execs :
          /\ epc[x] \in {"write", "logEnd"} => want[x] \in TerminalRun
          /\ epc[x] \in AtNode => cur[x] <= Len(Pipeline)
          /\ epc[x] = "backoff" => att[x] < MaxRetries
    /\ \A p \in Sweepers :
          /\ rpc[p] = "sync" => rwhy[p] \in TerminalRun
          /\ rpc[p] \in {"close", "write", "log"} => rwhy[p] \in Verdict \ {"none", "cancelled"}

(* Whoever says that a node or the run succeeded is right: the log, a      *)
(* Runner, a pass of recovery, the row.                                    *)
SuccessInv ==
    /\ \A x \in Execs :
          /\ \A i \in 1..(cur[x] - 1) : Pipeline[i] \in finished
          /\ epc[x] \in {"ok", "settleOk"} => Pipeline[cur[x]] \in finished
          /\ want[x] = "success" => finished = Nodes
    /\ \A n \in Nodes, a \in Attempts : nodeRun[<<n, a>>] = "success" => n \in finished
    /\ projStatus = "success" => finished = Nodes
    /\ \A p \in Sweepers : rwhy[p] = "success" => finished = Nodes
    /\ status = "success" => finished = Nodes

(* The row r of an attempt is held under fencing generation g, by a lease  *)
(* that has not expired.                                                   *)
RowIsHeld(r, g) ==
    r.status \in {"claimed", "started"} /\ r.gen = g /\ r.lease = Now + LeaseTerm

(* An execution that is busy with an attempt has its row, under a lease    *)
(* that is live, and is the only one that does.                            *)
RowsOK ==
    /\ \A x \in Execs : epc[x] \in Holding => RowIsHeld(attempt[Key(x)], gen[x])
    /\ \A x, y \in Execs : epc[x] \in Holding /\ epc[y] \in Holding /\ Key(x) = Key(y) => x = y

(* An execution that started a node and has not died has settled the first *)
(* attempt of it, or still holds its lease; a retry follows a start.       *)
StartsOK ==
    /\ \A x \in Execs, n \in Nodes :
          <<n, x>> \in handled /\ epc[x] # "dead" =>
              \/ IsTerminalAttempt(attempt[<<n, 0>>])
              \/ epc[x] \in Holding /\ Key(x) = <<n, 0>>
    /\ \A x \in Execs :
          /\ epc[x] \in Started => <<Pipeline[cur[x]], x>> \in handled
          /\ epc[x] \in AtNode /\ att[x] > 0 => <<Pipeline[cur[x]], x>> \in handled
          /\ epc[x] \in {"idle", "claimed", "slot", "wave"} => att[x] = 0

(* Of two executions that started the same node one is dead.               *)
OneSurvivor ==
    \A n \in Nodes, x, y \in Execs :
        <<n, x>> \in handled /\ <<n, y>> \in handled /\ x # y => epc[x] = "dead" \/ epc[y] = "dead"

(* As long as no re-queue was early: a pending run has no Runner and none  *)
(* has two, and the only one left of a run that started a node that may    *)
(* write is the one that did.                                              *)
RequeueOK ==
    /\ \A n \in Nodes, x \in Execs :
          <<n, x>> \in handled => \E a \in Attempts : nodeRun[<<n, a>>] # "none"
    /\ ~early =>
          /\ status = "pending" => \A x \in Execs : ~LiveRunner(x)
          /\ \A x, y \in Execs : LiveRunner(x) /\ LiveRunner(y) => x = y
          /\ \A n \in Unsafe, x \in Execs : <<n, x>> \in handled =>
                status # "pending" /\ \A y \in Execs : LiveRunner(y) => y = x
          /\ \A n \in Unsafe, x, y \in Execs : <<n, x>> \in handled /\ <<n, y>> \in handled => x = y

(* The inductive invariant.                                                *)
RecoveryInv == TypeOK /\ PhaseOK /\ SuccessInv /\ RowsOK /\ StartsOK /\ OneSurvivor /\ RequeueOK
-----------------------------------------------------------------------------
(* latestNodeOutcome                                                       *)

(* A set of attempt numbers that is not empty has a highest one.           *)
LEMMA HighestExists ==
    ASSUME NEW N \in Nat, NEW S \in SUBSET (0..N), S # {}
    PROVE  \E m \in S : \A k \in S : k <= m
<1> DEFINE T == {N - k : k \in S}
<1>1. T \subseteq Nat /\ T # {}
  <2>1. \A k \in S : k \in 0..N /\ N - k \in Nat
    OBVIOUS
  <2> QED
    BY <2>1
<1>2. \E t \in T : \A u \in T : ~(<<u, t>> \in OpToRel(<, Nat))
  <2> HIDE DEF T
  <2> QED
    BY <1>1, NatLessThanWellFounded, WFMin
<1>3. PICK t \in T : \A u \in T : ~(u < t)
  <2> HIDE DEF T
  <2> QED
    BY <1>1, <1>2 DEF OpToRel
<1>4. PICK m \in S : t = N - m
  OBVIOUS
<1>5. ASSUME NEW k \in S
      PROVE  k <= m
  <2>1. N - k \in T /\ k \in 0..N /\ m \in 0..N
    OBVIOUS
  <2>2. ~(N - k < t)
    BY <2>1, <1>3
  <2> QED
    BY <2>1, <2>2, <1>4
<1> QED
  BY <1>5

(* What latestNodeOutcome returns for a node is the outcome of one of its  *)
(* recorded attempts.                                                      *)
LEMMA LatestIsRecorded ==
    ASSUME NEW n, Recorded(n) # {}
    PROVE  LatestAttempt(n) \in Recorded(n)
  BY HighestExists, RecoveryAssumption DEF Recorded, LatestAttempt, Attempts

(* A node without an outcome has no recorded attempt, and one that has an  *)
(* outcome has it from a recorded attempt: what the three rules of         *)
(* recoverRun that read latestNodeOutcome rest on.                         *)
LEMMA OutcomeIsOfAnAttempt ==
    ASSUME NEW n
    PROVE  /\ LatestOutcome(n) # "none" => \E a \in Attempts : nodeRun[<<n, a>>] = LatestOutcome(n)
           /\ LatestOutcome(n) = "none" => \A a \in Attempts : nodeRun[<<n, a>>] = "none"
  BY LatestIsRecorded DEF LatestOutcome, Recorded
-----------------------------------------------------------------------------
(* Types and phases                                                        *)

(* A run starts with nothing recorded and nobody busy.                     *)
LEMMA InvInit == Init => RecoveryInv
<1> SUFFICES ASSUME Init
             PROVE  RecoveryInv
  OBVIOUS
<1> USE RecoveryAssumption DEF Init
<1>1. TypeOK
  <2>1. attempt \in [Nodes \X Attempts ->
            [status: AttemptStatus, claimedBy: Procs \cup {NoOne}, lease: Nat \cup {NoLease}, gen: Nat]]
    BY DEF AbsentRow, AttemptStatus
  <2>2. /\ Len(Pipeline) \in Nat /\ 0 \in Attempts
        /\ "pending" \in RunStatus /\ "idle" \in ExecPC /\ "none" \in Verdict
    BY DEF Attempts, RunStatus, ExecPC, Verdict
  <2>3. cur \in [Execs -> 1..(Len(Pipeline) + 1)] /\ crashes \in 0..MaxCrashes /\ requeues \in Nat
    BY <2>2
  <2>4. want \in [Execs -> {"none"} \cup TerminalRun] /\ att \in [Execs -> Attempts] /\ gen \in [Execs -> Nat]
    BY <2>2
  <2>5. epc \in [Execs -> ExecPC] /\ rpc \in [Sweepers -> {"idle", "reconcile", "decide", "sync", "close", "write", "log"}]
    BY <2>2
  <2>6. /\ rwhy \in [Sweepers -> Verdict] /\ rcancel \in [Sweepers -> BOOLEAN]
        /\ rclose \in [Sweepers -> SUBSET (Nodes \X Attempts)]
    BY <2>2
  <2>7. nodeRun \in [Nodes \X Attempts -> {"none", "running", "success", "failed"}]
    OBVIOUS
  <2>8. finished \subseteq Nodes /\ handled \subseteq Nodes \X Execs
    OBVIOUS
  <2> QED
    BY <2>1, <2>2, <2>3, <2>4, <2>5, <2>6, <2>7, <2>8 DEF TypeOK
<1>2. PhaseOK /\ SuccessInv /\ RowsOK
  BY DEF PhaseOK, SuccessInv, RowsOK, AtNode, Holding, TerminalRun
<1>3. StartsOK /\ OneSurvivor /\ RequeueOK
  BY DEF StartsOK, OneSurvivor, RequeueOK, AtNode, Started, LiveRunner
<1> QED
  BY <1>1, <1>2, <1>3 DEF RecoveryInv

(* The rows that TypeOK allows for an attempt.                             *)
AttemptRow == [status: AttemptStatus, claimedBy: Procs \cup {NoOne}, lease: Nat \cup {NoLease}, gen: Nat]

(* The statements of the attempt store leave a row of that type, and only  *)
(* the claim changes its generation.                                       *)
LEMMA RowOperations ==
    ASSUME NEW r \in AttemptRow
    PROVE  /\ Acked(r) \in AttemptRow
           /\ [r EXCEPT !.lease = Expired] \in AttemptRow
           /\ Settled(r, "failed") \in AttemptRow
           /\ \A g : Settle(r, g, "failed") \in AttemptRow /\ Settle(r, g, "completed") \in AttemptRow
           /\ \A who \in Procs : Claimed(CreateAttempt(r), who, Now, LeaseTerm) \in AttemptRow
           /\ CreateAttempt(r).gen = r.gen
<1>1. /\ Acked(r) \in AttemptRow
      /\ [r EXCEPT !.lease = Expired] \in AttemptRow
      /\ Settled(r, "failed") \in AttemptRow /\ Settled(r, "completed") \in AttemptRow
  BY DEF AttemptRow, Acked, Settled, AttemptStatus, TerminalAttempt, Expired
<1>2. CreateAttempt(r).gen = r.gen /\ r.gen \in Nat
  BY DEF CreateAttempt, AttemptRow
<1>3. \A who \in Procs : Claimed(CreateAttempt(r), who, Now, LeaseTerm) \in AttemptRow
  BY <1>2 DEF Claimed, AttemptRow, AttemptStatus, Now, LeaseTerm
<1> QED
  BY <1>1, <1>2, <1>3 DEF Settle

(* An execution that is busy with a node is at an attempt that has a row.  *)
LEMMA KeyInRange ==
    ASSUME TypeOK, PhaseOK, NEW x \in Execs, epc[x] \in AtNode
    PROVE  Key(x) \in Nodes \X Attempts
  BY DEF TypeOK, PhaseOK, Key, Nodes

(* Every step keeps the types, and what an execution or a pass goes on     *)
(* with is what it decided.                                                *)
LEMMA TypeStep ==
    ASSUME TypeOK, PhaseOK, [Next]_vars
    PROVE  TypeOK' /\ PhaseOK'
  <1> USE RecoveryAssumption DEF TypeOK, PhaseOK, log, exec, sweep, history, ExecPC, Verdict, TerminalRun,
     AtNode, TerminalAttempt
<1>0. attempt \in [Nodes \X Attempts -> AttemptRow]
  BY DEF AttemptRow
<1>1. ASSUME NEW x \in Execs, Claim(x)
      PROVE  TypeOK' /\ PhaseOK'
  BY <1>1 DEF Claim, At, RunStatus
<1>2. ASSUME NEW x \in Execs, LogClaimed(x)
      PROVE  TypeOK' /\ PhaseOK'
  BY <1>2 DEF LogClaimed, At, LogRun, RunStatus, log
<1>3. ASSUME NEW x \in Execs, BeginExecute(x)
      PROVE  TypeOK' /\ PhaseOK'
  BY <1>3 DEF BeginExecute, At
<1>4. ASSUME NEW x \in Execs, Wave(x)
      PROVE  TypeOK' /\ PhaseOK'
  <2>1. CASE At(x, "wave", "attempt") /\ cur[x] <= Len(Pipeline) /\ UNCHANGED want
    BY <1>4, <2>1 DEF Wave, At
  <2>2. ASSUME NEW s \in {"cancelled", "success"}, At(x, "wave", "write"), want' = [want EXCEPT ![x] = s]
        PROVE  TypeOK' /\ PhaseOK'
    BY <1>4, <2>2 DEF Wave, At
  <2> QED
    BY <1>4, <2>1, <2>2 DEF Wave
<1>5. ASSUME NEW x \in Execs, ClaimNode(x)
      PROVE  TypeOK' /\ PhaseOK'
  <2>1. Key(x) \in Nodes \X Attempts /\ attempt[Key(x)] \in AttemptRow /\ ProcOf[x] \in Procs
    BY <1>5, <1>0, KeyInRange DEF ClaimNode, At
  <2>2. attempt' \in [Nodes \X Attempts -> AttemptRow]
    BY <1>5, <1>0, <2>1, RowOperations DEF ClaimNode
  <2>3. gen' \in [Execs -> Nat]
    <3>1. CreateAttempt(attempt[Key(x)]).gen = attempt[Key(x)].gen
      BY <2>1, RowOperations
    <3>2. attempt[Key(x)].gen \in Nat
      BY <2>1 DEF AttemptRow
    <3> QED
      BY <1>5, <3>1, <3>2 DEF ClaimNode
  <2> QED
    BY <1>5, <2>2, <2>3 DEF ClaimNode, At, AttemptRow
<1>6. ASSUME NEW x \in Execs, ClaimNodeRefused(x)
      PROVE  TypeOK' /\ PhaseOK'
  BY <1>6 DEF ClaimNodeRefused, At, MayWrite
<1>7. ASSUME NEW x \in Execs, StartNode(x)
      PROVE  TypeOK' /\ PhaseOK'
  <2>1. Key(x) \in Nodes \X Attempts /\ <<Pipeline[cur[x]], x>> \in Nodes \X Execs
    BY <1>7, KeyInRange DEF StartNode, At, Key
  <2>2. attempt' \in [Nodes \X Attempts -> AttemptRow]
    BY <1>7, <2>1, <1>0, RowOperations DEF StartNode
  <2> QED
    BY <1>7, <2>1, <2>2 DEF StartNode, At, LogAttempt, AttemptRow
<1>8. ASSUME NEW x \in Execs, NodeSucceeds(x)
      PROVE  TypeOK' /\ PhaseOK'
  <2>1. Pipeline[cur[x]] \in Nodes
    BY <1>8, KeyInRange DEF NodeSucceeds, At, Key
  <2> QED
    BY <1>8, <2>1 DEF NodeSucceeds, At
<1>9. ASSUME NEW x \in Execs, NodeFails(x)
      PROVE  TypeOK' /\ PhaseOK'
  BY <1>9 DEF NodeFails, At
<1>10. ASSUME NEW x \in Execs, LogOutcome(x)
      PROVE  TypeOK' /\ PhaseOK'
  <2>1. Key(x) \in Nodes \X Attempts
    BY <1>10, KeyInRange DEF LogOutcome, At
  <2>2. ASSUME NEW s \in {"success", "failed"}, LogAttempt(Key(x), s)
        PROVE  nodeRun' \in [Nodes \X Attempts -> {"none", "running", "success", "failed"}]
    BY <2>1, <2>2 DEF LogAttempt
  <2>3. PhaseOK'
    BY <1>10 DEF LogOutcome, At
  <2> QED
    BY <1>10, <2>2, <2>3, ZenonT(60) DEF LogOutcome, At, LogAttempt
<1>11. ASSUME NEW x \in Execs, SettleOk(x)
      PROVE  TypeOK' /\ PhaseOK'
  <2>1. Key(x) \in Nodes \X Attempts
    BY <1>11, KeyInRange DEF SettleOk, At
  <2>2. attempt' \in [Nodes \X Attempts -> AttemptRow]
    BY <1>11, <2>1, <1>0, RowOperations DEF SettleOk
  <2>3. epc' \in [Execs -> ExecPC] /\ want' \in [Execs -> {"none"} \cup TerminalRun]
    BY <1>11 DEF SettleOk, At, MayWrite
  <2>4. cur' \in [Execs -> 1..(Len(Pipeline) + 1)] /\ att' \in [Execs -> Attempts]
    BY <1>11 DEF SettleOk, At, Attempts
  <2>5. PhaseOK'
    BY <1>11 DEF SettleOk, At
  <2> QED
    BY <1>11, <2>2, <2>3, <2>4, <2>5 DEF SettleOk, AttemptRow
<1>12. ASSUME NEW x \in Execs, SettleBad(x)
      PROVE  TypeOK' /\ PhaseOK'
  <2>1. Key(x) \in Nodes \X Attempts
    BY <1>12, KeyInRange DEF SettleBad, At
  <2>2. attempt' \in [Nodes \X Attempts -> AttemptRow]
    BY <1>12, <2>1, <1>0, RowOperations DEF SettleBad
  <2>3. CASE At(x, "settleBad", "backoff") /\ att[x] < MaxRetries /\ UNCHANGED want
    BY <1>12, <2>2, <2>3 DEF SettleBad, At, AttemptRow
  <2>4. ASSUME NEW s \in TerminalRun, At(x, "settleBad", "write"), want' = [want EXCEPT ![x] = s]
        PROVE  TypeOK' /\ PhaseOK'
    BY <1>12, <2>2, <2>4 DEF SettleBad, At, AttemptRow
  <2> QED
    BY <1>12, <2>3, <2>4 DEF SettleBad, MayWrite
<1>13. ASSUME NEW x \in Execs, Retry(x)
      PROVE  TypeOK' /\ PhaseOK'
  <2>1. CASE At(x, "backoff", "attempt") /\ att' = [att EXCEPT ![x] = @ + 1] /\ UNCHANGED want
    <3>1. att[x] \in Attempts /\ att[x] < MaxRetries
      BY <2>1 DEF At
    <3>2. att[x] + 1 \in Attempts
      BY <3>1 DEF Attempts
    <3> QED
      BY <1>13, <2>1, <3>2 DEF Retry, At
  <2>2. CASE At(x, "backoff", "write") /\ want' = [want EXCEPT ![x] = "cancelled"] /\ UNCHANGED att
    BY <1>13, <2>2 DEF Retry, At
  <2> QED
    BY <1>13, <2>1, <2>2 DEF Retry
<1>14. ASSUME NEW x \in Execs, WriteResult(x)
      PROVE  TypeOK' /\ PhaseOK'
  BY <1>14 DEF WriteResult, At, RunStatus
<1>15. ASSUME NEW x \in Execs, LogResult(x)
      PROVE  TypeOK' /\ PhaseOK'
  <2>1. want[x] \in TerminalRun /\ 0 \in Attempts /\ 1 \in 1..(Len(Pipeline) + 1)
    BY <1>15 DEF LogResult, Attempts
  <2> QED
    BY <1>15, <2>1 DEF LogResult, LogRun, EndExecs, RunStatus
<1>16. ASSUME NEW p \in Sweepers, BeginSweep(p)
      PROVE  TypeOK' /\ PhaseOK'
  BY <1>16 DEF BeginSweep, SweepAt
<1>17. ASSUME NEW p \in Sweepers, Reconcile(p)
      PROVE  TypeOK' /\ PhaseOK'
  <2>1. attempt' \in [Nodes \X Attempts -> AttemptRow]
    <3>1. CASE UNCHANGED attempt
      BY <1>0, <3>1
    <3>2. CASE attempt' = [k \in DOMAIN attempt |->
                   IF Unsettled(attempt[k]) THEN Settled(attempt[k], "failed") ELSE attempt[k]]
      BY <1>0, <3>2, RowOperations
    <3> QED
      BY <1>17, <3>1, <3>2 DEF Reconcile
  <2>2. CASE EndSweeps({p})
    BY <1>17, <2>1, <2>2 DEF Reconcile, EndSweeps, AttemptRow
  <2>3. CASE SweepAt(p, "reconcile", "decide") /\ UNCHANGED <<rwhy, rcancel, rclose>>
    BY <1>17, <2>1, <2>3 DEF Reconcile, SweepAt, AttemptRow
  <2> QED
    BY <1>17, <2>2, <2>3 DEF Reconcile
<1>18. ASSUME NEW p \in Sweepers, Decide(p)
      PROVE  TypeOK' /\ PhaseOK'
  <2>1. CASE EndSweeps({p})
    BY <1>18, <2>1 DEF Decide, EndSweeps
  <2>2. ASSUME NEW w \in TerminalRun, SweepAt(p, "decide", "sync"), rwhy' = [rwhy EXCEPT ![p] = w],
               UNCHANGED <<rcancel, rclose>>
        PROVE  TypeOK' /\ PhaseOK'
    BY <1>18, <2>2 DEF Decide, SweepAt
  <2>3. ASSUME NEW w \in {"success", "failed", "requeue", "giveUp"}, SweepAt(p, "decide", "write"),
               rwhy' = [rwhy EXCEPT ![p] = w], UNCHANGED <<rcancel, rclose>>
        PROVE  TypeOK' /\ PhaseOK'
    BY <1>18, <2>3 DEF Decide, SweepAt
  <2>4. ASSUME NEW n \in Stuck, SweepAt(p, "decide", "close"), rwhy' = [rwhy EXCEPT ![p] = "giveUp"],
               rclose' = [rclose EXCEPT ![p] = {<<n, LatestAttempt(n)>>}], UNCHANGED rcancel
        PROVE  TypeOK' /\ PhaseOK'
    <3>1. n \in Nodes /\ LatestAttempt(n) \in Attempts
      BY <2>4, LatestIsRecorded DEF Stuck, LatestOutcome, Recorded
    <3>2. rclose' \in [Sweepers -> SUBSET (Nodes \X Attempts)]
      BY <2>4, <3>1
    <3>3. PhaseOK'
      BY <1>18, <2>4 DEF Decide, SweepAt
    <3>4. /\ rpc' \in [Sweepers -> {"idle", "reconcile", "decide", "sync", "close", "write", "log"}]
          /\ rwhy' \in [Sweepers -> Verdict] /\ rcancel' \in [Sweepers -> BOOLEAN]
      BY <2>4 DEF SweepAt
    <3>5. UNCHANGED <<status, cancelReq, young, attempt, log, exec, history>>
      BY <1>18 DEF Decide
    <3> HIDE DEF PhaseOK
    <3> QED
      BY <3>2, <3>3, <3>4, <3>5
  <2>5. CASE IsTerminalRun(projStatus)
    <3>1. EndSweeps({p}) \/
          (/\ SweepAt(p, "decide", "sync") /\ rwhy' = [rwhy EXCEPT ![p] = projStatus]
           /\ UNCHANGED <<rcancel, rclose>>)
      BY <1>18, <2>5 DEF Decide, IsTerminalRun
    <3> QED
      BY <2>1, <2>2, <2>5, <3>1 DEF IsTerminalRun
  <2>6. CASE ~IsTerminalRun(projStatus)
    BY <1>18, <2>1, <2>3, <2>4, <2>6 DEF Decide
  <2> QED
    BY <2>5, <2>6
<1>19. ASSUME NEW p \in Sweepers, CannotResolve(p)
      PROVE  TypeOK' /\ PhaseOK'
  BY <1>19 DEF CannotResolve, SweepAt
<1>20. ASSUME NEW p \in Sweepers, WriteSynced(p)
      PROVE  TypeOK' /\ PhaseOK'
  BY <1>20, ZenonT(60) DEF WriteSynced, EndSweeps, RunStatus
<1>21. ASSUME NEW p \in Sweepers, WriteVerdict(p)
      PROVE  TypeOK' /\ PhaseOK'
  BY <1>21 DEF WriteVerdict, SweepAt, GiveUpStatus, RunStatus
<1>22. ASSUME NEW p \in Sweepers, LogFinalized(p)
      PROVE  TypeOK' /\ PhaseOK'
  BY <1>22, ZenonT(60) DEF LogFinalized, Logged, EndSweeps, LogRun, RunStatus
<1>23. ASSUME NEW p \in Sweepers, LogGivenUp(p)
      PROVE  TypeOK' /\ PhaseOK'
  BY <1>23, ZenonT(60) DEF LogGivenUp, Logged, EndSweeps, GiveUpStatus, RunStatus
<1>24. ASSUME NEW p \in Sweepers, LogRequeued(p)
      PROVE  TypeOK' /\ PhaseOK'
  <2>1. requeues' \in Nat /\ projStatus' \in RunStatus
    BY <1>24 DEF LogRequeued, RunStatus
  <2> QED
    BY <1>24, <2>1 DEF LogRequeued, Logged, EndSweeps
<1>25. CASE Quiet
  BY <1>25 DEF Quiet, log
<1>26. CASE Age
  BY <1>26 DEF Age, log
<1>27. CASE RequestCancel
  BY <1>27 DEF RequestCancel, log
<1>28. CASE CancelPending
  BY <1>28 DEF CancelPending, LogRun, RunStatus
<1>29. ASSUME NEW k \in Nodes \X Attempts, LeaseExpires(k)
      PROVE  TypeOK' /\ PhaseOK'
  <2>1. attempt' \in [Nodes \X Attempts -> AttemptRow]
    BY <1>29, <1>0, RowOperations DEF LeaseExpires
  <2> QED
    BY <1>29, <2>1 DEF LeaseExpires, AttemptRow
<1>30. ASSUME NEW p \in Procs, Crash(p)
      PROVE  TypeOK' /\ PhaseOK'
  <2>1. /\ crashes' \in 0..MaxCrashes /\ 0 \in Attempts /\ 1 \in 1..(Len(Pipeline) + 1)
    BY <1>30 DEF Crash, Attempts
  <2>2. PhaseOK'
    BY <1>30 DEF Crash, EndExecs, EndSweeps
  <2> QED
    BY <1>30, <2>1, <2>2 DEF Crash, EndExecs, EndSweeps
<1>31. CASE UNCHANGED vars
  BY <1>31 DEF vars
<1>32. ASSUME NEW p \in Sweepers, CloseDangling(p)
      PROVE  TypeOK' /\ PhaseOK'
  <2>1. PICK k \in rclose[p] : nodeRun' = [nodeRun EXCEPT ![k] = "failed"]
    BY <1>32 DEF CloseDangling, LogAttempt
  <2>2. nodeRun' \in [Nodes \X Attempts -> {"none", "running", "success", "failed"}]
    BY <2>1
  <2>3. recent' \in BOOLEAN /\ UNCHANGED <<projStatus, requeues>>
    BY <1>32 DEF CloseDangling, LogAttempt
  <2> QED
    BY <1>32, <2>2, <2>3 DEF CloseDangling, SweepAt
<1> QED
  BY <1>1, <1>2, <1>3, <1>4, <1>5, <1>6, <1>7, <1>8, <1>9, <1>10, <1>11, <1>12, <1>13, <1>14, <1>15,
     <1>16, <1>17, <1>18, <1>19, <1>20, <1>21, <1>22, <1>23, <1>24, <1>25, <1>26, <1>27, <1>28, <1>29, <1>30, <1>31, <1>32
     DEF Next, ExecStep, SweepStep, TimePasses
-----------------------------------------------------------------------------
(* Success is true                                                         *)

(* No step says that something succeeded that has not. An execution is at  *)
(* the end of the pipeline only when every node before it was run to       *)
(* success; recovery calls the run a success from the latest outcomes, or  *)
(* from the projected status that such an execution logged.                *)
LEMMA SuccessStep ==
    ASSUME TypeOK, PhaseOK, SuccessInv, [Next]_vars
    PROVE  SuccessInv'
<1> USE RecoveryAssumption DEF TypeOK, SuccessInv, log, exec, sweep, history
<1>1. ASSUME NEW x \in Execs, Claim(x) \/ LogClaimed(x) \/ BeginExecute(x) \/ NodeFails(x)
      PROVE  SuccessInv'
  BY <1>1 DEF Claim, LogClaimed, BeginExecute, NodeFails, At, LogRun
<1>2. ASSUME NEW x \in Execs, ClaimNode(x) \/ ClaimNodeRefused(x) \/ SettleBad(x) \/ Retry(x)
      PROVE  SuccessInv'
  BY <1>2 DEF ClaimNode, ClaimNodeRefused, SettleBad, Retry, At, MayWrite
<1>3. ASSUME NEW x \in Execs, Wave(x)
      PROVE  SuccessInv'
  <2>1. cur[x] > Len(Pipeline) => finished = Nodes
    <3>1. Len(Pipeline) \in Nat /\ cur[x] \in Nat
      OBVIOUS
    <3>2. cur[x] > Len(Pipeline) => \A i \in 1..Len(Pipeline) : Pipeline[i] \in finished
      BY <3>1
    <3>3. cur[x] > Len(Pipeline) => Nodes \subseteq finished
      BY <3>2 DEF Nodes
    <3> QED
      BY <3>3
  <2> QED
    BY <1>3, <2>1 DEF Wave, At
<1>4. ASSUME NEW x \in Execs, StartNode(x)
      PROVE  SuccessInv'
  BY <1>4 DEF StartNode, At, LogAttempt
<1>5. ASSUME NEW x \in Execs, NodeSucceeds(x)
      PROVE  SuccessInv'
  <2>1. Pipeline[cur[x]] \in Nodes
    BY <1>5, KeyInRange DEF NodeSucceeds, At, AtNode, Key
  <2> QED
    BY <1>5, <2>1 DEF NodeSucceeds, At
<1>6. ASSUME NEW x \in Execs, LogOutcome(x)
      PROVE  SuccessInv'
  <2>1. Key(x) \in Nodes \X Attempts
    BY <1>6, KeyInRange DEF LogOutcome, At, AtNode
  <2>2. \A n \in Nodes, a \in Attempts : nodeRun'[<<n, a>>] = "success" => n \in finished
    <3>1. CASE At(x, "ok", "settleOk") /\ LogAttempt(Key(x), "success")
      <4>1. Pipeline[cur[x]] \in finished
        BY <3>1 DEF At
      <4>2. nodeRun' = [nodeRun EXCEPT ![<<Pipeline[cur[x]], att[x]>>] = "success"]
        BY <3>1 DEF LogAttempt, Key
      <4> QED
        BY <4>1, <4>2
    <3>2. CASE LogAttempt(Key(x), "failed")
      BY <3>2 DEF LogAttempt
    <3> QED
      BY <1>6, <3>1, <3>2 DEF LogOutcome
  <2> QED
    BY <1>6, <2>2 DEF LogOutcome, At, LogAttempt
<1>7. ASSUME NEW x \in Execs, SettleOk(x)
      PROVE  SuccessInv'
  BY <1>7 DEF SettleOk, At
<1>8. ASSUME NEW x \in Execs, WriteResult(x) \/ LogResult(x)
      PROVE  SuccessInv'
  BY <1>8 DEF WriteResult, LogResult, At, LogRun, EndExecs
<1>9. ASSUME NEW p \in Sweepers, BeginSweep(p) \/ Reconcile(p) \/ CannotResolve(p)
      PROVE  SuccessInv'
  <2>1. CASE BeginSweep(p)
    BY <2>1 DEF BeginSweep, EndSweeps
  <2>2. CASE Reconcile(p)
    BY <2>2, ZenonT(60) DEF Reconcile, SweepAt, EndSweeps
  <2>3. CASE CannotResolve(p)
    BY <2>3 DEF CannotResolve, SweepAt, EndSweeps
  <2> QED
    BY <1>9, <2>1, <2>2, <2>3
<1>10. ASSUME NEW p \in Sweepers, Decide(p)
       PROVE  SuccessInv'
  <2>1. AllSuccess => finished = Nodes
    <3>1. ASSUME AllSuccess, NEW n \in Nodes
          PROVE  n \in finished
      <4>1. LatestOutcome(n) = "success"
        BY <3>1 DEF AllSuccess
      <4>2. \E a \in Attempts : nodeRun[<<n, a>>] = "success"
        BY <4>1, OutcomeIsOfAnAttempt
      <4> QED
        BY <4>2
    <3> QED
      BY <3>1
  <2>2. \A q \in Sweepers : rwhy'[q] = "success" => finished = Nodes
    BY <1>10, <2>1, ZenonT(60) DEF Decide, EndSweeps, IsTerminalRun
  <2> QED
    BY <1>10, <2>2 DEF Decide
<1>11. ASSUME NEW p \in Sweepers, WriteSynced(p) \/ WriteVerdict(p)
       PROVE  SuccessInv'
  BY <1>11 DEF WriteSynced, WriteVerdict, EndSweeps, GiveUpStatus
<1>12. ASSUME NEW p \in Sweepers, LogFinalized(p) \/ LogRequeued(p)
       PROVE  SuccessInv'
  BY <1>12, ZenonT(60) DEF LogFinalized, LogRequeued, Logged, EndSweeps, LogRun
<1>13. ASSUME NEW p \in Sweepers, LogGivenUp(p)
       PROVE  SuccessInv'
  BY <1>13 DEF LogGivenUp, Logged, EndSweeps, GiveUpStatus
<1>14. CASE TimePasses \/ RequestCancel \/ CancelPending \/ UNCHANGED vars
  BY <1>14 DEF TimePasses, Quiet, Age, LeaseExpires, RequestCancel, CancelPending, LogRun, vars
<1>15. ASSUME NEW p \in Procs, Crash(p)
       PROVE  SuccessInv'
  BY <1>15 DEF Crash, EndExecs, EndSweeps
<1>16. ASSUME NEW p \in Sweepers, CloseDangling(p)
       PROVE  SuccessInv'
  <2>1. PICK k \in rclose[p] : nodeRun' = [nodeRun EXCEPT ![k] = "failed"]
    BY <1>16 DEF CloseDangling, LogAttempt
  <2>2. \A n \in Nodes, a \in Attempts : nodeRun'[<<n, a>>] = "success" => nodeRun[<<n, a>>] = "success"
    BY <2>1
  <2> QED
    BY <1>16, <2>2 DEF CloseDangling, LogAttempt
<1> QED
  BY <1>1, <1>2, <1>3, <1>4, <1>5, <1>6, <1>7, <1>8, <1>9, <1>10, <1>11, <1>12, <1>13, <1>14, <1>15,
     <1>16 DEF Next, ExecStep, SweepStep
-----------------------------------------------------------------------------
(* The rows of attempts                                                    *)

(* A row that is held can be settled by its holder alone, and nobody else  *)
(* can claim it: CreateAttempt leaves it as it is, and the claim's guard   *)
(* wants a lease that has expired or a row nobody has.                     *)
LEMMA HeldRow ==
    ASSUME NEW r, NEW g, RowIsHeld(r, g)
    PROVE  /\ ~CanClaim(CreateAttempt(r), Now)
           /\ Unsettled(r) /\ r.lease > Now /\ r.gen = g
           /\ CanSettle(r, g) /\ ~IsTerminalAttempt(r)
  BY DEF RowIsHeld, CanClaim, CreateAttempt, Now, LeaseTerm, Unsettled, IsTerminalAttempt, TerminalAttempt,
         NoLease, CanSettle

(* No step takes the row of an attempt from the execution that is busy     *)
(* with it, and none gives it to a second one.                             *)
LEMMA RowsStep ==
    ASSUME TypeOK, PhaseOK, RowsOK, [Next]_vars
    PROVE  RowsOK'
<1> USE DEF log, exec, sweep, history
<1>0. \A x \in Execs : epc[x] \in AtNode => Key(x) \in Nodes \X Attempts
  BY KeyInRange
<1>1. /\ epc \in [Execs -> ExecPC] /\ cur \in [Execs -> 1..(Len(Pipeline) + 1)]
      /\ att \in [Execs -> Attempts] /\ gen \in [Execs -> Nat]
      /\ attempt \in [Nodes \X Attempts -> AttemptRow] /\ DOMAIN attempt = Nodes \X Attempts
  BY DEF TypeOK, AttemptRow
<1>2. ASSUME NEW x \in Execs, UNCHANGED attempt,
             \A y \in Execs \ {x} : epc'[y] = epc[y] /\ Key(y)' = Key(y) /\ gen'[y] = gen[y],
             epc'[x] \in Holding => epc[x] \in Holding /\ Key(x)' = Key(x) /\ gen'[x] = gen[x]
      PROVE  RowsOK'
  BY <1>2 DEF RowsOK
<1>3. ASSUME NEW x \in Execs,
             \/ Claim(x) \/ LogClaimed(x) \/ BeginExecute(x) \/ Wave(x) \/ ClaimNodeRefused(x)
             \/ Retry(x) \/ WriteResult(x) \/ LogResult(x)
      PROVE  RowsOK'
  <2>1. /\ UNCHANGED attempt
        /\ \A y \in Execs \ {x} : epc'[y] = epc[y] /\ Key(y)' = Key(y) /\ gen'[y] = gen[y]
        /\ epc'[x] \notin Holding
    BY <1>1, <1>3 DEF Claim, LogClaimed, BeginExecute, Wave, ClaimNodeRefused, Retry, WriteResult, LogResult,
       EndExecs, At, Holding, Key
  <2> QED
    BY <1>2, <2>1
<1>4. ASSUME NEW x \in Execs, NodeSucceeds(x) \/ NodeFails(x) \/ LogOutcome(x)
      PROVE  RowsOK'
  <2>1. /\ UNCHANGED <<attempt, gen, cur, att>>
        /\ \A y \in Execs \ {x} : epc'[y] = epc[y]
        /\ epc[x] \in Holding
    BY <1>1, <1>4 DEF NodeSucceeds, NodeFails, LogOutcome, At, Holding
  <2> QED
    BY <1>2, <2>1 DEF Key
<1>5. ASSUME NEW x \in Execs, ClaimNode(x)
      PROVE  RowsOK'
  <2>1. \A y \in Execs : epc[y] \in Holding => Key(y) # Key(x)
    BY <1>5, HeldRow DEF ClaimNode, RowsOK
  <2>2. /\ epc' = [epc EXCEPT ![x] = "created"] /\ \A y \in Execs : Key(y)' = Key(y)
        /\ gen' = [gen EXCEPT ![x] = CreateAttempt(attempt[Key(x)]).gen + 1]
        /\ attempt' = [attempt EXCEPT ![Key(x)] =
                            Claimed(CreateAttempt(attempt[Key(x)]), ProcOf[x], Now, LeaseTerm)]
    BY <1>5 DEF ClaimNode, At, Key
  <2>3. Key(x) \in Nodes \X Attempts
    BY <1>0, <1>5 DEF ClaimNode, At, AtNode
  <2>4. RowIsHeld(attempt'[Key(x)], gen'[x])
    BY <1>1, <2>2, <2>3 DEF Claimed, RowIsHeld
  <2>5. \A y \in Execs \ {x} : epc[y] \in Holding => attempt'[Key(y)] = attempt[Key(y)] /\ gen'[y] = gen[y]
    BY <1>0, <1>1, <2>1, <2>2 DEF Holding, AtNode
  <2> QED
    BY <1>1, <2>1, <2>2, <2>4, <2>5 DEF RowsOK
<1>6. ASSUME NEW x \in Execs, StartNode(x)
      PROVE  RowsOK'
  <2>1. Key(x) \in Nodes \X Attempts /\ epc[x] \in Holding /\ epc' = [epc EXCEPT ![x] = "run"]
    BY <1>0, <1>6 DEF StartNode, At, AtNode, Holding
  <2>2. /\ UNCHANGED gen /\ \A y \in Execs : Key(y)' = Key(y)
        /\ attempt' = [attempt EXCEPT ![Key(x)] = Acked(@)]
    BY <1>6 DEF StartNode, Key
  <2>3. RowIsHeld(attempt'[Key(x)], gen[x])
    <3>1. attempt[Key(x)] \in AttemptRow /\ RowIsHeld(attempt[Key(x)], gen[x])
      BY <1>1, <2>1 DEF RowsOK
    <3> QED
      BY <1>1, <2>1, <2>2, <3>1 DEF RowIsHeld, Acked, AttemptRow
  <2>4. \A y \in Execs \ {x} : epc[y] \in Holding => attempt'[Key(y)] = attempt[Key(y)]
    BY <1>0, <1>1, <2>1, <2>2 DEF Holding, AtNode, RowsOK
  <2> QED
    BY <1>1, <2>1, <2>2, <2>3, <2>4 DEF RowsOK, Holding
<1>7. ASSUME NEW x \in Execs, SettleOk(x) \/ SettleBad(x)
      PROVE  RowsOK'
  <2>1. /\ epc[x] \in Holding /\ \E to \in {"wave", "backoff", "write"} : epc' = [epc EXCEPT ![x] = to]
        /\ UNCHANGED gen /\ \A y \in Execs \ {x} : Key(y)' = Key(y)
    BY <1>1, <1>7 DEF SettleOk, SettleBad, At, Holding, Key
  <2>2. \A y \in Execs \ {x} : epc[y] \in Holding => attempt'[Key(y)] = attempt[Key(y)]
    BY <1>0, <1>1, <1>7, <2>1 DEF Holding, AtNode, RowsOK, SettleOk, SettleBad
  <2> QED
    BY <1>1, <2>1, <2>2 DEF RowsOK, Holding
<1>8. ASSUME NEW p \in Sweepers, Reconcile(p)
      PROVE  RowsOK'
  <2>1. CASE UNCHANGED attempt
    BY <1>8, <2>1 DEF Reconcile, RowsOK, Key
  <2>2. CASE ~\E k \in DOMAIN attempt : Unsettled(attempt[k]) /\ attempt[k].lease > Now
    <3>1. \A x \in Execs : epc[x] \notin Holding
      BY <1>0, <1>1, <2>2, HeldRow DEF RowsOK, Holding, AtNode
    <3> QED
      BY <1>8, <3>1 DEF Reconcile, RowsOK
  <2> QED
    BY <1>8, <2>1, <2>2 DEF Reconcile
<1>9. ASSUME NEW k \in Nodes \X Attempts, LeaseExpires(k)
      PROVE  RowsOK'
  <2>1. \A x \in Execs : epc[x] \in Holding => Key(x) # k
    BY <1>9 DEF LeaseExpires, RowsOK, RowIsHeld, Holding
  <2> QED
    BY <1>0, <1>1, <1>9, <2>1 DEF LeaseExpires, RowsOK, Holding, AtNode, Key
<1>10. ASSUME NEW p \in Sweepers,
              \/ BeginSweep(p) \/ Decide(p) \/ CannotResolve(p) \/ WriteSynced(p) \/ WriteVerdict(p)
              \/ CloseDangling(p) \/ LogFinalized(p) \/ LogGivenUp(p) \/ LogRequeued(p)
       PROVE  RowsOK'
  BY <1>10 DEF BeginSweep, Decide, CannotResolve, WriteSynced, CloseDangling, WriteVerdict, LogFinalized, LogGivenUp,
     LogRequeued, Logged, RowsOK, Key
<1>11. CASE Quiet \/ Age \/ RequestCancel \/ CancelPending \/ UNCHANGED vars
  BY <1>11 DEF Quiet, Age, RequestCancel, CancelPending, vars, RowsOK, Key
<1>12. ASSUME NEW p \in Procs, Crash(p)
       PROVE  RowsOK'
  BY <1>1, <1>12 DEF Crash, EndExecs, RowsOK, Holding, Key
<1> QED
  BY <1>2, <1>3, <1>4, <1>5, <1>6, <1>7, <1>8, <1>9, <1>10, <1>11, <1>12 DEF Next, ExecStep, SweepStep, TimePasses
-----------------------------------------------------------------------------
(* What a step does not take back                                          *)

(* A settled attempt is never opened again, whoever is delivered the run.  *)
LEMMA SettledStays ==
    ASSUME TypeOK, PhaseOK, RowsOK, [Next]_vars,
           NEW k \in Nodes \X Attempts, IsTerminalAttempt(attempt[k])
    PROVE  IsTerminalAttempt(attempt'[k])
<1> USE DEF log, exec, sweep, history
<1>1. attempt \in [Nodes \X Attempts -> AttemptRow] /\ attempt[k] \in AttemptRow
  BY DEF TypeOK, AttemptRow
<1>2. ASSUME NEW x \in Execs, ClaimNode(x)
      PROVE  UNCHANGED attempt[k]
  <2>1. Key(x) # k
    BY <1>2 DEF ClaimNode, CanClaim, CreateAttempt, IsTerminalAttempt, TerminalAttempt
  <2> QED
    BY <1>1, <1>2, <2>1 DEF ClaimNode
<1>3. ASSUME NEW x \in Execs, StartNode(x)
      PROVE  UNCHANGED attempt[k]
  <2>1. Key(x) # k
    BY <1>3 DEF StartNode, HoldsLease, IsTerminalAttempt, TerminalAttempt
  <2> QED
    BY <1>1, <1>3, <2>1 DEF StartNode
<1>4. ASSUME NEW x \in Execs, SettleOk(x) \/ SettleBad(x)
      PROVE  UNCHANGED attempt[k]
  <2>1. \A g, to : Settle(attempt[k], g, to) = attempt[k]
    BY DEF Settle, CanSettle, IsTerminalAttempt
  <2> QED
    BY <1>1, <1>4, <2>1 DEF SettleOk, SettleBad
<1>5. ASSUME NEW p \in Sweepers, Reconcile(p)
      PROVE  UNCHANGED attempt[k]
  BY <1>1, <1>5 DEF Reconcile, Unsettled
<1>6. ASSUME NEW l \in Nodes \X Attempts, LeaseExpires(l)
      PROVE  UNCHANGED attempt[k]
  BY <1>1, <1>6 DEF LeaseExpires
<1>7. ASSUME NEW x \in Execs,
             \/ Claim(x) \/ LogClaimed(x) \/ BeginExecute(x) \/ Wave(x) \/ ClaimNodeRefused(x)
             \/ NodeSucceeds(x) \/ NodeFails(x) \/ LogOutcome(x)
             \/ Retry(x) \/ WriteResult(x) \/ LogResult(x)
      PROVE  UNCHANGED attempt[k]
  BY <1>7 DEF Claim, LogClaimed, BeginExecute, Wave, ClaimNodeRefused, NodeSucceeds, NodeFails, LogOutcome,
     Retry, WriteResult, LogResult
<1>8. ASSUME NEW p \in Sweepers,
             \/ BeginSweep(p) \/ Decide(p) \/ CannotResolve(p) \/ WriteSynced(p) \/ WriteVerdict(p)
             \/ CloseDangling(p) \/ LogFinalized(p) \/ LogGivenUp(p) \/ LogRequeued(p)
      PROVE  UNCHANGED attempt[k]
  BY <1>8 DEF BeginSweep, Decide, CannotResolve, WriteSynced, CloseDangling, WriteVerdict, LogFinalized, LogGivenUp,
     LogRequeued, Logged
<1>9. ASSUME Quiet \/ Age \/ RequestCancel \/ CancelPending \/ (\E p \in Procs : Crash(p)) \/ UNCHANGED vars
      PROVE  UNCHANGED attempt[k]
  BY <1>9 DEF Quiet, Age, RequestCancel, CancelPending, Crash, vars
<1> QED
  BY <1>2, <1>3, <1>4, <1>5, <1>6, <1>7, <1>8, <1>9 DEF Next, ExecStep, SweepStep, TimePasses

(* Only the start of a node adds to what was started, the dead stay dead,  *)
(* and an execution becomes a Runner of the run only by claiming it.       *)
LEMMA OnlyStartsHandle ==
    ASSUME TypeOK, [Next]_vars
    PROVE  /\ UNCHANGED handled \/ \E x \in Execs : StartNode(x)
           /\ \A x \in Execs : epc[x] = "dead" => epc'[x] = "dead"
           /\ \A x \in Execs : LiveRunner(x)' => LiveRunner(x) \/ Claim(x)
<1> USE DEF log, exec, sweep, history
<1>1. epc \in [Execs -> ExecPC]
  BY DEF TypeOK
<1>2. ASSUME NEW x \in Execs,
             \/ LogClaimed(x) \/ BeginExecute(x) \/ Wave(x) \/ ClaimNode(x) \/ ClaimNodeRefused(x)
             \/ NodeSucceeds(x) \/ NodeFails(x) \/ LogOutcome(x)
             \/ SettleOk(x) \/ SettleBad(x) \/ Retry(x) \/ WriteResult(x)
      PROVE  /\ UNCHANGED handled
             /\ LiveRunner(x) /\ \E to \in ExecPC \ {"idle"} : epc' = [epc EXCEPT ![x] = to]
  BY <1>1, <1>2 DEF LogClaimed, BeginExecute, Wave, ClaimNode, ClaimNodeRefused, NodeSucceeds, NodeFails,
     LogOutcome, SettleOk, SettleBad, Retry, WriteResult, At, LiveRunner, ExecPC
<1>3. ASSUME NEW x \in Execs, StartNode(x)
      PROVE  LiveRunner(x) /\ \E to \in ExecPC \ {"idle"} : epc' = [epc EXCEPT ![x] = to]
  BY <1>1, <1>3 DEF StartNode, At, LiveRunner, ExecPC
<1>4. ASSUME NEW x \in Execs, LiveRunner(x), \E to \in ExecPC \ {"idle"} : epc' = [epc EXCEPT ![x] = to]
      PROVE  /\ \A y \in Execs : epc[y] = "dead" => epc'[y] = "dead"
             /\ \A y \in Execs : LiveRunner(y)' => LiveRunner(y)
  BY <1>1, <1>4 DEF LiveRunner
<1>5. ASSUME NEW x \in Execs, Claim(x)
      PROVE  /\ UNCHANGED handled
             /\ \A y \in Execs : epc[y] = "dead" => epc'[y] = "dead"
             /\ \A y \in Execs : LiveRunner(y)' => LiveRunner(y) \/ y = x
  BY <1>1, <1>5 DEF Claim, At, LiveRunner
<1>6. ASSUME NEW x \in Execs, LogResult(x)
      PROVE  /\ UNCHANGED handled
             /\ \A y \in Execs : epc[y] = "dead" => epc'[y] = "dead"
             /\ \A y \in Execs : LiveRunner(y)' => LiveRunner(y)
  BY <1>1, <1>6 DEF LogResult, EndExecs, LiveRunner
<1>7. ASSUME NEW p \in Procs, Crash(p)
      PROVE  /\ UNCHANGED handled
             /\ \A y \in Execs : epc[y] = "dead" => epc'[y] = "dead"
             /\ \A y \in Execs : LiveRunner(y)' => LiveRunner(y)
  BY <1>1, <1>7 DEF Crash, EndExecs, LiveRunner
<1>8. ASSUME NEW p \in Sweepers, SweepStep(p)
      PROVE  UNCHANGED <<handled, epc>>
  BY <1>8 DEF SweepStep, BeginSweep, Reconcile, Decide, CannotResolve, WriteSynced, CloseDangling, WriteVerdict,
     LogFinalized, LogGivenUp, LogRequeued, Logged
<1>9. ASSUME TimePasses \/ RequestCancel \/ CancelPending \/ UNCHANGED vars
      PROVE  UNCHANGED <<handled, epc>>
  BY <1>9 DEF TimePasses, Quiet, Age, LeaseExpires, RequestCancel, CancelPending, vars
<1>10. CASE \E x \in Execs : ExecStep(x)
  BY <1>2, <1>3, <1>4, <1>5, <1>6, <1>10 DEF ExecStep
<1>11. CASE UNCHANGED <<handled, epc>>
  BY <1>11 DEF LiveRunner
<1> QED
  BY <1>7, <1>8, <1>9, <1>10, <1>11 DEF Next
-----------------------------------------------------------------------------
(* Who has started a node                                                  *)

(* A living execution that started a node has settled the first attempt of *)
(* it or holds it, after every step.                                       *)
LEMMA StartsStep ==
    ASSUME TypeOK, PhaseOK, RowsOK, StartsOK, [Next]_vars
    PROVE  StartsOK'
<1> USE DEF log, exec, sweep, history
<1>0. /\ epc \in [Execs -> ExecPC] /\ cur \in [Execs -> 1..(Len(Pipeline) + 1)]
      /\ att \in [Execs -> Attempts] /\ 0 \in Attempts /\ Attempts \subseteq Nat
      /\ attempt \in [Nodes \X Attempts -> AttemptRow]
  BY RecoveryAssumption DEF TypeOK, AttemptRow, Attempts
<1>1. \A n \in Nodes : IsTerminalAttempt(attempt[<<n, 0>>]) => IsTerminalAttempt(attempt'[<<n, 0>>])
  BY <1>0, SettledStays
<1> DEFINE Phase(x) ==
        /\ epc[x] \in Started => <<Pipeline[cur[x]], x>> \in handled
        /\ epc[x] \in AtNode /\ att[x] > 0 => <<Pipeline[cur[x]], x>> \in handled
        /\ epc[x] \in {"idle", "claimed", "slot", "wave"} => att[x] = 0
<1>2. ASSUME NEW x \in Execs, UNCHANGED handled, epc[x] \notin Holding \/ epc[x]' \in Holding,
             \A y \in Execs : epc[y]' # "dead" => epc[y] # "dead",
             \A y \in Execs : y # x \/ epc[y] \in Holding =>
                 epc[y]' = "dead" \/ (Key(y)' = Key(y) /\ (y # x => epc[y]' = epc[y])),
             Phase(x)', \A y \in Execs \ {x} : Phase(y)'
      PROVE  StartsOK'
  BY <1>1, <1>2 DEF StartsOK
<1>3. \A x \in Execs : Phase(x)
  BY DEF StartsOK
<1>4. ASSUME NEW x \in Execs,
             \/ Claim(x) \/ LogClaimed(x) \/ BeginExecute(x) \/ Wave(x) \/ ClaimNode(x) \/ ClaimNodeRefused(x)
             \/ NodeSucceeds(x) \/ NodeFails(x) \/ LogOutcome(x)
             \/ Retry(x) \/ WriteResult(x) \/ LogResult(x)
      PROVE  StartsOK'
  <2>1. /\ UNCHANGED handled
        /\ \A y \in Execs \ {x} : epc'[y] = epc[y] /\ cur'[y] = cur[y] /\ att'[y] = att[y]
        /\ epc[x] # "dead" /\ (epc[x] \in Holding => epc'[x] \in Holding /\ Key(x)' = Key(x))
    BY <1>0, <1>4 DEF Claim, LogClaimed, BeginExecute, Wave, ClaimNode, ClaimNodeRefused, NodeSucceeds, NodeFails,
       LogOutcome, Retry, WriteResult, LogResult, At, EndExecs, Holding, Key
  <2>2. Phase(x)'
    BY <1>0, <1>3, <1>4 DEF Claim, LogClaimed, BeginExecute, Wave, ClaimNode, ClaimNodeRefused, NodeSucceeds, NodeFails,
       LogOutcome, Retry, WriteResult, LogResult, At, EndExecs, AtNode, Started
  <2>3. \A y \in Execs \ {x} : Phase(y)' /\ Key(y)' = Key(y)
    BY <1>3, <2>1 DEF Key
  <2> QED
    BY <1>2, <2>1, <2>2, <2>3
<1>5. ASSUME NEW x \in Execs, StartNode(x)
      PROVE  StartsOK'
  <2>1. /\ handled' = handled \cup {<<Pipeline[cur[x]], x>>}
        /\ epc[x] = "created" /\ epc' = [epc EXCEPT ![x] = "run"]
        /\ \A y \in Execs : Key(y)' = Key(y) /\ cur'[y] = cur[y] /\ att'[y] = att[y]
    BY <1>5 DEF StartNode, At, Key
  <2>2. \A y \in Execs : Phase(y)'
    BY <1>0, <1>3, <2>1 DEF Started, AtNode
  <2>3. ASSUME NEW y \in Execs, NEW n \in Nodes, <<n, y>> \in handled', epc'[y] # "dead"
        PROVE  \/ IsTerminalAttempt(attempt'[<<n, 0>>])
               \/ epc'[y] \in Holding /\ Key(y)' = <<n, 0>>
    <3>1. CASE <<n, y>> \in handled
      BY <1>0, <1>1, <2>1, <2>3, <3>1 DEF StartsOK, Holding
    <3>2. CASE <<n, y>> \notin handled
      <4>1. y = x /\ n = Pipeline[cur[x]]
        BY <2>1, <2>3, <3>2
      <4>2. att[x] = 0
        <5>1. att[x] \in Nat
          BY <1>0
        <5>2. ~(att[x] > 0)
          BY <2>1, <3>2, <4>1 DEF StartsOK, AtNode
        <5> QED
          BY <5>1, <5>2
      <4> QED
        BY <1>0, <2>1, <4>1, <4>2 DEF Key, Holding
    <3> QED
      BY <3>1, <3>2
  <2> QED
    BY <2>2, <2>3 DEF StartsOK
<1>6. ASSUME NEW x \in Execs, SettleOk(x) \/ SettleBad(x)
      PROVE  StartsOK'
  <2>1. /\ UNCHANGED handled
        /\ \A y \in Execs \ {x} : epc'[y] = epc[y] /\ cur'[y] = cur[y] /\ att'[y] = att[y] /\ Key(y)' = Key(y)
        /\ epc[x] \in {"settleOk", "settleBad"}
    BY <1>0, <1>6 DEF SettleOk, SettleBad, At, Key
  <2>2. Phase(x)'
    BY <1>0, <1>3, <1>6 DEF SettleOk, SettleBad, At, AtNode, Started
  <2>3. \A y \in Execs \ {x} : Phase(y)'
    BY <1>3, <2>1
  <2>4. IsTerminalAttempt(attempt'[Key(x)])
    <3>1. Key(x) \in Nodes \X Attempts /\ RowIsHeld(attempt[Key(x)], gen[x])
      BY <2>1, KeyInRange DEF AtNode, Holding, RowsOK
    <3>2. CanSettle(attempt[Key(x)], gen[x]) /\ attempt[Key(x)] \in AttemptRow
      BY <1>0, <3>1, HeldRow
    <3>3. \A to \in TerminalAttempt : IsTerminalAttempt(Settle(attempt[Key(x)], gen[x], to))
      BY <3>2 DEF Settle, Settled, IsTerminalAttempt, AttemptRow
    <3> QED
      BY <1>0, <1>6, <3>1, <3>3 DEF SettleOk, SettleBad, TerminalAttempt
  <2> QED
    BY <1>1, <2>1, <2>2, <2>3, <2>4 DEF StartsOK
<1>7. ASSUME NEW p \in Sweepers, SweepStep(p)
      PROVE  UNCHANGED <<handled, epc, cur, att>>
  BY <1>7 DEF SweepStep, BeginSweep, Reconcile, Decide, CannotResolve, WriteSynced, CloseDangling, WriteVerdict,
     LogFinalized, LogGivenUp, LogRequeued, Logged
<1>8. ASSUME TimePasses \/ RequestCancel \/ CancelPending \/ UNCHANGED vars
      PROVE  UNCHANGED <<handled, epc, cur, att>>
  BY <1>8 DEF TimePasses, Quiet, Age, LeaseExpires, RequestCancel, CancelPending, vars
<1>9. CASE UNCHANGED <<handled, epc, cur, att>>
  BY <1>1, <1>9 DEF StartsOK, Key
<1>10. ASSUME NEW p \in Procs, Crash(p)
       PROVE  StartsOK'
  <2>1. /\ UNCHANGED handled
        /\ \A y \in Execs : \/ epc'[y] = "dead" /\ att'[y] = 0
                            \/ epc'[y] = epc[y] /\ cur'[y] = cur[y] /\ att'[y] = att[y] /\ Key(y)' = Key(y)
    BY <1>0, <1>10 DEF Crash, EndExecs, Key
  <2> QED
    BY <1>1, <2>1 DEF StartsOK, Started, AtNode
<1> QED
  BY <1>4, <1>5, <1>6, <1>7, <1>8, <1>9, <1>10 DEF Next, ExecStep

(* An execution that starts a node holds an attempt of it; another that    *)
(* started the node and lives would hold the first attempt or have settled *)
(* it, and then this one could not have claimed it.                        *)
LEMMA SurvivorStep ==
    ASSUME TypeOK, PhaseOK, RowsOK, StartsOK, OneSurvivor, [Next]_vars
    PROVE  OneSurvivor'
<1>1. ASSUME NEW x \in Execs, StartNode(x), NEW y \in Execs \ {x}, epc[y] # "dead",
             <<Pipeline[cur[x]], y>> \in handled
      PROVE  <<Pipeline[cur[x]], x>> \in handled
  <2>1. /\ epc[x] \in Holding /\ epc[x] \in AtNode /\ Key(x) \in Nodes \X Attempts
        /\ RowIsHeld(attempt[Key(x)], gen[x])
    BY <1>1, KeyInRange DEF StartNode, At, Holding, AtNode, RowsOK
  <2>2. CASE att[x] > 0
    BY <2>1, <2>2 DEF StartsOK
  <2>3. CASE att[x] = 0
    <3>1. Key(x) = <<Pipeline[cur[x]], 0>> /\ ~IsTerminalAttempt(attempt[Key(x)])
      BY <2>1, <2>3, HeldRow DEF Key
    <3>2. epc[y] \in Holding /\ Key(y) = Key(x)
      BY <1>1, <2>1, <3>1 DEF StartsOK, Key
    <3> QED
      BY <2>1, <3>2 DEF RowsOK
  <2> QED
    BY <2>2, <2>3, RecoveryAssumption DEF TypeOK, Attempts
<1>2. CASE UNCHANGED handled
  BY <1>2, OnlyStartsHandle DEF OneSurvivor
<1>3. ASSUME NEW x \in Execs, StartNode(x)
      PROVE  OneSurvivor'
  <2>1. handled' = handled \cup {<<Pipeline[cur[x]], x>>}
    BY <1>3 DEF StartNode
  <2> QED
    BY <1>1, <1>3, <2>1, OnlyStartsHandle DEF OneSurvivor
<1> QED
  BY <1>2, <1>3, OnlyStartsHandle
-----------------------------------------------------------------------------
(* Re-queues                                                               *)

(* The log keeps that an attempt was started.                              *)
LEMMA RecordStays ==
    ASSUME TypeOK, [Next]_vars, NEW k \in Nodes \X Attempts, nodeRun[k] # "none"
    PROVE  nodeRun'[k] # "none"
<1> USE DEF log, exec, sweep, history
<1>1. nodeRun \in [Nodes \X Attempts -> {"none", "running", "success", "failed"}]
  BY DEF TypeOK
<1>2. ASSUME NEW l, NEW s \in {"running", "success", "failed"}, nodeRun' = [nodeRun EXCEPT ![l] = s]
      PROVE  nodeRun'[k] # "none"
  BY <1>1, <1>2
<1>3. ASSUME NEW x \in Execs, StartNode(x) \/ LogOutcome(x)
      PROVE  \E s \in {"running", "success", "failed"} : nodeRun' = [nodeRun EXCEPT ![Key(x)] = s]
  BY <1>3 DEF StartNode, LogOutcome, LogAttempt
<1>4. ASSUME NEW p \in Sweepers, CloseDangling(p)
      PROVE  \E l \in rclose[p] : nodeRun' = [nodeRun EXCEPT ![l] = "failed"]
  BY <1>4 DEF CloseDangling, LogAttempt
<1>5. ASSUME NEW x \in Execs,
             \/ Claim(x) \/ LogClaimed(x) \/ BeginExecute(x) \/ Wave(x) \/ ClaimNode(x) \/ ClaimNodeRefused(x)
             \/ NodeSucceeds(x) \/ NodeFails(x) \/ SettleOk(x) \/ SettleBad(x)
             \/ Retry(x) \/ WriteResult(x) \/ LogResult(x)
      PROVE  UNCHANGED nodeRun
  BY <1>5 DEF Claim, LogClaimed, BeginExecute, Wave, ClaimNode, ClaimNodeRefused, NodeSucceeds, NodeFails,
     SettleOk, SettleBad, Retry, WriteResult, LogResult, LogRun
<1>6. ASSUME NEW p \in Sweepers,
             \/ BeginSweep(p) \/ Reconcile(p) \/ Decide(p) \/ CannotResolve(p) \/ WriteSynced(p)
             \/ WriteVerdict(p) \/ LogFinalized(p) \/ LogGivenUp(p) \/ LogRequeued(p)
      PROVE  UNCHANGED nodeRun
  BY <1>6 DEF BeginSweep, Reconcile, Decide, CannotResolve, WriteSynced, WriteVerdict, LogFinalized, LogGivenUp,
     LogRequeued, LogRun
<1>7. ASSUME TimePasses \/ RequestCancel \/ CancelPending \/ (\E p \in Procs : Crash(p)) \/ UNCHANGED vars
      PROVE  UNCHANGED nodeRun
  BY <1>7 DEF TimePasses, Quiet, Age, LeaseExpires, RequestCancel, CancelPending, LogRun, Crash, vars
<1> QED
  BY <1>2, <1>3, <1>4, <1>5, <1>6, <1>7 DEF Next, ExecStep, SweepStep

(* A run becomes pending only by a re-queue, and one that is not early     *)
(* finds no outcome of an unsafe node and no living Runner.                *)
LEMMA PendingIsRequeued ==
    ASSUME TypeOK, PhaseOK, [Next]_vars, ~early'
    PROVE  ~early /\ (status' = "pending" => status = "pending" \/ (StillSafe /\ UNCHANGED <<epc, handled>>))
<1> USE DEF log, exec, sweep, history
<1>1. ASSUME NEW p \in Sweepers, WriteVerdict(p)
      PROVE  ~early /\ (status' = "pending" => StillSafe /\ UNCHANGED <<epc, handled>>)
  BY <1>1 DEF WriteVerdict, SweepAt, PhaseOK, Verdict, TerminalRun, GiveUpStatus
<1>2. ASSUME NEW p \in Sweepers, WriteSynced(p)
      PROVE  ~early /\ status' # "pending"
  BY <1>2 DEF WriteSynced, PhaseOK, TerminalRun
<1>3. ASSUME NEW x \in Execs, WriteResult(x) \/ Claim(x)
      PROVE  ~early /\ status' # "pending"
  BY <1>3 DEF WriteResult, Claim, At, PhaseOK, TerminalRun
<1>4. ASSUME NEW x \in Execs,
             \/ LogClaimed(x) \/ BeginExecute(x) \/ Wave(x) \/ ClaimNode(x) \/ ClaimNodeRefused(x) \/ StartNode(x)
             \/ NodeSucceeds(x) \/ NodeFails(x) \/ LogOutcome(x) \/ SettleOk(x) \/ SettleBad(x)
             \/ Retry(x) \/ LogResult(x)
      PROVE  UNCHANGED <<status, early>>
  BY <1>4 DEF LogClaimed, BeginExecute, Wave, ClaimNode, ClaimNodeRefused, StartNode, NodeSucceeds, NodeFails,
     LogOutcome, SettleOk, SettleBad, Retry, LogResult
<1>5. ASSUME NEW p \in Sweepers,
             \/ BeginSweep(p) \/ Reconcile(p) \/ Decide(p) \/ CannotResolve(p)
             \/ CloseDangling(p) \/ LogFinalized(p) \/ LogGivenUp(p) \/ LogRequeued(p)
      PROVE  UNCHANGED <<status, early>>
  BY <1>5 DEF BeginSweep, Reconcile, Decide, CannotResolve, CloseDangling, LogFinalized, LogGivenUp, LogRequeued,
     Logged
<1>6. ASSUME TimePasses \/ RequestCancel \/ (\E p \in Procs : Crash(p)) \/ UNCHANGED vars
      PROVE  UNCHANGED <<status, early>>
  BY <1>6 DEF TimePasses, Quiet, Age, LeaseExpires, RequestCancel, Crash, vars
<1>7. ASSUME CancelPending
      PROVE  ~early /\ status' # "pending"
  BY <1>7 DEF CancelPending
<1>8. ASSUME UNCHANGED <<status, early>>
      PROVE  ~early /\ (status' = "pending" => status = "pending")
  BY <1>8, Zenon
<1>9. CASE \E x \in Execs : ExecStep(x)
  BY <1>3, <1>4, <1>8, <1>9 DEF ExecStep
<1>10. CASE \E p \in Sweepers : SweepStep(p)
  BY <1>1, <1>2, <1>5, <1>8, <1>10 DEF SweepStep
<1>11. CASE TimePasses \/ RequestCancel \/ CancelPending \/ (\E p \in Procs : Crash(p)) \/ UNCHANGED vars
  BY <1>6, <1>7, <1>8, <1>11
<1> QED
  BY <1>9, <1>10, <1>11 DEF Next

(* As long as no re-queue is early, a node that may write is started by    *)
(* one execution: the claim comes from a pending run, a pending run has no *)
(* Runner and its unsafe nodes were not started.                           *)
LEMMA RequeueStep ==
    ASSUME TypeOK, PhaseOK, RequeueOK, [Next]_vars
    PROVE  RequeueOK'
<1>1. ASSUME NEW n \in Nodes, NEW x \in Execs, <<n, x>> \in handled'
      PROVE  \E a \in Attempts : nodeRun'[<<n, a>>] # "none"
  <2>1. CASE <<n, x>> \in handled
    <3>1. PICK a \in Attempts : nodeRun[<<n, a>>] # "none"
      BY <2>1 DEF RequeueOK
    <3> QED
      BY <3>1, RecordStays
  <2>2. CASE <<n, x>> \notin handled
    <3>1. StartNode(x) /\ n = Pipeline[cur[x]]
      BY <1>1, <2>2, OnlyStartsHandle DEF StartNode
    <3>2. Key(x) \in Nodes \X Attempts /\ Key(x) = <<n, att[x]>>
      BY <3>1, KeyInRange DEF StartNode, At, AtNode, Key
    <3>3. nodeRun'[<<n, att[x]>>] = "running"
      BY <3>1, <3>2 DEF StartNode, LogAttempt, TypeOK
    <3> QED
      BY <3>2, <3>3
  <2> QED
    BY <2>1, <2>2
<1>2. ASSUME ~early'
      PROVE  /\ status' = "pending" => \A x \in Execs : ~LiveRunner(x)'
             /\ \A x, y \in Execs : LiveRunner(x)' /\ LiveRunner(y)' => x = y
             /\ \A n \in Unsafe, x \in Execs : <<n, x>> \in handled' =>
                   status' # "pending" /\ \A y \in Execs : LiveRunner(y)' => y = x
             /\ \A n \in Unsafe, x, y \in Execs : <<n, x>> \in handled' /\ <<n, y>> \in handled' => x = y
  <2>0. /\ ~early /\ Unsafe \subseteq Nodes /\ handled \subseteq Nodes \X Execs
        /\ status' = "pending" => status = "pending" \/ (StillSafe /\ UNCHANGED <<epc, handled>>)
    BY <1>2, PendingIsRequeued, RecoveryAssumption DEF TypeOK
  <2>1. ASSUME NEW x \in Execs, Claim(x)
        PROVE  /\ status = "pending" /\ status' # "pending" /\ UNCHANGED handled
               /\ \A n \in Unsafe, y \in Execs : <<n, y>> \notin handled
               /\ \A y \in Execs : LiveRunner(y)' => y = x
    <3>1. /\ status = "pending" /\ status' = "running" /\ UNCHANGED handled
          /\ epc' = [epc EXCEPT ![x] = "claimed"] /\ epc \in [Execs -> ExecPC]
      BY <2>1 DEF Claim, CanClaimPending, At, history, TypeOK
    <3> QED
      BY <2>0, <3>1 DEF RequeueOK, LiveRunner
  <2>2. CASE \E x \in Execs : Claim(x)
    BY <2>1, <2>2
  <2>3. ASSUME ~\E x \in Execs : Claim(x)
        PROVE  \A x \in Execs : LiveRunner(x)' => LiveRunner(x)
    BY <2>3, OnlyStartsHandle
  <2>4. ASSUME StillSafe, NEW n \in Unsafe, NEW x \in Execs
        PROVE  <<n, x>> \notin handled
    <3>1. LatestOutcome(n) = "none"
      BY <2>0, <2>4 DEF StillSafe, SafeToRequeue
    <3>2. \A a \in Attempts : nodeRun[<<n, a>>] = "none"
      BY <3>1, OutcomeIsOfAnAttempt
    <3> QED
      BY <2>0, <3>2 DEF RequeueOK
  <2>5. ASSUME NEW x \in Execs, StartNode(x)
        PROVE  /\ LiveRunner(x) /\ status' # "pending"
               /\ handled' = handled \cup {<<Pipeline[cur[x]], x>>}
    <3>1. LiveRunner(x) /\ status' = status /\ handled' = handled \cup {<<Pipeline[cur[x]], x>>}
      BY <2>5 DEF StartNode, At, LiveRunner
    <3> QED
      BY <2>0, <3>1 DEF RequeueOK
  <2>6. ASSUME NEW x \in Execs, StartNode(x), ~\E y \in Execs : Claim(y), NEW n \in Unsafe, NEW y \in Execs,
               <<n, y>> \in handled'
        PROVE  \A z \in Execs : LiveRunner(z) => z = y
    <3>1. CASE <<n, y>> \in handled
      BY <2>0, <3>1 DEF RequeueOK
    <3>2. CASE y = x
      BY <2>0, <2>5, <2>6, <3>2 DEF RequeueOK
    <3> QED
      BY <2>5, <2>6, <3>1, <3>2
  <2>7. CASE ~\E x \in Execs : Claim(x)
    <3>1. CASE UNCHANGED handled
      <4>1. status' = "pending" => \A x \in Execs : ~LiveRunner(x)
        BY <2>0 DEF RequeueOK, StillSafe
      <4>2. \A n \in Unsafe, x \in Execs : <<n, x>> \in handled => status' # "pending"
        BY <2>0, <2>4 DEF RequeueOK
      <4> QED
        BY <2>0, <2>3, <2>7, <3>1, <4>1, <4>2 DEF RequeueOK
    <3>2. ASSUME NEW x \in Execs, StartNode(x), NEW n \in Unsafe, NEW y \in Execs, <<n, y>> \in handled'
          PROVE  y = x
      BY <2>5, <2>6, <2>7, <3>2
    <3>3. CASE \E x \in Execs : StartNode(x)
      BY <2>0, <2>3, <2>5, <2>6, <2>7, <3>2, <3>3 DEF RequeueOK
    <3> QED
      BY <3>1, <3>3, OnlyStartsHandle
  <2> QED
    BY <2>2, <2>7
<1> QED
  BY <1>1, <1>2 DEF RequeueOK
-----------------------------------------------------------------------------
(* The theorems                                                            *)

(* The invariant holds in every reachable state.                           *)
THEOREM RecoveryInvariant == Spec => []RecoveryInv
<1>1. RecoveryInv /\ [Next]_vars => RecoveryInv'
  BY TypeStep, SuccessStep, RowsStep, StartsStep, SurvivorStep, RequeueStep DEF RecoveryInv
<1> QED
  BY <1>1, InvInit, PTL DEF Spec

(* The run row, the attempt rows, the log, the executions and the passes   *)
(* stay within their types.                                                *)
THEOREM RecoveryTypes == Spec => []TypeOK
<1>1. RecoveryInv => TypeOK
  BY DEF RecoveryInv
<1> QED
  BY <1>1, RecoveryInvariant, PTL

(* For any pipeline and any interleaving of deliveries, crashes and        *)
(* recovery passes: when the run row says success, every node of the       *)
(* pipeline was run to success. Recovery adopts, re-queues and finalizes   *)
(* from the log alone (recoverRun), so this is about every way it          *)
(* can come to that status.                                                *)
THEOREM RecordedSuccessIsTrue == Spec => []SuccessIsTrue
<1>1. RecoveryInv => SuccessIsTrue
  BY DEF RecoveryInv, SuccessInv, SuccessIsTrue
<1> QED
  BY <1>1, RecoveryInvariant, PTL

(* For any pipeline and any interleaving: a node that may write outside    *)
(* Brokoli is started by two executions only when a re-queue was written   *)
(* early (a living Runner, or an unsafe node started since the log was     *)
(* read) and one of the two has died.                                      *)
THEOREM UnsafeNodesRunOnce == Spec => []UnsafeRunsOnce
<1>1. RecoveryInv => UnsafeRunsOnce
  BY RecoveryAssumption DEF RecoveryInv, OneSurvivor, RequeueOK, UnsafeRunsOnce
<1> QED
  BY <1>1, RecoveryInvariant, PTL
=============================================================================

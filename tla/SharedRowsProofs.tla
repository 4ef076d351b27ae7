-------------------------- MODULE SharedRowsProofs --------------------------
(***************************************************************************)
(* Theorems about rows that several processes read, decide about, and      *)
(* write: the lease and the fencing of an attempt (ExecutionAttempt), the  *)
(* settlement of change requests (ChangeRequests), the dependencies of     *)
(* pipelines (PipelineDependencies), and the results of work that remote   *)
(* nodes do (InstanceDispatch).                                            *)
(***************************************************************************)
EXTENDS MCSharedRows, Sequences, FiniteSetTheorems, WellFoundedInduction, TLAPS
-----------------------------------------------------------------------------
(* The attempt                                                             *)

\* Without a returning UPDATE, a process has at most one live Runner of the run.
OneLivePerInstance ==
    ~returning => \A p, q \in Runners : Live(p) /\ Live(q) /\ InstanceOf[p] = InstanceOf[q] => p = q

\* A row still in the queue has never been claimed.
QueuedUnclaimed == row.status \in {"absent", "queued"} => row.gen = 0

\* No generation is granted twice, and none beyond the row's.
GrantsDistinct ==
    /\ \A p \in Runners : granted[p] <= row.gen
    /\ \A p \in Runners : Holding(p) => granted[p] > 0
    /\ \A p, q \in Runners :
          granted[p] = granted[q] /\ granted[p] > 0 => p = q

(* A Runner the row has moved on from is not the row's claimant: whoever   *)
(* claimed since did so from another process.                              *)
SupersededElsewhere ==
    ~returning => \A p \in Runners : Holding(p) /\ granted[p] # row.gen => row.claimedBy # InstanceOf[p]

\* A returning UPDATE leaves no gap: whoever has claimed holds its own generation.
ReturnedIsOwn ==
    returning => \A p \in Runners : Holding(p) => pc[p] # "claiming" /\ token[p] = granted[p]

\* The row's lease covers what its current claimant was promised.
LeaseCovers ==
    \A p \in Runners : Holding(p) /\ granted[p] = row.gen => until[p] <= row.lease

\* A handler has an outcome if, and only once, it has returned.
OutcomeAfterReturn ==
    \A p \in Runners :
        /\ out[p] # "none" => pc[p] \in {"returned", "done", "dead"}
        /\ pc[p] = "returned" => out[p] # "none"

IInv ==
    /\ TypeOK
    /\ OneLivePerInstance
    /\ QueuedUnclaimed
    /\ GrantsDistinct
    /\ SupersededElsewhere
    /\ ReturnedIsOwn
    /\ LeaseCovers
    /\ OutcomeAfterReturn
    /\ LeaseExclusive
    /\ TokenIsOwn
    /\ CompletedByLatest

\* At the start no attempt is claimed.
LEMMA InitIInv == Init => IInv
  BY AttemptAssumption DEF Init, IInv, TypeOK, OneLivePerInstance, QueuedUnclaimed, GrantsDistinct, SupersededElsewhere,
     ReturnedIsOwn, LeaseCovers, OutcomeAfterReturn, LeaseExclusive, TokenIsOwn, CompletedByLatest, Live, Holding,
     AbsentRow, RunnerPC, Outcome, AttemptStatus, TerminalAttempt, NoLease

\* Type correctness is preserved by every step.
LEMMA TypeStep == TypeOK /\ [Next]_vars => TypeOK'
<1> SUFFICES ASSUME TypeOK, [Next]_vars PROVE TypeOK'
  OBVIOUS
<1>0. returning' = returning
  BY DEF Next, vars
<1> USE AttemptAssumption, <1>0 DEF TypeOK, RunnerPC, Outcome, AttemptStatus, TerminalAttempt, NoLease
<1>1. ASSUME NEW p \in Runners, Create(p) PROVE TypeOK'
  BY <1>1 DEF Create, CreateAttempt
<1>2. ASSUME NEW p \in Runners, Claim(p) PROVE TypeOK'
  BY <1>2 DEF Claim, Claimed
<1>3. ASSUME NEW p \in Runners, ClaimRefused(p) \/ AckRefused(p) \/ ReadGeneration(p) PROVE TypeOK'
  BY <1>3 DEF ClaimRefused, AckRefused, ReadGeneration
<1>4. ASSUME NEW p \in Runners, Ack(p) PROVE TypeOK'
  BY <1>4 DEF Ack, Acked
<1>5. ASSUME NEW p \in Runners, Renew(p) PROVE TypeOK'
  BY <1>5 DEF Renew, Renewed
<1>6. ASSUME NEW p \in Runners, NEW o \in {"ok", "fail", "park"}, Return(p, o) PROVE TypeOK'
  BY <1>6 DEF Return
<1>7. ASSUME NEW p \in Runners, SettleOwn(p) PROVE TypeOK'
  BY <1>7 DEF SettleOwn, Settle, Settled
<1>8. ASSUME NEW p \in Runners, DropLease(p) PROVE TypeOK'
  BY <1>8, SMTT(30) DEF DropLease, Renewed
<1>9. ASSUME NEW i \in Instances, Crash(i) PROVE TypeOK'
  BY <1>9 DEF Crash
<1>10. ASSUME NEW r \in Recoverers, ListExpired(r) PROVE TypeOK'
  BY <1>10 DEF ListExpired, runner
<1>11. ASSUME NEW r \in Recoverers, Reclaim(r) PROVE TypeOK'
  BY <1>11 DEF Reclaim, Settle, Settled, runner
<1>12. CASE Tick
  BY <1>12 DEF Tick, runner
<1>13. CASE UNCHANGED vars
  BY <1>13 DEF vars, runner
<1> QED
  BY <1>1, <1>2, <1>3, <1>4, <1>5, <1>6, <1>7, <1>8, <1>9, <1>10, <1>11, <1>12, <1>13 DEF Next, Step

\* The strengthened invariant is inductive: one step per action.
LEMMA StepIInv == IInv /\ [Next]_vars => IInv'
<1> SUFFICES ASSUME IInv, [Next]_vars PROVE IInv'
  OBVIOUS
<1>0. TypeOK'
  BY TypeStep DEF IInv
<1>0a. returning' = returning
  BY DEF Next, vars
<1> USE AttemptAssumption, <1>0, <1>0a DEF IInv, TypeOK, OneLivePerInstance, QueuedUnclaimed, GrantsDistinct, SupersededElsewhere,
      ReturnedIsOwn, LeaseCovers, OutcomeAfterReturn, LeaseExclusive, TokenIsOwn, CompletedByLatest, Live, Holding,
      RunnerPC, Outcome, AttemptStatus, TerminalAttempt, NoLease, runner
<1>1. ASSUME NEW p \in Runners, Create(p) PROVE IInv'
  BY <1>1 DEF Create, CreateAttempt
<1>2. ASSUME NEW p \in Runners, Claim(p) PROVE IInv'
  <2> USE <1>2 DEF Claim, CanClaim, Claimed
  <2>1. row'.gen = row.gen + 1 /\ row.gen + 1 > row.gen
    OBVIOUS
  <2>2. GrantsDistinct'
    BY <2>1
  <2>3. ~returning => \A q \in Runners : q # p /\ Holding(q) => InstanceOf[q] # InstanceOf[p]
    OBVIOUS
  <2>4. SupersededElsewhere' /\ ReturnedIsOwn' /\ LeaseCovers'
    BY <2>1, <2>3
  <2>5. \A q \in Runners : q # p /\ Holding(q) => until[q] < now
    BY <2>1
  <2>6. LeaseExclusive'
    BY <2>1, <2>5
  <2>7. OneLivePerInstance' /\ QueuedUnclaimed'
    OBVIOUS
  <2>8. OutcomeAfterReturn' /\ TokenIsOwn' /\ CompletedByLatest'
    OBVIOUS
  <2> QED
    BY <2>2, <2>4, <2>6, <2>7, <2>8
<1>3. ASSUME NEW p \in Runners, ClaimRefused(p) PROVE IInv'
  BY <1>3 DEF ClaimRefused
<1>3a. ASSUME NEW p \in Runners, ReadGeneration(p) PROVE IInv'
  BY <1>3a DEF ReadGeneration
<1>3b. ASSUME NEW p \in Runners, AckRefused(p) PROVE IInv'
  BY <1>3b DEF AckRefused
<1>4. ASSUME NEW p \in Runners, Ack(p) PROVE IInv'
  BY <1>4 DEF Ack, Acked, HoldsLease
<1>5. ASSUME NEW p \in Runners, Renew(p) PROVE IInv'
  BY <1>5 DEF Renew, Renewed, HoldsLease
<1>6. ASSUME NEW p \in Runners, NEW o \in {"ok", "fail", "park"}, Return(p, o) PROVE IInv'
  BY <1>6 DEF Return
<1>7. ASSUME NEW p \in Runners, SettleOwn(p) PROVE IInv'
  BY <1>7 DEF SettleOwn, Settle, CanSettle, Settled
<1>8. ASSUME NEW p \in Runners, DropLease(p) PROVE IInv'
  BY <1>8 DEF DropLease, Renewed, HoldsLease
<1>9. ASSUME NEW i \in Instances, Crash(i) PROVE IInv'
  BY <1>9 DEF Crash
<1>10. ASSUME NEW r \in Recoverers, ListExpired(r) PROVE IInv'
  BY <1>10 DEF ListExpired
<1>11. ASSUME NEW r \in Recoverers, Reclaim(r) PROVE IInv'
  BY <1>11 DEF Reclaim, Settle, CanSettle, Settled
<1>12. CASE Tick
  BY <1>12 DEF Tick
<1>13. CASE UNCHANGED vars
  BY <1>13 DEF vars
<1> HIDE AttemptAssumption, <1>0, <1>0a DEF IInv, TypeOK, OneLivePerInstance, QueuedUnclaimed, GrantsDistinct,
      SupersededElsewhere, ReturnedIsOwn, LeaseCovers, OutcomeAfterReturn, LeaseExclusive, TokenIsOwn, CompletedByLatest, Live, Holding,
      RunnerPC, Outcome, AttemptStatus, TerminalAttempt, NoLease, runner
<1> QED
  BY <1>1, <1>2, <1>3, <1>3a, <1>3b, <1>4, <1>5, <1>6, <1>7, <1>8, <1>9, <1>10, <1>11, <1>12, <1>13, SMTT(30) DEF Next, Step

(* Type correctness of the attempt row, its Runners and recovery passes.   *)
THEOREM TypeCorrect == Spec => []TypeOK
<1>1. Init => TypeOK
  BY InitIInv DEF IInv
<1> QED
  BY <1>1, TypeStep, PTL DEF Spec

\* The inductive invariant holds in every reachable state.
THEOREM InvariantHolds == Spec => []IInv
  BY InitIInv, StepIInv, PTL DEF Spec

(* A lease granted by ClaimAttempt or RenewLease is exclusive until it runs *)
(* out: no stalled, crashed, parked or reclaiming actor is granted the     *)
(* attempt before then, whatever the lease duration.                       *)
THEOREM LeaseIsExclusive == Spec => []LeaseExclusive
<1>1. IInv => LeaseExclusive
  BY DEF IInv
<1> QED
  BY <1>1, InvariantHolds, PTL

(* A handler runs only under a generation that its own claim was given,    *)
(* although ClaimAttempt may read the generation back in a second statement*)
(* (SQLite), or a process may have two Runners of the run (Postgres).      *)
THEOREM TokenIsAlwaysOwn == Spec => []TokenIsOwn
<1>1. IInv => TokenIsOwn
  BY DEF IInv
<1> QED
  BY <1>1, InvariantHolds, PTL

(* A row settled as completed was settled by the last claimant, whose      *)
(* handler succeeded: no stale Runner completes an attempt it lost.        *)
THEOREM CompletedIsTrue == Spec => []CompletedByLatest
<1>1. IInv => CompletedByLatest
  BY DEF IInv
<1> QED
  BY <1>1, InvariantHolds, PTL

(* A settled attempt never changes its status or its generation again.     *)
THEOREM SettledStaysSettled == Spec => SettledIsFinal
<1>1. [Next]_vars => [IsTerminalAttempt(row) => row'.status = row.status /\ row'.gen = row.gen]_vars
  <2> SUFFICES ASSUME Next, row.status \in TerminalAttempt
               PROVE  row'.status = row.status /\ row'.gen = row.gen
    BY DEF IsTerminalAttempt
  <2> USE DEF TerminalAttempt
  <2>1. ASSUME NEW p \in Runners, Create(p) \/ Claim(p) \/ ClaimRefused(p) \/ ReadGeneration(p) PROVE row' = row
    BY <2>1 DEF Create, CreateAttempt, Claim, CanClaim, ClaimRefused, ReadGeneration
  <2>2. ASSUME NEW p \in Runners, Ack(p) \/ AckRefused(p) \/ Renew(p) \/ DropLease(p) PROVE row' = row
    BY <2>2 DEF Ack, AckRefused, Renew, DropLease, HoldsLease
  <2>3. ASSUME NEW p \in Runners, SettleOwn(p) \/ \E o \in {"ok", "fail", "park"} : Return(p, o) PROVE row' = row
    BY <2>3 DEF SettleOwn, Settle, CanSettle, Return
  <2>4. ASSUME NEW i \in Instances, Crash(i) PROVE row' = row
    BY <2>4 DEF Crash
  <2>5. ASSUME NEW r \in Recoverers, ListExpired(r) \/ Reclaim(r) PROVE row' = row
    BY <2>5 DEF ListExpired, Reclaim, Settle, CanSettle
  <2>6. CASE Tick
    BY <2>6 DEF Tick
  <2> QED
    BY <2>1, <2>2, <2>3, <2>4, <2>5, <2>6 DEF Next, Step
<1> QED
  BY <1>1, PTL DEF Spec, SettledIsFinal
-----------------------------------------------------------------------------
(* Change requests                                                         *)

(* What the variables of a change hold.                                    *)
ChangeTypes ==
    /\ current \in Change!Definitions /\ versions \in Seq(Change!Definitions)
    /\ saw \in [Change!Changes -> Change!Definitions]
    /\ status \in [Requests -> {"applied", "declined", "none", "making", "open"}]
    /\ base \in [Requests -> Nat] /\ applied \in [Requests -> Nat]
    /\ proposed \in [Requests -> Change!Definitions] /\ against \in [Requests -> Change!Definitions]
    /\ cpc \in [Change!Savers -> {"idle", "read", "checked", "stored", "versioned", "done"}]
    /\ target \in [Appliers -> Requests]
    /\ sent \in [Change!Savers -> Change!Definitions]
    /\ raced \in BOOLEAN /\ unversioned \in BOOLEAN

\* Whether request r has been made.
IsMade(r) == status[r] \in {"open", "applied", "declined"}

\* Whether the history has what request r proposed, up to version n.
Has(r, n) == \E v \in 1..n : versions[v] = proposed[r]

(* An apply is about a request that has been made, which keeps what it     *)
(* proposed; and it stores that.                                           *)
AppliesWhatIsMade ==
    \A a \in Appliers :
        /\ cpc[a] \in {"read", "checked", "stored", "versioned"} => IsMade(target[a])
        /\ cpc[a] = "stored" => sent[a] = proposed[target[a]]

\* What request r is settled with: the history has it, up to the version recorded, if one is.
OnRecord(r) ==
    /\ Has(r, Len(versions))
    /\ applied[r] # 0 => applied[r] <= Len(versions) /\ Has(r, applied[r])

\* What an apply has saved, and what is settled as applied, is in the history.
SavedIsOnRecord ==
    ~unversioned =>
        /\ \A a \in Appliers : cpc[a] = "versioned" => Has(target[a], Len(versions))
        /\ \A r \in Requests : status[r] = "applied" => OnRecord(r)

(* What a request that may still be applied was compared with is what is   *)
(* stored, unless a save of it is under way; and one that is being applied  *)
(* has the latest version for its base, or none.                           *)
ComparedWithCurrent ==
    (~raced /\ ~unversioned) =>
        /\ \A r \in Requests :
              /\ status[r] = "making" => against[r] = current
              /\ IsMade(r) =>
                    /\ base[r] <= Len(versions)
                    /\ base[r] = Len(versions) /\ (\A s \in Change!Savers : cpc[s] # "stored") =>
                          against[r] = current
        /\ \A a \in Appliers : cpc[a] = "checked" => base[target[a]] \in {Len(versions), 0}

ChangeInv == ChangeTypes /\ AppliesWhatIsMade /\ SavedIsOnRecord /\ ComparedWithCurrent

\* A version more leaves the history what it was.
LEMMA OneVersionMore ==
    ASSUME NEW D, NEW h \in Seq(D), NEW x \in D
    PROVE  /\ Append(h, x) \in Seq(D) /\ Len(Append(h, x)) = Len(h) + 1 /\ Len(h) \in Nat
           /\ Append(h, x)[Len(h) + 1] = x
           /\ \A v \in 1..Len(h) : Append(h, x)[v] = h[v]
  OBVIOUS

\* Requests are made and declined; whoever saves looks at what is there.
LEMMA ProposingStep ==
    ASSUME ChangeInv,
           (\E c \in Change!Changes : Change!Look(c))
           \/ \E r \in Requests : Change!BeginCreate(r) \/ Change!Create(r) \/ Change!Decline(r)
    PROVE  ChangeInv'
<1> USE DEF ChangeInv
<1>1. ASSUME NEW c \in Change!Changes, Change!Look(c)
      PROVE  ChangeInv'
  <2>1. UNCHANGED <<current, versions, status, base, applied, proposed, against, cpc, target, sent, raced, unversioned>>
        /\ saw' = [saw EXCEPT ![c] = current]
    BY <1>1 DEF Change!Look, Change!requestVars, Change!saveVars, Change!history
  <2> QED
    BY <2>1 DEF ChangeTypes, AppliesWhatIsMade, SavedIsOnRecord, ComparedWithCurrent, OnRecord, Has, IsMade
<1>2. ASSUME NEW r \in Requests, Change!BeginCreate(r)
      PROVE  ChangeInv'
  <2>1. /\ UNCHANGED <<current, versions, saw, base, applied, cpc, target, sent, raced, unversioned>>
        /\ status[r] = "none" /\ status' = [status EXCEPT ![r] = "making"]
        /\ proposed' = [proposed EXCEPT ![r] = saw[r] \cup {r}] /\ against' = [against EXCEPT ![r] = current]
    BY <1>2 DEF Change!BeginCreate, Change!saveVars, Change!history
  <2>2. r \in Change!Changes /\ saw[r] \cup {r} \in Change!Definitions
    BY DEF ChangeTypes, Change!Changes, Change!Definitions
  <2>3. ChangeTypes'
    BY <2>1, <2>2 DEF ChangeTypes
  <2>4. \A s \in Requests : s # r => status'[s] = status[s] /\ proposed'[s] = proposed[s] /\ against'[s] = against[s]
    BY <2>1 DEF ChangeTypes
  <2>5. status'[r] = "making" /\ against'[r] = current
    BY <2>1 DEF ChangeTypes
  <2>6. \A s \in Requests : IsMade(s) => s # r
    BY <2>1 DEF IsMade
  <2>7. AppliesWhatIsMade'
    BY <2>1, <2>4, <2>6 DEF ChangeTypes, AppliesWhatIsMade, IsMade
  <2>8. SavedIsOnRecord'
    <3>1. ASSUME NEW q \in Requests, q # r, NEW n, Has(q, n)
          PROVE  Has(q, n)'
      BY <2>1, <2>4, <3>1 DEF Has
    <3>2. ASSUME NEW q \in Requests, q # r, OnRecord(q)
          PROVE  OnRecord(q)'
      BY <2>1, <3>1, <3>2 DEF OnRecord
    <3>3. \A a \in Appliers : cpc[a] = "versioned" => target[a] \in Requests /\ target[a] # r
      BY <2>6 DEF ChangeTypes, AppliesWhatIsMade
    <3>4. \A q \in Requests : status'[q] = "applied" => status[q] = "applied" /\ q # r
      BY <2>4, <2>5
    <3> QED
      BY <2>1, <3>1, <3>2, <3>3, <3>4 DEF SavedIsOnRecord
  <2>9. ComparedWithCurrent'
    BY <2>1, <2>4, <2>5, <2>6 DEF ChangeTypes, AppliesWhatIsMade, ComparedWithCurrent, IsMade
  <2> QED
    BY <2>3, <2>7, <2>8, <2>9
<1>3. ASSUME NEW r \in Requests, Change!Create(r)
      PROVE  ChangeInv'
  <2>1. /\ UNCHANGED <<current, versions, saw, applied, proposed, against, cpc, target, sent, raced, unversioned>>
        /\ status[r] = "making" /\ status' = [status EXCEPT ![r] = "open"]
        /\ \E v \in {Len(versions), 0} : base' = [base EXCEPT ![r] = v]
    BY <1>3 DEF Change!Create, Change!saveVars, Change!history, Change!CurrentVersion
  <2>2. PICK v \in {Len(versions), 0} : base' = [base EXCEPT ![r] = v]
    BY <2>1
  <2>3. ChangeTypes' /\ Len(versions) \in Nat
    BY <2>1, <2>2 DEF ChangeTypes
  <2>4. AppliesWhatIsMade' /\ SavedIsOnRecord'
    BY <2>1 DEF ChangeTypes, AppliesWhatIsMade, SavedIsOnRecord, OnRecord, Has, IsMade
  <2>5. base'[r] = v /\ v <= Len(versions) /\ \A q \in Requests : q # r => base'[q] = base[q] /\ status'[q] = status[q]
    BY <2>1, <2>2, <2>3 DEF ChangeTypes
  <2>6. \A a \in Appliers : cpc[a] = "checked" => target[a] # r
    BY <2>1 DEF AppliesWhatIsMade, IsMade
  <2>7. status'[r] = "open" /\ \A a \in Appliers : target[a] \in Requests
    BY <2>1 DEF ChangeTypes
  <2>8. ComparedWithCurrent'
    BY <2>1, <2>3, <2>5, <2>6, <2>7 DEF ComparedWithCurrent, IsMade
  <2> QED
    BY <2>3, <2>4, <2>8
<1>4. ASSUME NEW r \in Requests, Change!Decline(r)
      PROVE  ChangeInv'
  <2>1. /\ UNCHANGED <<current, versions, saw, base, proposed, against, cpc, target, sent, raced, unversioned>>
        /\ \/ UNCHANGED <<status, applied>>
           \/ /\ status[r] = "open" /\ status' = [status EXCEPT ![r] = "declined"]
              /\ applied' = [applied EXCEPT ![r] = 0]
    BY <1>4 DEF Change!Decline, Change!Decide, Change!saveVars, Change!history
  <2>2. ChangeTypes'
    <3>1. CASE UNCHANGED <<status, applied>>
      BY <2>1, <3>1 DEF ChangeTypes
    <3>2. CASE status' = [status EXCEPT ![r] = "declined"] /\ applied' = [applied EXCEPT ![r] = 0]
      BY <2>1, <3>2 DEF ChangeTypes
    <3> QED
      BY <2>1, <3>1, <3>2
  <2>3. AppliesWhatIsMade' /\ SavedIsOnRecord'
    <3>1. ASSUME NEW q \in Requests
          PROVE  /\ status'[q] = "applied" => status[q] = "applied" /\ applied'[q] = applied[q]
                 /\ IsMade(q) => IsMade(q)'
      BY <2>1 DEF ChangeTypes, IsMade
    <3>2. \A a \in Appliers : target[a] \in Requests
      BY DEF ChangeTypes
    <3>3. AppliesWhatIsMade'
      BY <2>1, <3>1, <3>2 DEF AppliesWhatIsMade
    <3> QED
      BY <2>1, <3>1, <3>3 DEF SavedIsOnRecord, OnRecord, Has
  <2>4. ComparedWithCurrent'
    BY <2>1 DEF ChangeTypes, AppliesWhatIsMade, ComparedWithCurrent, IsMade
  <2> QED
    BY <2>2, <2>3, <2>4
<1> QED
  BY <1>1, <1>2, <1>3, <1>4

\* The row is stored: by an edit, a rollback or an apply.
LEMMA StoreStep ==
    ASSUME ChangeInv, NEW s \in Change!Savers, NEW definition \in Change!Definitions, Change!Store(s, definition),
           cpc[s] \in {"idle", "checked"}, s \in Appliers => cpc[s] = "checked" /\ definition = proposed[target[s]]
    PROVE  ChangeInv'
<1> USE DEF ChangeInv
<1>1. /\ UNCHANGED <<versions, saw, status, base, applied, proposed, against, target, unversioned>>
      /\ current' = definition /\ sent' = [sent EXCEPT ![s] = definition]
      /\ raced' = (raced \/ Change!UnderWay(s)) /\ cpc' = [cpc EXCEPT ![s] = "stored"]
  BY DEF Change!Store, Change!Go, Change!requestVars
<1>2. ChangeTypes'
  BY <1>1 DEF ChangeTypes
<1>3. cpc'[s] = "stored" /\ sent'[s] = definition
      /\ \A t \in Change!Savers : t # s => cpc'[t] = cpc[t] /\ sent'[t] = sent[t]
  BY <1>1 DEF ChangeTypes
<1>4. Appliers \subseteq Change!Savers
  BY DEF Change!Savers
<1>5. AppliesWhatIsMade'
  BY <1>1, <1>3, <1>4 DEF AppliesWhatIsMade, IsMade
<1>6. SavedIsOnRecord'
  BY <1>1, <1>3, <1>4 DEF SavedIsOnRecord, OnRecord, Has
<1>7. ~raced' => ~raced /\ (\A r \in Requests : status[r] # "making")
                 /\ \A t \in Change!Savers : t # s => cpc[t] # "checked"
  BY <1>1 DEF Change!UnderWay
<1>8. ComparedWithCurrent'
  BY <1>1, <1>3, <1>4, <1>7 DEF ComparedWithCurrent, IsMade
<1> QED
  BY <1>2, <1>5, <1>6, <1>8

\* A definition is stored, by an editor or for a request.
LEMMA StoringStep ==
    ASSUME ChangeInv,
           (\E e \in Editors : Change!StoreEdit(e) \/ Change!StoreRollback(e))
           \/ \E a \in Appliers : Change!StoreProposal(a)
    PROVE  ChangeInv'
<1> USE DEF ChangeInv
<1>1. ASSUME NEW a \in Appliers, Change!StoreProposal(a)
      PROVE  ChangeInv'
  <2>1. a \in Change!Savers /\ proposed[target[a]] \in Change!Definitions
    BY DEF Change!Savers, ChangeTypes
  <2> QED
    BY <1>1, <2>1, StoreStep DEF Change!StoreProposal
<1>2. ASSUME NEW e \in Editors, Change!StoreEdit(e)
      PROVE  ChangeInv'
  <2>1. e \in Change!Savers /\ e \in Change!Changes /\ saw[e] \cup {e} \in Change!Definitions /\ e \notin Appliers
    BY SharedRowsAssumption DEF Change!Savers, Change!Changes, Change!Definitions, ChangeTypes
  <2> QED
    BY <1>2, <2>1, StoreStep DEF Change!StoreEdit
<1>3. ASSUME NEW e \in Editors, Change!StoreRollback(e)
      PROVE  ChangeInv'
  <2>1. e \in Change!Savers /\ e \notin Appliers
    BY SharedRowsAssumption DEF Change!Savers
  <2>2. PICK v \in 1..Len(versions) : Change!Store(e, versions[v])
    BY <1>3 DEF Change!StoreRollback, Change!CurrentVersion
  <2>3. versions[v] \in Change!Definitions /\ cpc[e] = "idle"
    BY <1>3, <2>2 DEF ChangeTypes, Change!StoreRollback
  <2> QED
    BY <2>1, <2>2, <2>3, StoreStep
<1> QED
  BY <1>1, <1>2, <1>3

\* A saver records the version of what it stored.
LEMMA VersionStep ==
    ASSUME ChangeInv, NEW s \in Change!Savers, Change!SaveVersion(s)
    PROVE  ChangeInv'
<1> USE DEF ChangeInv
<1>1. /\ UNCHANGED <<current, saw, status, base, applied, proposed, against, target, sent, unversioned>>
      /\ cpc[s] = "stored" /\ versions' = Append(versions, sent[s])
      /\ raced' = (raced \/ Change!UnderWay(s))
      /\ cpc' = [cpc EXCEPT ![s] = IF s \in Appliers THEN "versioned" ELSE "done"]
  BY DEF Change!SaveVersion, Change!Go, Change!Snapshot, Change!requestVars
<1>2. versions \in Seq(Change!Definitions) /\ sent[s] \in Change!Definitions
  BY DEF ChangeTypes
<1>3. /\ versions' \in Seq(Change!Definitions) /\ Len(versions') = Len(versions) + 1 /\ Len(versions) \in Nat
      /\ versions'[Len(versions) + 1] = sent[s]
      /\ \A v \in 1..Len(versions) : versions'[v] = versions[v]
  BY <1>1, <1>2, OneVersionMore
<1>4. ChangeTypes'
  BY <1>1, <1>3 DEF ChangeTypes
<1>5. /\ cpc'[s] = (IF s \in Appliers THEN "versioned" ELSE "done")
      /\ \A t \in Change!Savers : t # s => cpc'[t] = cpc[t]
      /\ Appliers \subseteq Change!Savers
  BY <1>1 DEF ChangeTypes, Change!Savers
<1>6. AppliesWhatIsMade'
  BY <1>1, <1>5 DEF AppliesWhatIsMade, IsMade
<1>7. ASSUME NEW r \in Requests, NEW n \in Nat, n <= Len(versions), Has(r, n)
      PROVE  Has(r, n)' /\ \E v \in 1..Len(versions') : versions'[v] = proposed[r]
  BY <1>1, <1>3, <1>7 DEF Has
<1>8. SavedIsOnRecord'
  <2> SUFFICES ASSUME ~unversioned
               PROVE  /\ \A a \in Appliers : cpc'[a] = "versioned" => \E v \in 1..Len(versions') : versions'[v] = proposed[target[a]]
                      /\ \A r \in Requests : status[r] = "applied" => OnRecord(r)'
    BY <1>1 DEF SavedIsOnRecord, Has
  <2>1. ASSUME NEW a \in Appliers, cpc'[a] = "versioned"
        PROVE  \E v \in 1..Len(versions') : versions'[v] = proposed[target[a]]
    <3>1. CASE a = s
      <4>1. sent[s] = proposed[target[s]] /\ Len(versions) + 1 \in 1..Len(versions')
        BY <1>1, <1>3, <3>1 DEF AppliesWhatIsMade
      <4> QED
        BY <1>3, <3>1, <4>1
    <3>2. CASE a # s
      <4>1. Has(target[a], Len(versions)) /\ target[a] \in Requests
        BY <1>5, <2>1, <3>2 DEF SavedIsOnRecord, ChangeTypes
      <4> QED
        BY <1>3, <1>7, <4>1
    <3> QED
      BY <3>1, <3>2
  <2>2. ASSUME NEW r \in Requests, status[r] = "applied"
        PROVE  OnRecord(r)'
    <3>1. OnRecord(r) /\ applied[r] \in Nat
      BY <2>2 DEF SavedIsOnRecord, ChangeTypes
    <3>2. Has(r, Len(versions))'
      BY <1>3, <1>7, <3>1 DEF OnRecord, Has
    <3>3. applied[r] # 0 => applied[r] <= Len(versions') /\ Has(r, applied[r])'
      BY <1>1, <1>3, <1>7, <3>1 DEF OnRecord
    <3> QED
      BY <1>1, <3>2, <3>3 DEF OnRecord, Has
  <2> QED
    BY <2>1, <2>2
<1>9. ~raced' => ~raced /\ (\A r \in Requests : status[r] # "making")
                 /\ \A t \in Change!Savers : t # s => cpc[t] # "checked"
  BY <1>1 DEF Change!UnderWay
<1>10. ComparedWithCurrent'
  BY <1>1, <1>3, <1>5, <1>9 DEF ComparedWithCurrent, IsMade, ChangeTypes
<1> QED
  BY <1>4, <1>6, <1>8, <1>10

\* An apply reads its request and its version; a save ends.
LEMMA SaverMovesStep ==
    ASSUME ChangeInv,
           (\E a \in Appliers : Change!ReadRequest(a) \/ Change!CheckBase(a))
           \/ \E s \in Change!Savers : Change!VersionFails(s) \/ Change!Die(s)
    PROVE  ChangeInv'
<1> USE DEF ChangeInv
<1>1. ASSUME NEW a \in Appliers, Change!ReadRequest(a) \/ Change!CheckBase(a)
      PROVE  ChangeInv'
  <2>1. /\ UNCHANGED <<current, versions, saw, status, base, applied, proposed, against, target, sent, raced, unversioned>>
        /\ \E to \in {"read", "checked", "done"} :
              /\ cpc' = [cpc EXCEPT ![a] = to]
              /\ to = "read" => IsMade(target[a])
              /\ to = "checked" => cpc[a] = "read" /\ base[target[a]] \in {Len(versions), 0}
        /\ cpc[a] \in {"idle", "read"}
    BY <1>1 DEF Change!ReadRequest, Change!CheckBase, Change!IsCurrent, Change!CurrentVersion, Change!Go,
       Change!requestVars, Change!history, IsMade
  <2>2. PICK to \in {"read", "checked", "done"} :
              /\ cpc' = [cpc EXCEPT ![a] = to]
              /\ to = "read" => IsMade(target[a])
              /\ to = "checked" => cpc[a] = "read" /\ base[target[a]] \in {Len(versions), 0}
    BY <2>1
  <2>3. cpc'[a] = to /\ a \in Change!Savers /\ Appliers \subseteq Change!Savers
        /\ \A t \in Change!Savers : t # a => cpc'[t] = cpc[t]
    BY <2>2 DEF ChangeTypes, Change!Savers
  <2>4. ChangeTypes'
    BY <2>1, <2>2 DEF ChangeTypes
  <2>5. AppliesWhatIsMade' /\ SavedIsOnRecord'
    BY <2>1, <2>2, <2>3 DEF AppliesWhatIsMade, SavedIsOnRecord, OnRecord, Has, IsMade
  <2>6. ComparedWithCurrent'
    BY <2>1, <2>2, <2>3 DEF ComparedWithCurrent, IsMade
  <2> QED
    BY <2>4, <2>5, <2>6
<1>2. ASSUME NEW s \in Change!Savers, Change!VersionFails(s) \/ Change!Die(s)
      PROVE  ChangeInv'
  <2>1. /\ UNCHANGED <<current, versions, saw, status, base, applied, proposed, against, target, sent, raced>>
        /\ \E to \in {"versioned", "done"} :
              /\ cpc' = [cpc EXCEPT ![s] = to]
              /\ to = "versioned" => cpc[s] = "stored"
        /\ unversioned' = (unversioned \/ cpc[s] = "stored")
    BY <1>2 DEF Change!VersionFails, Change!Die, Change!Go, Change!requestVars
  <2>2. PICK to \in {"versioned", "done"} : cpc' = [cpc EXCEPT ![s] = to] /\ (to = "versioned" => cpc[s] = "stored")
    BY <2>1
  <2>3. cpc'[s] = to /\ Appliers \subseteq Change!Savers /\ \A t \in Change!Savers : t # s => cpc'[t] = cpc[t]
    BY <2>2 DEF ChangeTypes, Change!Savers
  <2>4. ChangeTypes'
    BY <2>1, <2>2 DEF ChangeTypes
  <2>5. AppliesWhatIsMade'
    BY <2>1, <2>2, <2>3 DEF AppliesWhatIsMade, IsMade
  <2>6. ASSUME ~unversioned'
        PROVE  /\ ~unversioned
               /\ \A t \in Change!Savers : cpc'[t] = "stored" <=> cpc[t] = "stored"
               /\ \A t \in Change!Savers : cpc'[t] \in {"checked", "versioned"} => cpc'[t] = cpc[t]
    <3>1. ~unversioned /\ cpc[s] # "stored"
      BY <2>1, <2>6
    <3>2. cpc'[s] = "done"
      BY <2>2, <2>3, <3>1
    <3> QED
      BY <2>3, <3>1, <3>2
  <2>7. SavedIsOnRecord'
    BY <2>1, <2>3, <2>6 DEF SavedIsOnRecord, OnRecord, Has
  <2>8. ComparedWithCurrent'
    BY <2>1, <2>3, <2>6 DEF ComparedWithCurrent, IsMade
  <2> QED
    BY <2>4, <2>5, <2>7, <2>8
<1> QED
  BY <1>1, <1>2

\* The decision is written, if the request is still open.
LEMMA RequestSettleStep ==
    ASSUME ChangeInv, NEW a \in Appliers, Change!Settle(a)
    PROVE  ChangeInv'
<1> USE DEF ChangeInv
<1> DEFINE r == target[a]
<1>1. /\ UNCHANGED <<current, versions, saw, base, proposed, against, target, sent, raced, unversioned>>
      /\ cpc[a] = "versioned" /\ cpc' = [cpc EXCEPT ![a] = "done"]
      /\ \/ UNCHANGED <<status, applied>>
         \/ /\ status[r] = "open" /\ status' = [status EXCEPT ![r] = "applied"]
            /\ \E v \in {Len(versions), 0} : applied' = [applied EXCEPT ![r] = v]
  BY DEF Change!Settle, Change!Decide, Change!CurrentVersion, Change!Go, Change!history
<1>2. r \in Requests /\ Len(versions) \in Nat /\ a \in Change!Savers /\ Appliers \subseteq Change!Savers
  <2>1. versions \in Seq(Change!Definitions)
    BY DEF ChangeTypes
  <2> QED
    BY <2>1 DEF ChangeTypes, Change!Savers
<1>3. ChangeTypes'
  <2>1. /\ status' \in [Requests -> {"applied", "declined", "none", "making", "open"}]
        /\ applied' \in [Requests -> Nat]
    <3> HIDE DEF r
    <3>1. /\ status \in [Requests -> {"applied", "declined", "none", "making", "open"}]
          /\ applied \in [Requests -> Nat]
      BY DEF ChangeTypes
    <3>2. CASE UNCHANGED <<status, applied>>
      BY <3>1, <3>2
    <3>3. CASE /\ status' = [status EXCEPT ![r] = "applied"]
               /\ \E v \in {Len(versions), 0} : applied' = [applied EXCEPT ![r] = v]
      BY <1>2, <3>1, <3>3
    <3> QED
      BY <1>1, <3>2, <3>3
  <2>2. cpc' \in [Change!Savers -> {"idle", "read", "checked", "stored", "versioned", "done"}]
    BY <1>1, <1>2 DEF ChangeTypes
  <2> QED
    BY <1>1, <2>1, <2>2 DEF ChangeTypes
<1>4. cpc'[a] = "done" /\ \A t \in Change!Savers : t # a => cpc'[t] = cpc[t]
  BY <1>1, <1>2 DEF ChangeTypes
<1>5. \A q \in Requests : status'[q] = status[q] \/ (q = r /\ status[q] = "open" /\ status'[q] = "applied")
  BY <1>1 DEF ChangeTypes
<1>6. AppliesWhatIsMade'
  BY <1>1, <1>4, <1>5, <1>2 DEF ChangeTypes, AppliesWhatIsMade, IsMade
<1>7. SavedIsOnRecord'
  <2>1. ~unversioned => Has(r, Len(versions))
    BY <1>1 DEF SavedIsOnRecord
  <2>2. \A a2 \in Appliers : cpc'[a2] = "versioned" => cpc[a2] = "versioned"
    BY <1>2, <1>4
  <2>3. \A q \in Requests : status'[q] = "applied" =>
           \/ status[q] = "applied" /\ applied'[q] = applied[q]
           \/ q = r /\ applied'[q] \in {Len(versions), 0}
    BY <1>1, <1>2 DEF ChangeTypes
  <2>4. ASSUME ~unversioned, NEW q \in Requests, status'[q] = "applied"
        PROVE  OnRecord(q)'
    <3>1. Has(q, Len(versions)) /\ (applied'[q] # 0 => applied'[q] <= Len(versions) /\ Has(q, applied'[q]))
      BY <1>2, <2>1, <2>3, <2>4 DEF SavedIsOnRecord, OnRecord
    <3> QED
      BY <1>1, <3>1 DEF OnRecord, Has
  <2> QED
    BY <1>1, <2>2, <2>4 DEF SavedIsOnRecord, Has
<1>8. ComparedWithCurrent'
  BY <1>1, <1>2, <1>4, <1>5 DEF ComparedWithCurrent, IsMade, ChangeTypes
<1> QED
  BY <1>3, <1>6, <1>7, <1>8

(* Every step keeps the invariant.                                         *)
LEMMA ChangeStep ==
    ASSUME ChangeInv, Change!Next \/ UNCHANGED changeVars
    PROVE  ChangeInv'
<1>1. CASE UNCHANGED changeVars
  BY <1>1 DEF changeVars, ChangeInv, ChangeTypes, AppliesWhatIsMade, SavedIsOnRecord, ComparedWithCurrent, OnRecord, Has, IsMade
<1> QED
  BY <1>1, ProposingStep, StoringStep, VersionStep, SaverMovesStep, RequestSettleStep DEF Change!Next, Change!Apply

\* No step touches a request that is settled.
LEMMA SettledStep ==
    ASSUME ChangeInv, Change!Next, NEW r \in Requests, status[r] \in Change!Settled
    PROVE  status'[r] = status[r] /\ applied'[r] = applied[r]
<1>1. status \in [Requests -> {"applied", "declined", "none", "making", "open"}] /\ applied \in [Requests -> Nat]
      /\ status[r] \in {"applied", "declined"} /\ target \in [Appliers -> Requests]
  BY DEF ChangeInv, ChangeTypes, Change!Settled
<1>2. ASSUME NEW q \in Requests, Change!BeginCreate(q) \/ Change!Create(q) \/ Change!Decline(q)
      PROVE  status'[r] = status[r] /\ applied'[r] = applied[r]
  BY <1>1, <1>2 DEF Change!BeginCreate, Change!Create, Change!Decline, Change!Decide
<1>3. ASSUME NEW a \in Appliers, Change!Settle(a)
      PROVE  status'[r] = status[r] /\ applied'[r] = applied[r]
  BY <1>1, <1>3 DEF Change!Settle, Change!Decide
<1> QED
  BY <1>2, <1>3 DEF Change!Next, Change!Apply, Change!Look, Change!StoreEdit, Change!StoreRollback, Change!StoreProposal,
     Change!Store, Change!ReadRequest, Change!CheckBase, Change!SaveVersion, Change!VersionFails, Change!Die,
     Change!requestVars

\* An apply that stores replaces what its request was compared with.
LEMMA RefusalStep ==
    ASSUME ChangeInv, Change!Next, NEW a \in Appliers, cpc[a] = "checked", cpc'[a] = "stored", ~raced', ~unversioned,
           base[target[a]] # 0
    PROVE  current = against[target[a]]
<1>1. /\ cpc \in [Change!Savers -> {"idle", "read", "checked", "stored", "versioned", "done"}]
      /\ a \in Change!Savers /\ Editors \subseteq Change!Savers
  BY DEF ChangeInv, ChangeTypes, Change!Savers
<1>2. ASSUME NEW s \in Change!Savers, NEW to, Change!Go(s, to), s # a
      PROVE  FALSE
  BY <1>1, <1>2 DEF Change!Go
<1>3. cpc' # cpc
  BY DEF Change!Go
<1>4. Change!StoreProposal(a)
  <2>1. ~ \E c \in Change!Changes : Change!Look(c)
    BY <1>3 DEF Change!Look, Change!saveVars
  <2>2. ~ \E r \in Requests : Change!BeginCreate(r) \/ Change!Create(r) \/ Change!Decline(r)
    BY <1>3 DEF Change!BeginCreate, Change!Create, Change!Decline, Change!saveVars
  <2>3. ~ \E e \in Editors : Change!StoreEdit(e) \/ Change!StoreRollback(e)
    BY <1>1, <1>2 DEF Change!StoreEdit, Change!StoreRollback, Change!Store
  <2>4. ~ \E s \in Change!Savers : Change!SaveVersion(s) \/ Change!VersionFails(s) \/ Change!Die(s)
    BY <1>1 DEF Change!SaveVersion, Change!VersionFails, Change!Die, Change!Go
  <2>5. \A b \in Appliers : b \in Change!Savers
    BY DEF Change!Savers
  <2>6. ASSUME NEW b \in Appliers, Change!Apply(b)
        PROVE  Change!StoreProposal(a)
    <3>1. ~ (Change!ReadRequest(b) \/ Change!CheckBase(b) \/ Change!Settle(b))
      BY <1>1, <2>5 DEF Change!ReadRequest, Change!CheckBase, Change!Settle, Change!Go
    <3>2. Change!StoreProposal(b)
      BY <2>6, <3>1 DEF Change!Apply
    <3> QED
      BY <1>2, <2>5, <3>2 DEF Change!StoreProposal, Change!Store
  <2> QED
    BY <2>1, <2>2, <2>3, <2>4, <2>6 DEF Change!Next
<1>5. ~raced /\ ~Change!UnderWay(a)
  BY <1>4 DEF Change!StoreProposal, Change!Store, ChangeInv, ChangeTypes
<1>6. \A s \in Change!Savers : cpc[s] # "stored"
  BY <1>5 DEF Change!UnderWay
<1>7. target[a] \in Requests /\ IsMade(target[a]) /\ base[target[a]] = Len(versions)
  BY <1>5 DEF ChangeInv, ChangeTypes, AppliesWhatIsMade, ComparedWithCurrent
<1> QED
  BY <1>5, <1>6, <1>7 DEF ChangeInv, ComparedWithCurrent

(* What can be applied was compared with what is there, if its base could  *)
(* be read, a decision stands,                                             *)
(* and what was applied is in the history (apply and decide of             *)
(* change_requests.go, SavePipelineVersion).                               *)
THEOREM RequestsSettled == MCSpec => RequestsAreSettledRight
<1> DEFINE allVars == <<part, vars, changeVars, depVars, itemVars>>
<1>1. ASSUME MCInit PROVE ChangeInv
  <2>1. Change!Init
    BY <1>1 DEF MCInit
  <2>2. <<{}>> \in Seq(Change!Definitions) /\ {} \in Change!Definitions
    BY DEF Change!Definitions
  <2>3. ChangeTypes
    BY <2>1, <2>2 DEF Change!Init, ChangeTypes
  <2>4. \A r \in Requests : status[r] = "none"
    BY <2>1 DEF Change!Init
  <2>5. \A a \in Appliers : cpc[a] = "idle"
    BY <2>1 DEF Change!Init, Change!Savers
  <2> QED
    BY <2>3, <2>4, <2>5 DEF ChangeInv, AppliesWhatIsMade, SavedIsOnRecord, ComparedWithCurrent, IsMade
<1>2. [MCNext]_allVars => Change!Next \/ UNCHANGED changeVars
  BY DEF MCNext
<1>3. ChangeInv /\ [MCNext]_allVars => ChangeInv'
  BY <1>2, ChangeStep
<1>4. ChangeInv => (part = "change" => Change!AppliedIsOnRecord)
  <2> SUFFICES ASSUME ChangeInv, ~unversioned, NEW r \in Requests, status[r] = "applied"
               PROVE  \E v \in 1..Len(versions) : versions[v] = proposed[r] /\ (applied[r] # 0 => v <= applied[r])
    BY DEF Change!AppliedIsOnRecord
  <2>1. OnRecord(r) /\ applied[r] \in Nat /\ Len(versions) \in Nat
    <3>1. versions \in Seq(Change!Definitions)
      BY DEF ChangeInv, ChangeTypes
    <3> QED
      BY <3>1 DEF ChangeInv, ChangeTypes, SavedIsOnRecord
  <2> QED
    BY <2>1 DEF OnRecord, Has
<1>5. ChangeInv /\ [MCNext]_allVars =>
        [\A r \in Requests :
          status[r] \in Change!Settled => status'[r] = status[r] /\ applied'[r] = applied[r]]_Change!vars
  <2>1. UNCHANGED changeVars => UNCHANGED Change!vars
    BY DEF changeVars, Change!vars, Change!requestVars, Change!saveVars, Change!history
  <2> QED
    BY <1>2, <2>1, SettledStep
<1>6. ChangeInv /\ [MCNext]_allVars =>
        [\A a \in Appliers :
          (/\ cpc[a] = "checked" /\ cpc'[a] = "stored"
           /\ ~raced' /\ ~unversioned /\ base[target[a]] # 0) =>
              current = against[target[a]]]_Change!vars
  <2>1. UNCHANGED changeVars => UNCHANGED Change!vars
    BY DEF changeVars, Change!vars, Change!requestVars, Change!saveVars, Change!history
  <2> QED
    BY <1>2, <2>1, RefusalStep
<1>7. MCSpec => Change!SettledStays
  BY <1>1, <1>3, <1>5, PTL DEF MCSpec, Change!SettledStays
<1>8. MCSpec => Change!StaleIsRefused
  BY <1>1, <1>3, <1>6, PTL DEF MCSpec, Change!StaleIsRefused
<1>9. MCSpec => [](part = "change" => Change!AppliedIsOnRecord)
  BY <1>1, <1>3, <1>4, PTL DEF MCSpec
<1> QED
  BY <1>7, <1>8, <1>9 DEF RequestsAreSettledRight
-----------------------------------------------------------------------------
(* Dependencies of pipelines                                               *)

\* A set of naturals that holds with every number the next one, and 0, has them all.
LEMMA NaturalsFollow ==
    ASSUME NEW T, 0 \in T, \A n \in Nat : n \in T => n + 1 \in T
    PROVE  Nat \subseteq T
<1> DEFINE U == Nat \ T
<1> SUFFICES ASSUME U # {}
             PROVE  FALSE
  OBVIOUS
<1>1. PICK x \in U : \A y \in U : ~(<<y, x>> \in OpToRel(<, Nat))
  <2>1. U \subseteq Nat
    OBVIOUS
  <2> HIDE DEF U
  <2> QED
    BY <2>1, NatLessThanWellFounded, WFMin
<1>2. \A y \in U : ~(y < x)
  BY <1>1 DEF OpToRel
<1>3. x \in Nat /\ x # 0 /\ x - 1 \in Nat /\ x - 1 < x /\ (x - 1) + 1 = x
  OBVIOUS
<1>4. x - 1 \notin U
  BY <1>2, <1>3
<1> QED
  BY <1>3, <1>4

\* What the pipelines of X depend on, one step further.
Further(r, X) == X \cup UNION {Deps!Upstreams(r[q]) : q \in X}

\* f is the stages of a walk from S in n steps.
IsWalk(f, r, S, n) == f = [k \in 0..n |-> IF k = 0 THEN S ELSE Further(r, f[k - 1])]

\* There is such a walk of any length.
LEMMA WalkExists ==
    ASSUME NEW r, NEW S
    PROVE  \A n \in Nat : \E f : IsWalk(f, r, S, n)
<1> DEFINE T == {n \in Nat : \E f : IsWalk(f, r, S, n)}
<1>1. 0 \in T
  <2> DEFINE f == [k \in 0..0 |-> S]
  <2>1. IsWalk(f, r, S, 0)
    BY DEF IsWalk
  <2> QED
    BY <2>1
<1>2. ASSUME NEW n \in Nat, n \in T
      PROVE  n + 1 \in T
  <2>1. PICK f : IsWalk(f, r, S, n)
    BY <1>2
  <2> DEFINE g == [k \in 0..(n + 1) |-> IF k = n + 1 THEN Further(r, f[n]) ELSE f[k]]
  <2>2. f = [k \in 0..n |-> IF k = 0 THEN S ELSE Further(r, f[k - 1])]
    BY <2>1 DEF IsWalk
  <2>3. \A k \in 0..n : f[k] = IF k = 0 THEN S ELSE Further(r, f[k - 1])
    BY <2>2
  <2>4. ASSUME NEW k \in 0..(n + 1)
        PROVE  g[k] = IF k = 0 THEN S ELSE Further(r, g[k - 1])
    <3>1. CASE k = n + 1
      <4>1. g[k] = Further(r, f[n]) /\ g[k - 1] = f[n] /\ k # 0
        BY <3>1
      <4> QED
        BY <4>1
    <3>2. CASE k # n + 1 /\ k # 0
      <4>1. k \in 0..n /\ k - 1 \in 0..(n + 1) /\ k - 1 # n + 1
        BY <3>2
      <4>2. g[k] = f[k] /\ g[k - 1] = f[k - 1]
        BY <4>1, <3>2
      <4> QED
        BY <2>3, <3>2, <4>1, <4>2
    <3>3. CASE k = 0
      BY <2>3, <3>3
    <3> QED
      BY <3>1, <3>2, <3>3
  <2>5. g = [k \in 0..(n + 1) |-> IF k = 0 THEN S ELSE Further(r, g[k - 1])]
    <3>1. g = [k \in 0..(n + 1) |-> g[k]]
      OBVIOUS
    <3> HIDE DEF g
    <3> QED
      BY <2>4, <3>1
  <2>6. IsWalk(g, r, S, n + 1)
    BY <2>5 DEF IsWalk
  <2> QED
    BY <2>6
<1> HIDE DEF T
<1>3. Nat \subseteq T
  BY <1>1, <1>2, NaturalsFollow
<1> QED
  BY <1>3 DEF T

\* What Reached computes is the last step of a walk.
LEMMA ReachedIsWalk ==
    ASSUME NEW r, NEW S, NEW n \in Nat
    PROVE  \E f : /\ Deps!Reached(r, S, n) = f[n]
                  /\ f[0] = S /\ \A k \in 0..n : k # 0 => f[k] = Further(r, f[k - 1])
<1> DEFINE w == CHOOSE f : IsWalk(f, r, S, n)
<1>1. IsWalk(w, r, S, n)
  BY WalkExists
<1>2. Deps!Reached(r, S, n) = w[n]
  BY DEF Deps!Reached, IsWalk, Further
<1> HIDE DEF w
<1>3. w[0] = S /\ \A k \in 0..n : k # 0 => w[k] = Further(r, w[k - 1])
  BY <1>1 DEF IsWalk
<1> QED
  BY <1>2, <1>3
-----------------------------------------------------------------------------

\* The instance counts as this module does.
LEMMA DepsCardinality == \A S : Deps!Cardinality(S) = Cardinality(S)
  BY DEF Deps!Cardinality, Cardinality

\* The pipelines of X depend on none outside X.
ClosedUnder(r, X) == \A q \in X : Deps!Upstreams(r[q]) \subseteq X

\* Some of what is reached depends on nothing more, in as many steps as there are pipelines.
LEMMA WalkIsDone ==
    ASSUME NEW r, NEW S \in SUBSET Pipelines
    PROVE  LET X == Deps!Reached(r, S, Cardinality(Pipelines))
           IN  /\ S \subseteq X /\ X \subseteq Pipelines /\ ClosedUnder(r, X)
               /\ \A C : S \subseteq C /\ ClosedUnder(r, C) => X \subseteq C
<1> DEFINE N == Cardinality(Pipelines)
<1>1. IsFiniteSet(Pipelines) /\ N \in Nat
  BY SharedRowsAssumption, FS_CardinalityType
<1> HIDE DEF N
<1>2. PICK f : /\ Deps!Reached(r, S, N) = f[N]
               /\ f[0] = S /\ \A k \in 0..N : k # 0 => f[k] = Further(r, f[k - 1])
  BY <1>1, ReachedIsWalk
<1>3. ASSUME NEW k \in Nat, k + 1 <= N
      PROVE  f[k + 1] = Further(r, f[k])
  <2>1. k + 1 \in 0..N /\ k + 1 # 0 /\ (k + 1) - 1 = k
    BY <1>1, <1>3
  <2> QED
    BY <1>2, <2>1
<1>4. \A X \in SUBSET Pipelines : Further(r, X) \in SUBSET Pipelines
  BY DEF Further, Deps!Upstreams
<1>5. \A k \in Nat : k <= N => S \subseteq f[k] /\ f[k] \in SUBSET Pipelines
  <2> DEFINE T == {k \in Nat : k <= N => S \subseteq f[k] /\ f[k] \in SUBSET Pipelines}
  <2>1. 0 \in T
    BY <1>2
  <2>2. ASSUME NEW k \in Nat, k \in T
        PROVE  k + 1 \in T
    <3> SUFFICES ASSUME k + 1 <= N
                 PROVE  S \subseteq f[k + 1] /\ f[k + 1] \in SUBSET Pipelines
      OBVIOUS
    <3>1. k <= N
      BY <1>1
    <3>2. f[k] \subseteq Further(r, f[k])
      BY DEF Further
    <3> QED
      BY <1>3, <1>4, <2>2, <3>1, <3>2
  <2> HIDE DEF T
  <2>3. Nat \subseteq T
    BY <2>1, <2>2, NaturalsFollow
  <2> QED
    BY <2>3 DEF T
<1>6. \A k \in Nat : k <= N => ClosedUnder(r, f[k]) \/ Cardinality(f[k]) > k
  <2> DEFINE T == {k \in Nat : k <= N => ClosedUnder(r, f[k]) \/ Cardinality(f[k]) > k}
  <2>1. 0 \in T
    <3>1. IsFiniteSet(S) /\ Cardinality(S) \in Nat /\ (Cardinality(S) = 0 => S = {})
      BY <1>1, FS_Subset, FS_EmptySet, FS_CardinalityType
    <3>2. CASE S = {}
      BY <1>2, <3>2 DEF ClosedUnder
    <3>3. CASE S # {}
      BY <1>2, <3>1, <3>3
    <3> QED
      BY <3>2, <3>3
  <2>2. ASSUME NEW k \in Nat, k \in T
        PROVE  k + 1 \in T
    <3> SUFFICES ASSUME k + 1 <= N
                 PROVE  ClosedUnder(r, f[k + 1]) \/ Cardinality(f[k + 1]) > k + 1
      OBVIOUS
    <3>1. k <= N /\ f[k + 1] = Further(r, f[k])
      BY <1>1, <1>3
    <3>2. CASE ClosedUnder(r, f[k])
      <4>1. f[k + 1] = f[k]
        BY <3>1, <3>2 DEF ClosedUnder, Further
      <4> QED
        BY <3>2, <4>1
    <3>3. CASE ~ClosedUnder(r, f[k])
      <4>1. Cardinality(f[k]) > k
        BY <2>2, <3>1, <3>3
      <4>2. f[k] \subseteq f[k + 1] /\ f[k] # f[k + 1]
        BY <3>1, <3>3 DEF ClosedUnder, Further
      <4>3. f[k + 1] \in SUBSET Pipelines /\ IsFiniteSet(f[k + 1]) /\ f[k] \in SUBSET f[k + 1]
        BY <1>1, <1>5, <4>2, FS_Subset
      <4>4. /\ Cardinality(f[k]) <= Cardinality(f[k + 1]) /\ Cardinality(f[k + 1]) # Cardinality(f[k])
            /\ IsFiniteSet(f[k])
        BY <4>2, <4>3, FS_Subset
      <4>5. Cardinality(f[k]) \in Nat /\ Cardinality(f[k + 1]) \in Nat
        BY <4>3, <4>4, FS_CardinalityType
      <4> QED
        BY <4>1, <4>4, <4>5
    <3> QED
      BY <3>2, <3>3
  <2> HIDE DEF T
  <2>3. Nat \subseteq T
    BY <2>1, <2>2, NaturalsFollow
  <2> QED
    BY <2>3 DEF T
<1>7. ClosedUnder(r, f[N])
  <2>1. f[N] \in SUBSET Pipelines
    BY <1>1, <1>5
  <2>2. Cardinality(f[N]) <= N /\ Cardinality(f[N]) \in Nat
    BY <1>1, <2>1, FS_Subset, FS_CardinalityType DEF N
  <2>3. ~(Cardinality(f[N]) > N)
    BY <1>1, <2>2
  <2> QED
    BY <1>1, <1>6, <2>3
<1>8. ASSUME NEW C, S \subseteq C, ClosedUnder(r, C)
      PROVE  f[N] \subseteq C
  <2> DEFINE T == {k \in Nat : k <= N => f[k] \subseteq C}
  <2>1. 0 \in T
    BY <1>2, <1>8
  <2>2. ASSUME NEW k \in Nat, k \in T
        PROVE  k + 1 \in T
    <3> SUFFICES ASSUME k + 1 <= N
                 PROVE  f[k + 1] \subseteq C
      OBVIOUS
    <3>1. k <= N /\ f[k + 1] = Further(r, f[k])
      BY <1>1, <1>3
    <3>2. f[k] \subseteq C
      BY <2>2, <3>1
    <3> QED
      BY <1>8, <3>1, <3>2 DEF ClosedUnder, Further
  <2> HIDE DEF T
  <2>3. Nat \subseteq T
    BY <2>1, <2>2, NaturalsFollow
  <2> QED
    BY <1>1, <2>3 DEF T
<1> QED
  BY <1>1, <1>2, <1>5, <1>7, <1>8 DEF N

(* The recursive walk up the rules (walkForCycle of engine/dependencies.go *)
(* and transitiveDependents of handlers_pipeline.go), cut off after as     *)
(* many steps as there are pipelines, reaches the least set that has the   *)
(* upstreams of p and of its own members.                                  *)
THEOREM AboveIsLeast ==
    ASSUME NEW r, NEW p
    PROVE  /\ Deps!Upstreams(r[p]) \subseteq Deps!Above(r, p) /\ Deps!Above(r, p) \subseteq Pipelines
           /\ ClosedUnder(r, Deps!Above(r, p))
           /\ \A C : Deps!Upstreams(r[p]) \subseteq C /\ ClosedUnder(r, C) => Deps!Above(r, p) \subseteq C
<1>1. Deps!Upstreams(r[p]) \in SUBSET Pipelines
  BY DEF Deps!Upstreams
<1>2. Deps!Above(r, p) = Deps!Reached(r, Deps!Upstreams(r[p]), Cardinality(Pipelines))
  BY DepsCardinality DEF Deps!Above
<1> QED
  BY <1>1, <1>2, WalkIsDone

\* What an upstream depends on is above what depends on it.
LEMMA AboveIsTransitive ==
    ASSUME NEW r, NEW p, NEW q \in Deps!Upstreams(r[p])
    PROVE  q \in Deps!Above(r, p) /\ Deps!Above(r, q) \subseteq Deps!Above(r, p)
  BY AboveIsLeast DEF ClosedUnder
-----------------------------------------------------------------------------
\* Whom a caller that has no request is about.
Anyone == CHOOSE p \in Pipelines : TRUE

DepsTypes ==
    /\ alive \subseteq Pipelines /\ rules \in [Pipelines -> Deps!RuleSets]
    /\ rpc \in [Callers -> {"idle", "save", "delete", "cascade", "decouple"}]
    /\ about \in [Callers -> Pipelines \cup {Anyone}]
    /\ wants \in [Callers -> Deps!RuleSets]
    /\ victims \in [Callers -> SUBSET Pipelines]

Acyclic(r) == \A p \in Pipelines : p \notin Deps!Above(r, p)

\* What a request reads, of the rules r of the pipelines A.
ClosesCycle(r, p, rs) ==
    LET s == [r EXCEPT ![p] = rs] IN \E q \in {p} \cup Deps!Above(s, p) : q \in Deps!Above(s, q)
Direct(A, r, p) == {d \in A : r[d][p] # Deps!NoRule}
InTheEnd(A, r, p) == {d \in A : p \in Deps!Above(r, d)}

\* What a request looks up, in terms of the rules and the pipelines there are.
LEMMA WhatIsRead ==
    ASSUME NEW p
    PROVE  /\ \A rs : Deps!HasCycle(p, rs) <=> ClosesCycle(rules, p, rs)
           /\ Deps!DirectDependents(p) = Direct(alive, rules, p)
           /\ Deps!AllDependents(p) = InTheEnd(alive, rules, p)
  BY DEF Deps!HasCycle, ClosesCycle, Deps!DirectDependents, Direct, Deps!AllDependents, InTheEnd

(* What a request has read still holds: nothing has been written since.    *)
RequestIsCurrent(x) ==
    LET p == about[x]
    IN  /\ rpc[x] # "idle" => p \in alive
        /\ rpc[x] = "save" => Deps!Upstreams(wants[x]) \subseteq alive /\ ~ClosesCycle(rules, p, wants[x])
        /\ rpc[x] = "delete" => Direct(alive, rules, p) = {}
        /\ rpc[x] = "cascade" => victims[x] = InTheEnd(alive, rules, p)
        /\ rpc[x] = "decouple" => victims[x] = Direct(alive, rules, p)

DepsInv ==
    /\ DepsTypes
    /\ ~overlapped => /\ Acyclic(rules)
                      /\ \A p \in alive : Deps!Upstreams(rules[p]) \subseteq alive
                      /\ \A x \in Callers : RequestIsCurrent(x)

\* With fewer rules, less is above.
LEMMA FewerRules ==
    ASSUME NEW r, NEW s, \A p \in Pipelines : Deps!Upstreams(s[p]) \subseteq Deps!Upstreams(r[p]), Acyclic(r)
    PROVE  Acyclic(s)
<1>1. ASSUME NEW p \in Pipelines
      PROVE  Deps!Above(s, p) \subseteq Deps!Above(r, p)
  <2>1. /\ Deps!Upstreams(r[p]) \subseteq Deps!Above(r, p) /\ Deps!Above(r, p) \subseteq Pipelines
        /\ ClosedUnder(r, Deps!Above(r, p))
    BY AboveIsLeast
  <2>2. ClosedUnder(s, Deps!Above(r, p)) /\ Deps!Upstreams(s[p]) \subseteq Deps!Above(r, p)
    BY <2>1 DEF ClosedUnder
  <2> QED
    BY <2>2, AboveIsLeast
<1> QED
  BY <1>1 DEF Acyclic

(* The walk from the saved pipeline is enough: a cycle that it does not    *)
(* meet does not pass through that pipeline, so it was there before.       *)
LEMMA WalkFromOneIsEnough ==
    ASSUME rules \in [Pipelines -> Deps!RuleSets], Acyclic(rules), NEW p \in Pipelines, NEW rs \in Deps!RuleSets,
           ~ClosesCycle(rules, p, rs)
    PROVE  Acyclic([rules EXCEPT ![p] = rs])
<1> DEFINE s == [rules EXCEPT ![p] = rs]
<1>1. \A q \in {p} \cup Deps!Above(s, p) : q \notin Deps!Above(s, q)
  BY DEF ClosesCycle
<1>2. \A q \in Pipelines : q # p => s[q] = rules[q]
  OBVIOUS
<1> HIDE DEF s
<1> SUFFICES ASSUME NEW q \in Pipelines, q \in Deps!Above(s, q)
             PROVE  FALSE
  BY DEF Acyclic, s
<1>3. q # p /\ q \notin Deps!Above(s, p)
  BY <1>1
<1> DEFINE C == Deps!Above(rules, q) \cup {x \in Pipelines : x # q /\ q \notin Deps!Above(s, x)}
<1>4. /\ Deps!Upstreams(rules[q]) \subseteq Deps!Above(rules, q) /\ ClosedUnder(rules, Deps!Above(rules, q))
      /\ Deps!Above(rules, q) \subseteq Pipelines
  BY AboveIsLeast
<1>5. Deps!Upstreams(s[q]) \subseteq C
  BY <1>2, <1>3, <1>4
<1>6. ASSUME NEW x \in C, NEW y \in Deps!Upstreams(s[x])
      PROVE  y \in C
  <2>1. x \in Pipelines /\ y \in Pipelines
    BY <1>4, <1>6 DEF Deps!Upstreams
  <2>2. CASE q \notin Deps!Above(s, x)
    <3>1. y \in Deps!Above(s, x) /\ Deps!Above(s, y) \subseteq Deps!Above(s, x)
      BY AboveIsTransitive
    <3> QED
      BY <2>1, <2>2, <3>1
  <2>3. CASE q \in Deps!Above(s, x)
    <3>1. x \in Deps!Above(rules, q) /\ x # p
      BY <1>3, <2>3
    <3>2. y \in Deps!Upstreams(rules[x])
      BY <1>2, <2>1, <3>1
    <3> QED
      BY <1>4, <3>1, <3>2 DEF ClosedUnder
  <2> QED
    BY <2>2, <2>3
<1>7. Deps!Above(s, q) \subseteq C
  <2>1. ClosedUnder(s, C)
    BY <1>6 DEF ClosedUnder
  <2> HIDE DEF C
  <2> QED
    BY <1>5, <2>1, AboveIsLeast
<1> QED
  BY <1>7 DEF Acyclic

\* A request that is done leaves the others as they are.
LEMMA EndedRequest ==
    ASSUME DepsTypes, NEW x \in Callers, Deps!End(x)
    PROVE  /\ \A y \in Callers : y # x => /\ rpc'[y] = rpc[y] /\ about'[y] = about[y]
                                          /\ wants'[y] = wants[y] /\ victims'[y] = victims[y]
           /\ rpc'[x] = "idle"
           /\ rpc' \in [Callers -> {"idle", "save", "delete", "cascade", "decouple"}]
           /\ about' \in [Callers -> Pipelines \cup {Anyone}]
           /\ wants' \in [Callers -> Deps!RuleSets] /\ victims' \in [Callers -> SUBSET Pipelines]
<1>1. Deps!NoRules \in Deps!RuleSets
  BY DEF Deps!NoRules, Deps!NoRule, Deps!RuleSets
<1> QED
  BY <1>1 DEF DepsTypes, Deps!End, Anyone

\* A request begins, and reads the rules as they are.
LEMMA CheckStep ==
    ASSUME DepsInv, NEW x \in Callers, NEW p \in Pipelines, Deps!CheckSave(x, p) \/ Deps!CheckDelete(x, p)
    PROVE  DepsInv'
<1>1. PICK to \in {"save", "delete", "cascade", "decouple"} : Deps!Begin(x, p, to)
  BY DEF Deps!CheckSave, Deps!CheckDelete
<1>2. /\ DepsTypes /\ p \in alive /\ UNCHANGED <<alive, rules, overlapped>>
      /\ about' = [about EXCEPT ![x] = p] /\ rpc' = [rpc EXCEPT ![x] = to]
  BY <1>1 DEF DepsInv, Deps!Begin, Deps!CheckSave, Deps!CheckDelete
<1>3. Direct(alive, rules, p) \subseteq Pipelines /\ InTheEnd(alive, rules, p) \subseteq Pipelines
  BY <1>2 DEF DepsTypes, Direct, InTheEnd
<1>4. CASE Deps!CheckSave(x, p)
  <2>1. PICK rs \in Deps!RuleSets :
           /\ Deps!Upstreams(rs) \subseteq alive /\ ~ClosesCycle(rules, p, rs)
           /\ wants' = [wants EXCEPT ![x] = rs]
    BY <1>4, WhatIsRead DEF Deps!CheckSave
  <2>2. victims' = victims /\ rpc'[x] = "save" /\ about'[x] = p /\ wants'[x] = rs
    BY <1>2, <1>4, <2>1 DEF Deps!CheckSave, Deps!Begin, DepsTypes
  <2>3. DepsTypes'
    BY <1>2, <2>1, <2>2 DEF DepsTypes
  <2>4. RequestIsCurrent(x)'
    BY <1>2, <2>1, <2>2 DEF RequestIsCurrent
  <2>5. \A y \in Callers : y # x => /\ rpc'[y] = rpc[y] /\ about'[y] = about[y]
                                    /\ wants'[y] = wants[y] /\ victims'[y] = victims[y]
    BY <1>2, <2>1, <2>2 DEF DepsTypes
  <2>6. ASSUME ~overlapped, NEW y \in Callers, y # x
        PROVE  RequestIsCurrent(y)'
    <3>1. RequestIsCurrent(y)
      BY <2>6 DEF DepsInv
    <3> QED
      BY <1>2, <2>5, <2>6, <3>1 DEF RequestIsCurrent
  <2> QED
    BY <1>2, <2>3, <2>4, <2>6 DEF DepsInv
<1>5. CASE Deps!CheckDelete(x, p)
  <2>1. /\ wants' = wants
        /\ \/ /\ rpc' = [rpc EXCEPT ![x] = "delete"] /\ Direct(alive, rules, p) = {} /\ victims' = victims
           \/ rpc' = [rpc EXCEPT ![x] = "cascade"] /\ victims' = [victims EXCEPT ![x] = InTheEnd(alive, rules, p)]
           \/ rpc' = [rpc EXCEPT ![x] = "decouple"] /\ victims' = [victims EXCEPT ![x] = Direct(alive, rules, p)]
    BY <1>5, WhatIsRead DEF Deps!CheckDelete, Deps!Begin
  <2>2. DepsTypes'
    BY <1>2, <1>3, <2>1 DEF DepsTypes
  <2>3. \A y \in Callers : y # x => /\ rpc'[y] = rpc[y] /\ about'[y] = about[y]
                                    /\ wants'[y] = wants[y] /\ victims'[y] = victims[y]
    BY <1>2, <2>1 DEF DepsTypes
  <2>4. ASSUME ~overlapped
        PROVE  RequestIsCurrent(x)'
    <3>1. RequestIsCurrent(x) /\ rpc[x] = "idle"
      BY <1>1, <2>4 DEF DepsInv, Deps!Begin
    <3>2. about'[x] = p /\ p \in alive'
      BY <1>2 DEF DepsTypes
    <3>3. CASE rpc' = [rpc EXCEPT ![x] = "delete"] /\ Direct(alive, rules, p) = {} /\ victims' = victims
      <4>1. rpc'[x] = "delete" /\ victims'[x] = victims[x]
        BY <1>2, <3>3 DEF DepsTypes
      <4> QED
        BY <1>2, <3>2, <3>3, <4>1 DEF RequestIsCurrent
    <3>4. CASE rpc' = [rpc EXCEPT ![x] = "cascade"] /\ victims' = [victims EXCEPT ![x] = InTheEnd(alive, rules, p)]
      <4>1. rpc'[x] = "cascade" /\ victims'[x] = InTheEnd(alive, rules, p)
        BY <1>2, <3>4 DEF DepsTypes
      <4> QED
        BY <1>2, <3>2, <4>1 DEF RequestIsCurrent
    <3>5. CASE rpc' = [rpc EXCEPT ![x] = "decouple"] /\ victims' = [victims EXCEPT ![x] = Direct(alive, rules, p)]
      <4>1. rpc'[x] = "decouple" /\ victims'[x] = Direct(alive, rules, p)
        BY <1>2, <3>5 DEF DepsTypes
      <4> QED
        BY <1>2, <3>2, <4>1 DEF RequestIsCurrent
    <3> QED
      BY <2>1, <3>3, <3>4, <3>5
  <2>5. ASSUME ~overlapped, NEW y \in Callers, y # x
        PROVE  RequestIsCurrent(y)'
    <3>1. RequestIsCurrent(y)
      BY <2>5 DEF DepsInv
    <3> QED
      BY <1>2, <2>3, <2>5, <3>1 DEF RequestIsCurrent
  <2> QED
    BY <1>2, <2>2, <2>4, <2>5 DEF DepsInv
<1> QED
  BY <1>4, <1>5

\* A save is written.
LEMMA SaveStep ==
    ASSUME DepsInv, NEW x \in Callers, Deps!Save(x)
    PROVE  DepsInv'
<1> DEFINE p == about[x]
           rs == wants[x]
<1>1. /\ DepsTypes /\ rpc[x] = "save" /\ Deps!End(x) /\ alive' = alive /\ rs \in Deps!RuleSets
      /\ rules' = IF p \in alive THEN [rules EXCEPT ![p] = rs] ELSE rules
      /\ overlapped' = (overlapped \/ Deps!UnderWay(x))
  BY DEF DepsInv, DepsTypes, Deps!Save
<1>2. /\ rpc'[x] = "idle"
      /\ \A y \in Callers : y # x => rpc'[y] = rpc[y]
  BY <1>1, EndedRequest
<1>3. DepsTypes'
  <2>1. rules' \in [Pipelines -> Deps!RuleSets]
    BY <1>1 DEF DepsTypes
  <2> QED
    BY <1>1, <2>1, EndedRequest DEF DepsTypes
<1>4. ASSUME ~overlapped'
      PROVE  /\ Acyclic(rules') /\ \A q \in alive' : Deps!Upstreams(rules'[q]) \subseteq alive'
             /\ \A y \in Callers : RequestIsCurrent(y)'
  <2>1. ~overlapped /\ (\A y \in Callers : y # x => rpc[y] = "idle")
    BY <1>1, <1>4 DEF Deps!UnderWay
  <2>2. /\ Acyclic(rules) /\ (\A q \in alive : Deps!Upstreams(rules[q]) \subseteq alive)
        /\ p \in alive /\ p \in Pipelines /\ Deps!Upstreams(rs) \subseteq alive /\ ~ClosesCycle(rules, p, rs)
    BY <1>1, <2>1 DEF DepsInv, RequestIsCurrent, DepsTypes
  <2>3. rules' = [rules EXCEPT ![p] = rs]
    BY <1>1, <2>2
  <2>4. Acyclic(rules')
    <3>1. rules \in [Pipelines -> Deps!RuleSets]
      BY <1>1 DEF DepsTypes
    <3>2. Acyclic([rules EXCEPT ![p] = rs])
      BY <1>1, <2>2, <3>1, WalkFromOneIsEnough
    <3> QED
      BY <2>3, <3>2
  <2>5. \A q \in alive' : Deps!Upstreams(rules'[q]) \subseteq alive'
    BY <1>1, <2>2, <2>3 DEF DepsTypes
  <2>6. \A y \in Callers : rpc'[y] = "idle"
    BY <1>2, <2>1
  <2> QED
    BY <2>4, <2>5, <2>6 DEF RequestIsCurrent
<1> QED
  BY <1>3, <1>4 DEF DepsInv

\* A deletion is written, with the rules that named what is gone.
LEMMA DeleteStep ==
    ASSUME DepsInv, NEW x \in Callers, Deps!Delete(x)
    PROVE  DepsInv'
<1> DEFINE p == about[x]
           gone == {p} \cup (IF rpc[x] = "cascade" THEN victims[x] ELSE {})
           strip(d) == [rules[d] EXCEPT ![p] = IF rpc[x] = "decouple" /\ d \in victims[x] THEN Deps!NoRule ELSE rules[d][p]]
<1>1. DepsTypes /\ Deps!End(x) /\ rpc[x] \in {"delete", "cascade", "decouple"}
  BY DEF DepsInv, Deps!Delete
<1>2. /\ rpc'[x] = "idle"
      /\ \A y \in Callers : y # x => /\ rpc'[y] = rpc[y] /\ about'[y] = about[y]
                                     /\ wants'[y] = wants[y] /\ victims'[y] = victims[y]
  BY <1>1, EndedRequest
<1>3. CASE ~({p} \cup victims[x] \subseteq alive)
  <2>1. UNCHANGED <<alive, rules, overlapped>>
    BY <1>3 DEF Deps!Delete
  <2>2. DepsTypes'
    BY <1>1, <2>1, EndedRequest DEF DepsTypes
  <2>3. ASSUME ~overlapped, NEW y \in Callers
        PROVE  RequestIsCurrent(y)'
    <3>1. RequestIsCurrent(y)
      BY <2>3 DEF DepsInv
    <3>2. CASE y = x
      BY <1>2, <3>2 DEF RequestIsCurrent
    <3>3. CASE y # x
      BY <1>2, <2>1, <3>1, <3>3 DEF RequestIsCurrent
    <3> QED
      BY <3>2, <3>3
  <2> QED
    BY <2>1, <2>2, <2>3 DEF DepsInv
<1>4. CASE {p} \cup victims[x] \subseteq alive
  <2>1. /\ alive' = alive \ gone
        /\ rules' = [d \in Pipelines |-> IF d \in gone THEN Deps!NoRules ELSE strip(d)]
        /\ overlapped' = (overlapped \/ Deps!UnderWay(x))
    BY <1>4 DEF Deps!Delete
  <2>2. p \in Pipelines /\ gone \subseteq Pipelines
    BY <1>1, <1>4 DEF DepsTypes
  <2>3. ASSUME NEW d \in Pipelines
        PROVE  /\ rules'[d] \in Deps!RuleSets
               /\ Deps!Upstreams(rules'[d]) \subseteq Deps!Upstreams(rules[d])
               /\ d \notin gone /\ rpc[x] = "decouple" /\ d \in victims[x] => p \notin Deps!Upstreams(rules'[d])
    <3>1. CASE d \in gone
      BY <2>1, <3>1 DEF Deps!NoRules, Deps!RuleSets, Deps!Upstreams, Deps!NoRule
    <3>2. CASE d \notin gone
      <4>1. rules'[d] = strip(d) /\ rules[d] \in Deps!RuleSets
        BY <1>1, <2>1, <3>2 DEF DepsTypes
      <4>2. \A q \in Pipelines : strip(d)[q] = rules[d][q] \/ strip(d)[q] = Deps!NoRule
        BY <4>1 DEF Deps!RuleSets
      <4>3. strip(d) \in Deps!RuleSets
        BY <4>1 DEF Deps!RuleSets
      <4>4. rpc[x] = "decouple" /\ d \in victims[x] => strip(d)[p] = Deps!NoRule
        BY <2>2, <4>1 DEF Deps!RuleSets
      <4> QED
        BY <4>1, <4>2, <4>3, <4>4 DEF Deps!Upstreams
    <3> QED
      BY <3>1, <3>2
  <2>4. DepsTypes'
    <3>1. rules' = [d \in Pipelines |-> rules'[d]]
      BY <2>1
    <3>2. rules' \in [Pipelines -> Deps!RuleSets]
      BY <2>3, <3>1
    <3>3. alive' \subseteq Pipelines
      BY <1>1, <2>1 DEF DepsTypes
    <3> QED
      BY <1>1, <3>2, <3>3, EndedRequest DEF DepsTypes
  <2>5. ASSUME ~overlapped'
        PROVE  /\ Acyclic(rules') /\ \A q \in alive' : Deps!Upstreams(rules'[q]) \subseteq alive'
               /\ \A y \in Callers : RequestIsCurrent(y)'
    <3>1. ~overlapped /\ (\A y \in Callers : y # x => rpc[y] = "idle")
      BY <2>1, <2>5 DEF Deps!UnderWay
    <3>2. /\ Acyclic(rules) /\ (\A q \in alive : Deps!Upstreams(rules[q]) \subseteq alive)
          /\ RequestIsCurrent(x)
      BY <3>1 DEF DepsInv
    <3>3. Acyclic(rules')
      BY <2>3, <3>2, FewerRules
    <3>4. ASSUME NEW q \in alive', NEW u \in Deps!Upstreams(rules'[q])
          PROVE  u \in alive'
      <4>1. /\ q \in alive /\ q \in Pipelines /\ q \notin gone /\ u \in Deps!Upstreams(rules[q]) /\ u \in alive
        BY <1>1, <2>1, <2>3, <3>2, <3>4 DEF DepsTypes
      <4>2. u \in Deps!Above(rules, q) /\ Deps!Above(rules, u) \subseteq Deps!Above(rules, q)
        BY <4>1, AboveIsTransitive
      <4>3. CASE u = p
        <5>1. q \in Direct(alive, rules, p) /\ q \in InTheEnd(alive, rules, p)
          BY <4>1, <4>2, <4>3 DEF Direct, InTheEnd, Deps!Upstreams
        <5>2. rpc[x] = "decouple" /\ q \in victims[x]
          BY <1>1, <3>2, <4>1, <5>1 DEF RequestIsCurrent
        <5> QED
          BY <2>3, <3>4, <4>1, <4>3, <5>2
      <4>4. CASE rpc[x] = "cascade" /\ u \in victims[x]
        <5>1. u \in InTheEnd(alive, rules, p)
          BY <3>2, <4>4 DEF RequestIsCurrent
        <5>2. q \in InTheEnd(alive, rules, p)
          BY <4>1, <4>2, <5>1 DEF InTheEnd
        <5> QED
          BY <3>2, <4>1, <4>4, <5>2 DEF RequestIsCurrent
      <4> QED
        BY <2>1, <4>1, <4>3, <4>4
    <3>5. \A y \in Callers : RequestIsCurrent(y)'
      BY <1>2, <3>1 DEF RequestIsCurrent
    <3> QED
      BY <3>3, <3>4, <3>5
  <2> QED
    BY <2>4, <2>5 DEF DepsInv
<1> QED
  BY <1>3, <1>4

\* Runs do not touch the rules.
LEMMA DepsUnchanged ==
    ASSUME DepsInv, UNCHANGED <<alive, rules, rpc, about, wants, victims, overlapped>>
    PROVE  DepsInv'
  BY DEF DepsInv, DepsTypes, RequestIsCurrent

\* Every step keeps the invariant.
LEMMA DepsStep ==
    ASSUME DepsInv, Deps!Next \/ UNCHANGED depVars
    PROVE  DepsInv'
<1>1. CASE \E x \in Callers, p \in Pipelines : Deps!CheckSave(x, p) \/ Deps!CheckDelete(x, p)
  BY <1>1, CheckStep
<1>2. CASE \E x \in Callers : Deps!Save(x) \/ Deps!Delete(x)
  BY <1>2, SaveStep, DeleteStep
<1>3. CASE \E p \in Pipelines : Deps!Start(p) \/ \E k \in 1..MaxRuns, s \in Outcomes : Deps!Finish(p, k, s)
  BY <1>3, DepsUnchanged DEF Deps!Start, Deps!Finish, Deps!requestVars
<1>4. CASE (\E f \in fan : Deps!FanOut(f)) \/ \E f \in fires : Deps!Fire(f)
  BY <1>4, DepsUnchanged DEF Deps!FanOut, Deps!Fire, Deps!requestVars
<1>5. CASE UNCHANGED depVars
  BY <1>5, DepsUnchanged DEF depVars
<1> QED
  BY <1>1, <1>2, <1>3, <1>4, <1>5 DEF Deps!Next

\* At the start no pipeline depends on another.
LEMMA DepsInit == ASSUME Deps!Init PROVE DepsInv
<1>1. Deps!NoRules \in Deps!RuleSets /\ Deps!Upstreams(Deps!NoRules) = {}
  BY DEF Deps!NoRules, Deps!NoRule, Deps!RuleSets, Deps!Upstreams
<1>2. /\ alive = Pipelines /\ rules = [p \in Pipelines |-> Deps!NoRules]
      /\ rpc = [x \in Callers |-> "idle"] /\ about = [x \in Callers |-> Anyone]
      /\ wants = [x \in Callers |-> Deps!NoRules] /\ victims = [x \in Callers |-> {}]
  BY DEF Deps!Init, Anyone
<1>3. DepsTypes
  BY <1>1, <1>2 DEF DepsTypes
<1>4. Acyclic(rules)
  <2>1. ASSUME NEW p \in Pipelines
        PROVE  p \notin Deps!Above(rules, p)
    <3>1. Deps!Upstreams(rules[p]) \subseteq {} /\ ClosedUnder(rules, {})
      BY <1>1, <1>2 DEF ClosedUnder
    <3> QED
      BY <3>1, AboveIsLeast
  <2> QED
    BY <2>1 DEF Acyclic
<1>5. \A x \in Callers : RequestIsCurrent(x)
  BY <1>2 DEF RequestIsCurrent
<1> QED
  BY <1>1, <1>2, <1>3, <1>4, <1>5 DEF DepsInv

(* No pipeline comes to depend on itself, and no rule names one that is    *)
(* gone, as long as saves and deletions do not overlap: the walk from the  *)
(* saved pipeline alone is enough (DetectDependencyCycle,                  *)
(* transitiveDependents, DirectDependents).                                *)
THEOREM DependenciesAreSound == MCSpec => []DependenciesEnd
<1> DEFINE allVars == <<part, vars, changeVars, depVars, itemVars>>
<1>1. MCInit => DepsInv
  BY DepsInit DEF MCInit
<1>2. DepsInv /\ [MCNext]_allVars => DepsInv'
  <2>1. [MCNext]_allVars => Deps!Next \/ UNCHANGED depVars
    BY DEF MCNext
  <2> QED
    BY <2>1, DepsStep
<1>3. DepsInv => DependenciesEnd
  BY DEF DepsInv, DependenciesEnd, Acyclic, Deps!NoCycle, Deps!NoRuleDangles
<1> QED
  BY <1>1, <1>2, <1>3, PTL DEF MCSpec
-----------------------------------------------------------------------------
(* Work of remote nodes                                                    *)

Results == Remote!Written \cup {Remote!None}

\* Attempt a of item i is settled.
Ended(i, a) == itemRow[i][a].status \in {"completed", "failed"}
OnItsWay == {"claimed", "acked", "waiting"}

AttemptRow == [status : Remote!AttemptStatus, claimedBy : Nat \cup {NoOne}, lease : Int, gen : Nat]
Rows == [Items -> [Remote!Attempts -> AttemptRow]]

(* What the variables of a dispatch hold.                                  *)
RemoteTypes ==
    /\ itemRow \in Rows
    /\ artifact \in [Items -> Results]
    /\ queue \in [Remote!Jobs -> [at : {"nowhere", "pending", "processing", "settled"}, n : Nat]]
    /\ work \in [Remote!Deliveries -> {"none", "running", "cancelled", "wrote"}]
    /\ runnerUp \in BOOLEAN /\ epoch \in Nat /\ attempt \in Remote!Attempts
    /\ disp \in [Items -> {"idle", "got", "failed"} \cup OnItsWay]
    /\ itemToken \in [Items -> Nat]
    /\ slot \in [Items -> Results] /\ cache \in [Items -> Results]

\* A row that is not there was never claimed.
AbsentIsUnclaimed ==
    \A i \in Items, a \in Remote!Attempts :
        itemRow[i][a].status = "absent" => itemRow[i][a].gen = 0 /\ itemRow[i][a].lease < 1

\* An attempt is claimed when the ones before it are settled, and no sooner.
ClaimedInOrder ==
    \A i \in Items, a, b \in Remote!Attempts : a < b /\ itemRow[i][b].gen > 0 => Ended(i, a)

\* Whatever lease is live, the execution that is running took it.
LeasesAreOwn ==
    runnerUp => \A i \in Items, a \in Remote!Attempts :
        Remote!LeaseLive(itemRow[i][a]) => a < attempt \/ (a = attempt /\ disp[i] # "idle")

(* The row of an item that is on its way is under the token its goroutine  *)
(* holds, or settled under it, and no later attempt was ever claimed.      *)
ItemOwnsRow(i) ==
    disp[i] \in OnItsWay =>
        /\ itemToken[i] > 0 /\ itemRow[i][attempt].gen = itemToken[i]
        /\ Ended(i, attempt) \/ (itemRow[i][attempt].status \in {"claimed", "started"} /\ itemRow[i][attempt].claimedBy = epoch)
        /\ \A a \in Remote!Attempts : attempt < a => itemRow[i][a].gen = 0

(* An item without a result has had its earlier attempts settled, and one  *)
(* that failed this attempt too.                                           *)
ItemEnded(i) ==
    /\ cache[i] = Remote!None => \A a \in Remote!Attempts : a < attempt => Ended(i, a)
    /\ disp[i] = "failed" => Ended(i, attempt)
    /\ disp[i] = "got" => slot[i] # Remote!None
    /\ cache[i] # Remote!None => disp[i] \in {"got", "failed"}

\* A process that died has left nothing in memory.
DownIsFresh ==
    ~runnerUp => attempt = 0 /\ \A i \in Items : disp[i] = "idle" /\ slot[i] = Remote!None /\ cache[i] = Remote!None

RunnerInv ==
    /\ AbsentIsUnclaimed /\ ClaimedInOrder /\ LeasesAreOwn /\ DownIsFresh
    /\ \A i \in Items : ItemOwnsRow(i) /\ ItemEnded(i)

\* A job, a delivery and an artifact are under a token that was granted.
WorkIsClaimed ==
    /\ \A j \in Remote!Jobs : queue[j].at # "nowhere" => itemRow[j.inst][j.attempt].gen >= j.gen
    /\ \A d \in Remote!Deliveries : work[d] # "none" => itemRow[d.job.inst][d.job.attempt].gen >= d.job.gen
    /\ \A i \in Items : artifact[i] # Remote!None => itemRow[i][artifact[i].attempt].gen >= artifact[i].gen

\* The artifact of item i is of attempt a under token g, or of a later claim.
AtLeast(i, a, g) == artifact[i].attempt > a \/ (artifact[i].attempt = a /\ artifact[i].gen >= g)

WroteIsOnRecord ==
    \A d \in Remote!Deliveries : work[d] = "wrote" => AtLeast(d.job.inst, d.job.attempt, d.job.gen)

\* The result was written under the token that completed its attempt.
OfItsAttempt(i, result) ==
    result # Remote!None => /\ itemRow[i][result.attempt].status = "completed"
                            /\ itemRow[i][result.attempt].gen = result.gen

ResultInv ==
    /\ WorkIsClaimed /\ WroteIsOnRecord /\ Remote!CompletedIsOnRecord
    /\ \A i \in Items : OfItsAttempt(i, slot[i]) /\ OfItsAttempt(i, cache[i])

RemoteInv == RemoteTypes /\ RunnerInv /\ ResultInv

-----------------------------------------------------------------------------
(* Frames: what the steps have in common                                   *)

\* A row is kept, renewed, acknowledged, settled, or its lease runs out.
Tame(i, a) ==
    /\ itemRow'[i][a].gen = itemRow[i][a].gen /\ itemRow'[i][a].claimedBy = itemRow[i][a].claimedBy
    /\ itemRow'[i][a].status = "absent" => itemRow[i][a].status = "absent" /\ itemRow'[i][a].lease < 1
    /\ Ended(i, a) => itemRow'[i][a].status = itemRow[i][a].status
    /\ itemRow[i][a].status \in {"claimed", "started"} =>
          itemRow'[i][a].status \in {"claimed", "started", "completed", "failed"}
    /\ Remote!LeaseLive(itemRow'[i][a]) => \/ Remote!LeaseLive(itemRow[i][a])
                                           \/ a = attempt /\ disp'[i] # "idle"

\* An item stays where it is, or its goroutine goes on with it.
Moves(i) ==
    \/ disp'[i] = disp[i] /\ itemToken'[i] = itemToken[i] /\ slot'[i] = slot[i]
    \/ /\ runnerUp /\ disp'[i] # "idle"
       /\ disp'[i] \in OnItsWay => disp[i] \in OnItsWay /\ itemToken'[i] = itemToken[i]
       /\ disp'[i] = "failed" => Ended(i, attempt)'
       /\ disp'[i] = "got" => slot'[i] # Remote!None

\* A step whose attempts and items all change as they may.
LEMMA RunnerFrame ==
    ASSUME RemoteTypes, RunnerInv, RemoteTypes', UNCHANGED <<runnerUp, epoch, attempt>>,
           \A i \in Items, a \in Remote!Attempts : Tame(i, a),
           \A i \in Items : Moves(i),
           \A i \in Items : cache'[i] # cache[i] =>
                runnerUp /\ cache'[i] # Remote!None /\ disp'[i] \in {"got", "failed"}
    PROVE  RunnerInv'
<1>1. attempt \in Remote!Attempts /\ \A a \in Remote!Attempts : a \in Nat
  BY SharedRowsAssumption DEF RemoteTypes, Remote!Attempts
<1>2. \A i \in Items, a \in Remote!Attempts : Ended(i, a) => Ended(i, a)'
  BY DEF Tame, Ended
<1>3. AbsentIsUnclaimed'
  BY DEF RunnerInv, AbsentIsUnclaimed, Tame
<1>4. ClaimedInOrder'
  BY <1>2 DEF RunnerInv, ClaimedInOrder, Tame
<1>5. LeasesAreOwn'
  <2> SUFFICES ASSUME runnerUp, NEW i \in Items, NEW a \in Remote!Attempts, Remote!LeaseLive(itemRow'[i][a])
               PROVE  a < attempt \/ (a = attempt /\ disp'[i] # "idle")
    BY DEF LeasesAreOwn
  <2>1. CASE Remote!LeaseLive(itemRow[i][a])
    <3>1. a < attempt \/ (a = attempt /\ disp[i] # "idle")
      BY <2>1 DEF RunnerInv, LeasesAreOwn
    <3> QED
      BY <3>1 DEF Moves
  <2> QED
    BY <2>1 DEF Tame
<1>6. DownIsFresh'
  BY DEF RunnerInv, DownIsFresh, Moves
<1>7. ASSUME NEW i \in Items
      PROVE  ItemOwnsRow(i)' /\ ItemEnded(i)'
  <2>1. ItemOwnsRow(i) /\ ItemEnded(i) /\ Tame(i, attempt) /\ Moves(i)
    BY <1>1 DEF RunnerInv
  <2>2. disp'[i] \in OnItsWay => disp[i] \in OnItsWay /\ itemToken'[i] = itemToken[i]
    BY <2>1 DEF Moves
  <2>3. ItemOwnsRow(i)'
    BY <1>1, <1>2, <2>1, <2>2 DEF ItemOwnsRow, Tame, Ended
  <2>4. ItemEnded(i)'
    <3>1. cache'[i] = Remote!None => cache[i] = Remote!None
      OBVIOUS
    <3>2. cache'[i] # Remote!None => disp'[i] \in {"got", "failed"}
      <4>1. disp'[i] \in {"idle", "got", "failed"} \cup OnItsWay
        BY DEF RemoteTypes
      <4>2. cache[i] # Remote!None => disp[i] \in {"got", "failed"}
        BY <2>1 DEF ItemEnded
      <4> QED
        BY <2>1, <4>1, <4>2 DEF Moves, OnItsWay
    <3>3. disp'[i] = "failed" => Ended(i, attempt)'
      BY <1>1, <1>2, <2>1 DEF ItemEnded, Moves
    <3>4. disp'[i] = "got" => slot'[i] # Remote!None
      BY <2>1 DEF ItemEnded, Moves
    <3> QED
      BY <1>2, <2>1, <3>1, <3>2, <3>3, <3>4 DEF ItemEnded
  <2> QED
    BY <2>3, <2>4
<1> QED
  BY <1>3, <1>4, <1>5, <1>6, <1>7 DEF RunnerInv

\* Generations grow, and what is settled stays as it is.
Grows(i, a) ==
    /\ itemRow'[i][a].gen >= itemRow[i][a].gen
    /\ Ended(i, a) => itemRow'[i][a].status = itemRow[i][a].status /\ itemRow'[i][a].gen = itemRow[i][a].gen

\* The token of work on attempt a of item i was granted.
Granted(i, a, g) == itemRow[i][a].gen >= g

\* What a step does to the jobs, the artifacts and the results.
KeepsRecord ==
    /\ \A i \in Items, a \in Remote!Attempts : Grows(i, a)
    /\ \A i \in Items, a \in Remote!Attempts :
          itemRow'[i][a].status = "completed" =>
              \/ itemRow[i][a].status = "completed"
              \/ itemRow'[i][a].gen = 0
              \/ AtLeast(i, a, itemRow[i][a].gen)' /\ itemRow'[i][a].gen = itemRow[i][a].gen
    /\ \A i \in Items, a \in Remote!Attempts, g \in Nat : AtLeast(i, a, g) => AtLeast(i, a, g)'
    /\ \A j \in Remote!Jobs :
          queue'[j].at # "nowhere" => queue[j].at # "nowhere" \/ Granted(j.inst, j.attempt, j.gen)
    /\ \A d \in Remote!Deliveries :
          /\ work'[d] # "none" => work[d] # "none" \/ Granted(d.job.inst, d.job.attempt, d.job.gen)
          /\ work'[d] = "wrote" => work[d] = "wrote" \/ AtLeast(d.job.inst, d.job.attempt, d.job.gen)'
    /\ \A i \in Items :
          /\ \/ artifact'[i] = artifact[i]
             \/ artifact'[i] \in Remote!Written /\ Granted(i, artifact'[i].attempt, artifact'[i].gen)
          /\ \E r \in Results : slot'[i] = r /\ OfItsAttempt(i, r)
          /\ \E r \in Results : cache'[i] = r /\ OfItsAttempt(i, r)

\* A step by which records and grants only grow.
LEMMA ResultFrame ==
    ASSUME RemoteTypes, ResultInv, RemoteTypes', KeepsRecord
    PROVE  ResultInv'
<1>1. /\ \A j \in Remote!Jobs : j.inst \in Items /\ j.attempt \in Remote!Attempts /\ j.gen \in Nat
      /\ \A d \in Remote!Deliveries : d.job \in Remote!Jobs
      /\ \A r \in Results : r # Remote!None => r.attempt \in Remote!Attempts /\ r.gen \in Nat
  BY SharedRowsAssumption DEF Remote!Jobs, Remote!Deliveries, Results, Remote!Written
<1>2. \A i \in Items, a \in Remote!Attempts : itemRow[i][a].gen \in Nat /\ itemRow'[i][a].gen \in Nat
  BY DEF RemoteTypes, Rows, AttemptRow
<1>3. ASSUME NEW i \in Items, NEW a \in Remote!Attempts, NEW g \in Nat, Granted(i, a, g)
      PROVE  itemRow'[i][a].gen >= g
  BY <1>2, <1>3 DEF KeepsRecord, Grows, Granted
<1>4. WorkIsClaimed'
  <2>1. ASSUME NEW j \in Remote!Jobs, queue'[j].at # "nowhere"
        PROVE  itemRow'[j.inst][j.attempt].gen >= j.gen
    <3>1. Granted(j.inst, j.attempt, j.gen)
      BY <2>1 DEF KeepsRecord, ResultInv, WorkIsClaimed, Granted
    <3> QED
      BY <1>1, <1>3, <3>1
  <2>2. ASSUME NEW d \in Remote!Deliveries, work'[d] # "none"
        PROVE  itemRow'[d.job.inst][d.job.attempt].gen >= d.job.gen
    <3>1. Granted(d.job.inst, d.job.attempt, d.job.gen)
      BY <2>2 DEF KeepsRecord, ResultInv, WorkIsClaimed, Granted
    <3> QED
      BY <1>1, <1>3, <3>1
  <2>3. ASSUME NEW i \in Items, artifact'[i] # Remote!None
        PROVE  itemRow'[i][artifact'[i].attempt].gen >= artifact'[i].gen
    <3>1. artifact'[i] \in Results
      BY DEF RemoteTypes
    <3>2. Granted(i, artifact'[i].attempt, artifact'[i].gen)
      BY <2>3 DEF KeepsRecord, ResultInv, WorkIsClaimed, Granted
    <3> QED
      BY <1>1, <1>3, <2>3, <3>1, <3>2
  <2> QED
    BY <2>1, <2>2, <2>3 DEF WorkIsClaimed
<1>5. WroteIsOnRecord'
  <2> SUFFICES ASSUME NEW d \in Remote!Deliveries, work'[d] = "wrote"
               PROVE  AtLeast(d.job.inst, d.job.attempt, d.job.gen)'
    BY DEF WroteIsOnRecord
  <2>1. work[d] = "wrote" => AtLeast(d.job.inst, d.job.attempt, d.job.gen)
    BY DEF ResultInv, WroteIsOnRecord
  <2>2. d.job.inst \in Items /\ d.job.attempt \in Remote!Attempts /\ d.job.gen \in Nat
    BY <1>1
  <2> QED
    BY <2>1, <2>2 DEF KeepsRecord
<1>6. Remote!CompletedIsOnRecord'
  <2> SUFFICES ASSUME NEW i \in Items, NEW a \in Remote!Attempts,
                      itemRow'[i][a].status = "completed", itemRow'[i][a].gen > 0
               PROVE  \/ artifact'[i].attempt > a
                      \/ artifact'[i].attempt = a /\ artifact'[i].gen >= itemRow'[i][a].gen
    BY DEF Remote!CompletedIsOnRecord
  <2>1. CASE itemRow[i][a].status = "completed"
    <3>1. itemRow'[i][a].gen = itemRow[i][a].gen
      BY <2>1 DEF KeepsRecord, Grows, Ended
    <3>2. AtLeast(i, a, itemRow[i][a].gen)
      BY <2>1, <3>1 DEF ResultInv, Remote!CompletedIsOnRecord, AtLeast
    <3>3. PICK g \in Nat : g = itemRow[i][a].gen
      BY <1>2
    <3>4. AtLeast(i, a, g) => AtLeast(i, a, g)'
      BY DEF KeepsRecord
    <3> QED
      BY <3>1, <3>2, <3>3, <3>4 DEF AtLeast
  <2>2. CASE itemRow[i][a].status # "completed"
    <3>1. AtLeast(i, a, itemRow[i][a].gen)'
      BY <1>2, <2>2 DEF KeepsRecord
    <3> QED
      BY <3>1 DEF AtLeast
  <2> QED
    BY <2>1, <2>2
<1>7. ASSUME NEW i \in Items, NEW r \in Results, OfItsAttempt(i, r)
      PROVE  r # Remote!None => itemRow'[i][r.attempt].status = "completed" /\ itemRow'[i][r.attempt].gen = r.gen
  BY <1>1, <1>7 DEF OfItsAttempt, KeepsRecord, Grows, Ended
<1>8. ASSUME NEW i \in Items
      PROVE  OfItsAttempt(i, slot[i])' /\ OfItsAttempt(i, cache[i])'
  <2>1. PICK r \in Results : slot'[i] = r /\ OfItsAttempt(i, r)
    BY DEF KeepsRecord
  <2>2. PICK s \in Results : cache'[i] = s /\ OfItsAttempt(i, s)
    BY DEF KeepsRecord
  <2> QED
    BY <1>7, <2>1, <2>2 DEF OfItsAttempt
<1> QED
  BY <1>4, <1>5, <1>6, <1>8 DEF ResultInv

\* What Settle makes of a row.
LEMMA SettledRow ==
    ASSUME NEW r \in AttemptRow,
           NEW g, NEW to \in {"completed", "failed"}
    PROVE  LET s == Remote!Settle(r, g, to)
           IN  /\ s \in AttemptRow
               /\ s.gen = r.gen /\ s.claimedBy = r.claimedBy /\ s.lease = r.lease
               /\ \/ s.status = r.status
                  \/ r.gen = g /\ r.status \in {"queued", "claimed", "started"} /\ s.status = to
               /\ r.status \in {"queued", "claimed", "started"} /\ r.gen = g => s.status = to
<1> DEFINE s == Remote!Settle(r, g, to)
<1>1. r.status \in {"absent", "queued", "claimed", "started", "completed", "failed"}
  BY DEF AttemptRow, Remote!AttemptStatus, Remote!TerminalAttempt
<1>2. CASE Remote!CanSettle(r, g)
  <2>1. s = [r EXCEPT !.status = to]
    BY <1>2 DEF Remote!Settle, Remote!Settled
  <2>2. r.gen = g /\ r.status \in {"queued", "claimed", "started"}
    BY <1>1, <1>2 DEF Remote!CanSettle, Remote!TerminalAttempt
  <2>3. /\ s \in AttemptRow /\ s.gen = r.gen /\ s.claimedBy = r.claimedBy /\ s.lease = r.lease
        /\ s.status = to
    BY <2>1 DEF AttemptRow, Remote!AttemptStatus, Remote!TerminalAttempt
  <2> QED
    BY <2>2, <2>3
<1>3. CASE ~Remote!CanSettle(r, g)
  <2>1. s = r
    BY <1>3 DEF Remote!Settle
  <2>2. ~(r.gen = g /\ r.status \in {"queued", "claimed", "started"})
    BY <1>3 DEF Remote!CanSettle, Remote!TerminalAttempt
  <2> QED
    BY <2>1, <2>2
<1> QED
  BY <1>2, <1>3

\* A row that is as it was.
LEMMA UntouchedRow ==
    ASSUME NEW i, NEW a, itemRow'[i][a] = itemRow[i][a], AbsentIsUnclaimed, i \in Items, a \in Remote!Attempts, RemoteTypes
    PROVE  Tame(i, a) /\ Grows(i, a)
<1>1. itemRow[i][a].gen \in Nat
  BY DEF RemoteTypes, Rows, AttemptRow
<1> QED
  BY <1>1 DEF Tame, Grows, AbsentIsUnclaimed

\* A row is settled under a token, or not.
LEMMA SettlingRows ==
    ASSUME RemoteTypes, RunnerInv, NEW i \in Items, NEW a \in Remote!Attempts, NEW g, NEW to \in {"completed", "failed"},
           itemRow' = [itemRow EXCEPT ![i][a] = Remote!Settle(itemRow[i][a], g, to)]
    PROVE  /\ itemRow' \in Rows
           /\ \A j \in Items, b \in Remote!Attempts : Tame(j, b) /\ Grows(j, b)
           /\ \A j \in Items, b \in Remote!Attempts : (j # i \/ b # a) => itemRow'[j][b] = itemRow[j][b]
           /\ itemRow'[i][a].status = itemRow[i][a].status \/ (itemRow[i][a].gen = g /\ itemRow'[i][a].status = to)
           /\ itemRow[i][a].status \in {"queued", "claimed", "started"} /\ itemRow[i][a].gen = g => Ended(i, a)'
           /\ itemRow'[i][a].gen = itemRow[i][a].gen
<1> DEFINE r == itemRow[i][a]
           s == Remote!Settle(r, g, to)
<1>1. r \in AttemptRow
  BY DEF RemoteTypes, Rows
<1>2. /\ s \in AttemptRow
      /\ s.gen = r.gen /\ s.claimedBy = r.claimedBy /\ s.lease = r.lease
      /\ \/ s.status = r.status
         \/ r.gen = g /\ r.status \in {"queued", "claimed", "started"} /\ s.status = to
      /\ r.status \in {"queued", "claimed", "started"} /\ r.gen = g => s.status = to
  <2> HIDE DEF r
  <2> QED
    BY <1>1, SettledRow
<1>3. /\ itemRow' \in Rows /\ itemRow'[i][a] = s
      /\ \A j \in Items, b \in Remote!Attempts : (j # i \/ b # a) => itemRow'[j][b] = itemRow[j][b]
  <2>1. itemRow' = [itemRow EXCEPT ![i][a] = s] /\ s \in AttemptRow
    BY <1>2 DEF s
  <2> HIDE DEF s
  <2> QED
    BY <2>1 DEF RemoteTypes, Rows
<1>4. r.status = "absent" => r.lease < 1
  BY DEF RunnerInv, AbsentIsUnclaimed
<1> HIDE DEF s
<1>5. Tame(i, a) /\ Grows(i, a)
  BY <1>1, <1>2, <1>3, <1>4 DEF AttemptRow, Tame, Grows, Ended, Remote!LeaseLive, Remote!IsTerminalAttempt, Remote!TerminalAttempt
<1>6. \A j \in Items, b \in Remote!Attempts : Tame(j, b) /\ Grows(j, b)
  BY <1>3, <1>5, UntouchedRow DEF RunnerInv
<1> QED
  BY <1>2, <1>3, <1>6 DEF Ended
-----------------------------------------------------------------------------
(* The Runner                                                              *)

\* Steps that leave jobs, artifacts and the memory of results alone.
LEMMA RecordFrame ==
    ASSUME RemoteTypes, ResultInv, UNCHANGED <<artifact, queue, work, cache>>,
           \A i \in Items, a \in Remote!Attempts : Grows(i, a),
           \A i \in Items, a \in Remote!Attempts :
               itemRow'[i][a].status = "completed" => itemRow[i][a].status = "completed",
           \A i \in Items : slot'[i] = slot[i] \/ slot'[i] = Remote!None \/ OfItsAttempt(i, slot'[i]),
           RemoteTypes'
    PROVE  KeepsRecord
<1>1. \A i \in Items : slot[i] \in Results /\ slot'[i] \in Results /\ cache[i] \in Results
  BY DEF RemoteTypes
<1>2. \A i \in Items : OfItsAttempt(i, slot'[i]) /\ OfItsAttempt(i, cache[i])
  BY DEF ResultInv, OfItsAttempt
<1>3. \A i \in Items, a \in Remote!Attempts, g \in Nat : AtLeast(i, a, g) => AtLeast(i, a, g)'
  BY DEF AtLeast
<1>4. \A i \in Items : /\ artifact'[i] = artifact[i]
                       /\ \E r \in Results : slot'[i] = r /\ OfItsAttempt(i, r)
                       /\ \E r \in Results : cache'[i] = r /\ OfItsAttempt(i, r)
  BY <1>1, <1>2
<1>5. \A d \in Remote!Deliveries : work'[d] = work[d]
  OBVIOUS
<1>6. \A j \in Remote!Jobs : queue'[j] = queue[j]
  OBVIOUS
<1> QED
  BY <1>3, <1>4, <1>5, <1>6 DEF KeepsRecord

\* The goroutine of item i goes on, or it gives up.
LEMMA ItemGoesOn ==
    ASSUME RemoteInv, runnerUp, NEW i \in Items, itemRow' \in Rows, itemToken' \in [Items -> Nat],
           NEW phase \in {"failed"} \cup OnItsWay, disp' = [disp EXCEPT ![i] = phase],
           UNCHANGED <<artifact, queue, work, runnerUp, epoch, attempt, slot, cache>>,
           \A j \in Items, b \in Remote!Attempts : Tame(j, b) /\ Grows(j, b),
           \A j \in Items, b \in Remote!Attempts :
               itemRow'[j][b].status = "completed" => itemRow[j][b].status = "completed",
           \A j \in Items : j # i \/ phase \in OnItsWay => itemToken'[j] = itemToken[j],
           phase \in OnItsWay => disp[i] \in OnItsWay,
           phase = "failed" => Ended(i, attempt)'
    PROVE  RemoteInv'
<1>1. RemoteTypes'
  <2>1. disp' \in [Items -> {"idle", "got", "failed"} \cup OnItsWay]
    BY DEF RemoteInv, RemoteTypes
  <2> QED
    BY <2>1 DEF RemoteInv, RemoteTypes
<1>2. disp'[i] = phase /\ \A j \in Items : j # i => disp'[j] = disp[j]
  BY DEF RemoteInv, RemoteTypes
<1>3. ASSUME NEW j \in Items
      PROVE  Moves(j)
  BY <1>2 DEF Moves, OnItsWay
<1>4. RunnerInv'
  BY <1>1, <1>3, RunnerFrame DEF RemoteInv
<1>5. KeepsRecord
  BY <1>1, RecordFrame DEF RemoteInv
<1>6. ResultInv'
  BY <1>1, <1>5, ResultFrame DEF RemoteInv
<1> QED
  BY <1>1, <1>4, <1>6 DEF RemoteInv

\* The row that an item is about.
LEMMA RowOfItem ==
    ASSUME RemoteInv, NEW i \in Items
    PROVE  /\ attempt \in Remote!Attempts /\ itemRow[i][attempt] \in AttemptRow
           /\ itemRow[i][attempt].status \in {"absent", "queued", "claimed", "started", "completed", "failed"}
           /\ itemRow[i][attempt].gen \in Nat /\ itemRow[i][attempt].lease \in Int
           /\ ItemOwnsRow(i) /\ ItemEnded(i)
<1>1. attempt \in Remote!Attempts /\ itemRow[i][attempt] \in AttemptRow
  BY DEF RemoteInv, RemoteTypes, Rows
<1> QED
  BY <1>1 DEF RemoteInv, RunnerInv, AttemptRow, Remote!AttemptStatus, Remote!TerminalAttempt

\* An attempt is claimed.
LEMMA ClaimStep ==
    ASSUME RemoteInv, NEW i \in Items, Remote!StartInstance(i), ~Ended(i, attempt), ~Remote!LeaseLive(itemRow[i][attempt])
    PROVE  RemoteInv'
<1> DEFINE r == Remote!CreateAttempt(itemRow[i][attempt])
<1>0. /\ RemoteTypes /\ RunnerInv /\ ResultInv /\ attempt \in Remote!Attempts /\ ItemEnded(i)
      /\ epoch \in Nat /\ \A a \in Remote!Attempts : a \in Nat
  BY RowOfItem, SharedRowsAssumption DEF RemoteInv, RemoteTypes, Remote!Attempts
<1>1. /\ r.gen = itemRow[i][attempt].gen /\ r.gen \in Nat /\ Remote!CanClaim(r, 1)
  <2>1. itemRow[i][attempt] \in AttemptRow /\ itemRow[i][attempt].gen \in Nat
        /\ itemRow[i][attempt].status \in {"absent", "queued", "claimed", "started", "completed", "failed"}
        /\ itemRow[i][attempt].lease \in Int
    BY RowOfItem
  <2>2. CASE itemRow[i][attempt].status = "absent"
    <3>1. r = [itemRow[i][attempt] EXCEPT !.status = "queued"]
      BY <2>2 DEF Remote!CreateAttempt
    <3>2. r.status = "queued" /\ r.gen = itemRow[i][attempt].gen
      BY <2>1, <3>1 DEF AttemptRow
    <3> QED
      BY <2>1, <3>2 DEF Remote!CanClaim, Remote!TerminalAttempt
  <2>3. CASE itemRow[i][attempt].status # "absent"
    BY <2>1, <2>3 DEF Remote!CreateAttempt, Remote!CanClaim, Remote!TerminalAttempt, Remote!LeaseLive, Ended,
       Remote!IsTerminalAttempt, Remote!Now
  <2> QED
    BY <2>2, <2>3
<1> DEFINE s == Remote!Claimed(r, epoch, 1, 0)
<1>2. /\ runnerUp /\ disp[i] = "idle"
      /\ itemRow' = [itemRow EXCEPT ![i][attempt] = s] /\ disp' = [disp EXCEPT ![i] = "claimed"]
      /\ itemToken' = [itemToken EXCEPT ![i] = r.gen + 1]
      /\ UNCHANGED <<artifact, queue, work, runnerUp, epoch, attempt, slot, cache>>
  BY <1>1 DEF Remote!StartInstance, Remote!Step, Remote!Now
<1>3. /\ s \in AttemptRow /\ s.status = "claimed" /\ s.claimedBy = epoch /\ s.gen = itemRow[i][attempt].gen + 1
  BY <1>0, <1>1 DEF Remote!Claimed, AttemptRow, Remote!AttemptStatus
<1>4. /\ itemRow' \in Rows /\ itemRow'[i][attempt] = s
      /\ \A j \in Items, b \in Remote!Attempts : (j # i \/ b # attempt) => itemRow'[j][b] = itemRow[j][b]
  <2> HIDE DEF s
  <2> QED
    BY <1>0, <1>2, <1>3 DEF RemoteTypes, Rows
<1>5. /\ disp'[i] = "claimed" /\ itemToken'[i] = itemRow[i][attempt].gen + 1
      /\ \A j \in Items : j # i => disp'[j] = disp[j] /\ itemToken'[j] = itemToken[j]
  BY <1>0, <1>1, <1>2 DEF RemoteTypes
<1>6. itemRow[i][attempt].gen \in Nat
  BY RowOfItem
<1> HIDE DEF s, r
<1>7. RemoteTypes'
  <2>1. disp' \in [Items -> {"idle", "got", "failed"} \cup OnItsWay] /\ itemToken' \in [Items -> Nat]
    BY <1>0, <1>1, <1>2 DEF RemoteTypes, OnItsWay
  <2> QED
    BY <1>0, <1>2, <1>4, <2>1 DEF RemoteTypes
<1>8. \A a \in Remote!Attempts : attempt < a => itemRow[i][a].gen = 0
  <2>1. \A a \in Remote!Attempts : itemRow[i][a].gen \in Nat
    BY <1>0 DEF RemoteTypes, Rows, AttemptRow
  <2> QED
    BY <1>0, <2>1 DEF RunnerInv, ClaimedInOrder
<1>9. \A j \in Items, b \in Remote!Attempts : Ended(j, b) <=> Ended(j, b)'
  BY <1>3, <1>4 DEF Ended
<1>10. cache[i] = Remote!None
  BY <1>0, <1>2 DEF ItemEnded
<1>11. RunnerInv'
  <2>1. AbsentIsUnclaimed'
    BY <1>0, <1>3, <1>4 DEF RunnerInv, AbsentIsUnclaimed
  <2>2. ClaimedInOrder'
    <3> SUFFICES ASSUME NEW j \in Items, NEW a \in Remote!Attempts, NEW b \in Remote!Attempts, a < b, itemRow'[j][b].gen > 0
                 PROVE  Ended(j, a)'
      BY DEF ClaimedInOrder
    <3>1. CASE j = i /\ b = attempt
      BY <1>0, <1>9, <1>10, <3>1 DEF ItemEnded
    <3>2. CASE j # i \/ b # attempt
      BY <1>0, <1>4, <1>9, <3>2 DEF RunnerInv, ClaimedInOrder
    <3> QED
      BY <3>1, <3>2
  <2>3. LeasesAreOwn' /\ DownIsFresh'
    BY <1>0, <1>2, <1>4, <1>5 DEF RunnerInv, LeasesAreOwn, DownIsFresh
  <2>4. ASSUME NEW j \in Items
        PROVE  ItemOwnsRow(j)' /\ ItemEnded(j)'
    <3>1. ItemOwnsRow(j) /\ ItemEnded(j)
      BY <1>0 DEF RunnerInv
    <3>2. CASE j = i
      BY <1>0, <1>2, <1>3, <1>4, <1>5, <1>6, <1>8, <1>9, <1>10, <3>1, <3>2 DEF ItemOwnsRow, ItemEnded, OnItsWay
    <3>3. CASE j # i
      BY <1>0, <1>2, <1>4, <1>5, <1>9, <3>1, <3>3 DEF ItemOwnsRow, ItemEnded
    <3> QED
      BY <3>2, <3>3
  <2> QED
    BY <2>1, <2>2, <2>3, <2>4 DEF RunnerInv
<1>12. KeepsRecord
  <2>1. \A j \in Items, b \in Remote!Attempts : itemRow[j][b].gen \in Nat
    BY <1>0 DEF RemoteTypes, Rows, AttemptRow
  <2>2. \A j \in Items, b \in Remote!Attempts : Grows(j, b)
    BY <1>3, <1>4, <2>1 DEF Grows
  <2>3. \A j \in Items, b \in Remote!Attempts :
           itemRow'[j][b].status = "completed" => itemRow[j][b].status = "completed"
    BY <1>3, <1>4
  <2> QED
    BY <1>0, <1>2, <1>7, <2>2, <2>3, RecordFrame
<1> QED
  BY <1>0, <1>7, <1>11, <1>12, ResultFrame DEF RemoteInv

\* The execution makes the row of an attempt.
LEMMA StartStep ==
    ASSUME RemoteInv, NEW i \in Items, Remote!StartInstance(i)
    PROVE  RemoteInv'
<1> DEFINE r == Remote!CreateAttempt(itemRow[i][attempt])
<1>1. runnerUp /\ disp[i] = "idle" /\ attempt \in Remote!Attempts
  BY RowOfItem DEF Remote!StartInstance
<1>2. ~Remote!LeaseLive(itemRow[i][attempt])
  <2>1. attempt \in Nat
    BY <1>1, SharedRowsAssumption DEF Remote!Attempts
  <2> QED
    BY <1>1, <2>1 DEF RemoteInv, RunnerInv, LeasesAreOwn
<1>3. CASE ~Ended(i, attempt)
  BY <1>2, <1>3, ClaimStep
<1>4. CASE Ended(i, attempt)
  <2>1. r = itemRow[i][attempt] /\ ~Remote!CanClaim(r, 1)
    BY <1>4 DEF Ended, Remote!CreateAttempt, Remote!CanClaim, Remote!TerminalAttempt
  <2>2. /\ itemRow' = [itemRow EXCEPT ![i][attempt] = r] /\ disp' = [disp EXCEPT ![i] = "failed"]
        /\ itemToken' = [itemToken EXCEPT ![i] = 0]
        /\ UNCHANGED <<artifact, queue, work, runnerUp, epoch, attempt, slot, cache>>
    BY <2>1 DEF Remote!StartInstance, Remote!Step, Remote!Now
  <2>3. itemRow' = itemRow /\ itemRow \in Rows
    BY <1>1, <2>1, <2>2 DEF RemoteInv, RemoteTypes, Rows
  <2>4. \A j \in Items, b \in Remote!Attempts : Tame(j, b) /\ Grows(j, b)
    BY <2>3, UntouchedRow DEF RemoteInv, RunnerInv
  <2>5. itemToken' \in [Items -> Nat] /\ \A j \in Items : j # i => itemToken'[j] = itemToken[j]
    BY <2>2 DEF RemoteInv, RemoteTypes
  <2>6. Ended(i, attempt)'
    BY <1>4, <2>2, <2>3 DEF Ended
  <2>7. "failed" \notin OnItsWay
    BY DEF OnItsWay
  <2>8. \A j \in Items, b \in Remote!Attempts :
           itemRow'[j][b].status = "completed" => itemRow[j][b].status = "completed"
    BY <2>3
  <2> HIDE DEF r
  <2> QED
    BY <1>1, <2>2, <2>3, <2>4, <2>5, <2>6, <2>7, <2>8, ItemGoesOn
<1> QED
  BY <1>3, <1>4

\* The execution acknowledges what it has claimed.
LEMMA AckStep ==
    ASSUME RemoteInv, NEW i \in Items, Remote!AckInstance(i)
    PROVE  RemoteInv'
<1> DEFINE r == itemRow[i][attempt]
<1>1. /\ runnerUp /\ disp[i] = "claimed"
      /\ UNCHANGED <<artifact, queue, work, runnerUp, epoch, attempt, itemToken, slot, cache>>
  BY DEF Remote!AckInstance
<1>2. /\ attempt \in Remote!Attempts /\ r \in AttemptRow /\ r.gen \in Nat /\ ItemOwnsRow(i)
  BY RowOfItem
<1>3. itemRow \in Rows /\ itemToken \in [Items -> Nat]
  BY DEF RemoteInv, RemoteTypes
<1>4. CASE Remote!HoldsLease(r, epoch, itemToken[i])
  <2>1. itemRow' = [itemRow EXCEPT ![i][attempt] = Remote!Acked(r)] /\ disp' = [disp EXCEPT ![i] = "acked"]
    BY <1>4 DEF Remote!AckInstance, Remote!Step
  <2>2. /\ Remote!Acked(r) \in AttemptRow /\ Remote!Acked(r).status = "started"
        /\ Remote!Acked(r).gen = r.gen /\ Remote!Acked(r).claimedBy = r.claimedBy /\ Remote!Acked(r).lease = r.lease
        /\ r.status \in {"claimed", "started"}
    BY <1>2, <1>4 DEF Remote!Acked, Remote!HoldsLease, AttemptRow, Remote!AttemptStatus
  <2>3. /\ itemRow' \in Rows /\ itemRow'[i][attempt] = Remote!Acked(r)
        /\ \A j \in Items, b \in Remote!Attempts : (j # i \/ b # attempt) => itemRow'[j][b] = itemRow[j][b]
    BY <1>2, <1>3, <2>1, <2>2 DEF Rows
  <2>4. Tame(i, attempt) /\ Grows(i, attempt)
    BY <1>2, <2>2, <2>3 DEF Tame, Grows, Ended, Remote!LeaseLive, Remote!IsTerminalAttempt, Remote!TerminalAttempt
  <2>5. \A j \in Items, b \in Remote!Attempts : Tame(j, b) /\ Grows(j, b)
    BY <2>3, <2>4, UntouchedRow DEF RemoteInv, RunnerInv
  <2>6. \A j \in Items, b \in Remote!Attempts :
           itemRow'[j][b].status = "completed" => itemRow[j][b].status = "completed"
    BY <2>2, <2>3
  <2> QED
    BY <1>1, <1>3, <2>1, <2>3, <2>5, <2>6, ItemGoesOn DEF OnItsWay
<1>5. CASE ~Remote!HoldsLease(r, epoch, itemToken[i])
  <2>1. itemRow' = [itemRow EXCEPT ![i][attempt] = r] /\ disp' = [disp EXCEPT ![i] = "failed"]
    BY <1>5 DEF Remote!AckInstance, Remote!Step
  <2>2. itemRow' = itemRow
    BY <1>2, <1>3, <2>1 DEF Rows
  <2>3. \A j \in Items, b \in Remote!Attempts : Tame(j, b) /\ Grows(j, b)
    BY <2>2, UntouchedRow DEF RemoteInv, RunnerInv
  <2>4. Ended(i, attempt)
    BY <1>1, <1>2, <1>5 DEF ItemOwnsRow, OnItsWay, Remote!HoldsLease
  <2>5. Ended(i, attempt)'
    BY <1>1, <2>2, <2>4 DEF Ended
  <2> QED
    BY <1>1, <1>3, <2>1, <2>2, <2>3, <2>5, ItemGoesOn DEF OnItsWay
<1> QED
  BY <1>4, <1>5

\* The dispatch is refused, or the wait is over.
LEMMA GiveUpStep ==
    ASSUME RemoteInv, NEW i \in Items, Remote!RefuseInstance(i) \/ Remote!GiveUpInstance(i)
    PROVE  RemoteInv'
<1>1. /\ runnerUp /\ disp[i] \in OnItsWay
      /\ itemRow' = [itemRow EXCEPT ![i][attempt] = Remote!Settle(itemRow[i][attempt], itemToken[i], "failed")]
      /\ disp' = [disp EXCEPT ![i] = "failed"]
      /\ UNCHANGED <<artifact, queue, work, runnerUp, epoch, attempt, itemToken, slot, cache>>
  BY DEF Remote!RefuseInstance, Remote!GiveUpInstance, Remote!Step, OnItsWay
<1>2. attempt \in Remote!Attempts /\ ItemOwnsRow(i)
  BY RowOfItem
<1>3. /\ itemRow' \in Rows
      /\ \A j \in Items, b \in Remote!Attempts : Tame(j, b) /\ Grows(j, b)
      /\ \A j \in Items, b \in Remote!Attempts : (j # i \/ b # attempt) => itemRow'[j][b] = itemRow[j][b]
      /\ itemRow'[i][attempt].status = itemRow[i][attempt].status \/ itemRow'[i][attempt].status = "failed"
      /\ itemRow[i][attempt].status \in {"queued", "claimed", "started"} /\ itemRow[i][attempt].gen = itemToken[i] =>
            Ended(i, attempt)'
  BY <1>1, <1>2, SettlingRows DEF RemoteInv
<1>4. Ended(i, attempt)'
  <2>1. CASE Ended(i, attempt)
    <3>1. Tame(i, attempt)
      BY <1>2, <1>3
    <3> QED
      BY <1>1, <2>1, <3>1 DEF Tame, Ended
  <2>2. CASE ~Ended(i, attempt)
    BY <1>1, <1>2, <1>3, <2>2 DEF ItemOwnsRow
  <2> QED
    BY <2>1, <2>2
<1>5. \A j \in Items, b \in Remote!Attempts :
         itemRow'[j][b].status = "completed" => itemRow[j][b].status = "completed"
  BY <1>2, <1>3
<1>6. itemToken \in [Items -> Nat]
  BY DEF RemoteInv, RemoteTypes
<1> QED
  BY <1>1, <1>3, <1>4, <1>5, <1>6, ItemGoesOn DEF OnItsWay

\* The job of an item is put on the queue, under the token of its claim.
LEMMA EnqueueStep ==
    ASSUME RemoteInv, NEW i \in Items, Remote!EnqueueInstance(i)
    PROVE  RemoteInv'
<1> DEFINE job == [inst |-> i, attempt |-> attempt, gen |-> itemToken[i]]
<1>1. /\ runnerUp /\ disp[i] = "acked" /\ disp' = [disp EXCEPT ![i] = "waiting"]
      /\ queue' = [queue EXCEPT ![job].at = "pending"]
      /\ UNCHANGED <<itemRow, artifact, work, runnerUp, epoch, attempt, itemToken, slot, cache>>
  BY DEF Remote!EnqueueInstance
<1>2. RemoteTypes /\ RunnerInv /\ ResultInv /\ attempt \in Remote!Attempts /\ ItemOwnsRow(i)
  BY RowOfItem DEF RemoteInv
<1>3. queue' \in [Remote!Jobs -> [at : {"nowhere", "pending", "processing", "settled"}, n : Nat]]
      /\ \A j \in Remote!Jobs : j # job => queue'[j] = queue[j]
  <2> HIDE DEF job
  <2> QED
    BY <1>1, <1>2 DEF RemoteTypes
<1>4. RemoteTypes'
  <2>1. disp' \in [Items -> {"idle", "got", "failed"} \cup OnItsWay]
    BY <1>1, <1>2 DEF RemoteTypes, OnItsWay
  <2> QED
    BY <1>1, <1>2, <1>3, <2>1 DEF RemoteTypes
<1>5. disp'[i] = "waiting" /\ \A j \in Items : j # i => disp'[j] = disp[j]
  BY <1>1, <1>2 DEF RemoteTypes
<1>6. \A j \in Items, b \in Remote!Attempts : Tame(j, b) /\ Grows(j, b)
  BY <1>1, <1>2, UntouchedRow DEF RunnerInv
<1>7. ASSUME NEW j \in Items
      PROVE  Moves(j)
  BY <1>1, <1>5 DEF Moves, OnItsWay
<1>8. RunnerInv'
  BY <1>1, <1>2, <1>4, <1>6, <1>7, RunnerFrame
<1>9. KeepsRecord
  <2>1. ASSUME NEW j \in Remote!Jobs, queue'[j].at # "nowhere"
        PROVE  queue[j].at # "nowhere" \/ Granted(j.inst, j.attempt, j.gen)
    <3>1. CASE j = job
      <4>1. j.inst = i /\ j.attempt = attempt /\ j.gen = itemToken[i]
        BY <3>1
      <4>2. itemRow[i][attempt].gen = itemToken[i] /\ itemToken[i] \in Nat
        BY <1>1, <1>2 DEF ItemOwnsRow, OnItsWay, RemoteTypes
      <4> QED
        BY <4>1, <4>2 DEF Granted
    <3> QED
      BY <1>3, <2>1, <3>1
  <2>2. \A k \in Items : /\ artifact'[k] = artifact[k]
                         /\ \E r \in Results : slot'[k] = r /\ OfItsAttempt(k, r)
                         /\ \E r \in Results : cache'[k] = r /\ OfItsAttempt(k, r)
    BY <1>1, <1>2 DEF RemoteTypes, ResultInv
  <2>3. \A k \in Items, a \in Remote!Attempts, g \in Nat : AtLeast(k, a, g) => AtLeast(k, a, g)'
    BY <1>1 DEF AtLeast
  <2> QED
    BY <1>1, <1>6, <2>1, <2>2, <2>3 DEF KeepsRecord
<1> QED
  BY <1>2, <1>4, <1>8, <1>9, ResultFrame DEF RemoteInv

\* The renewal of a lease.
LEMMA RenewStep ==
    ASSUME RemoteInv, NEW i \in Items, Remote!RenewInstance(i)
    PROVE  RemoteInv'
<1> DEFINE r == itemRow[i][attempt]
           s == Remote!Renewed(r, 1, 0)
<1>1. /\ runnerUp /\ disp[i] = "waiting" /\ Remote!HoldsLease(r, epoch, itemToken[i])
      /\ itemRow' = [itemRow EXCEPT ![i][attempt] = s]
      /\ UNCHANGED <<artifact, queue, work, runnerUp, epoch, attempt, disp, itemToken, slot, cache>>
  BY DEF Remote!RenewInstance, Remote!runnerVars, Remote!Now
<1>2. RemoteTypes /\ RunnerInv /\ ResultInv /\ attempt \in Remote!Attempts /\ r \in AttemptRow /\ r.gen \in Nat
  BY RowOfItem DEF RemoteInv
<1>3. /\ s \in AttemptRow /\ s.status = r.status /\ s.gen = r.gen /\ s.claimedBy = r.claimedBy
      /\ r.status \in {"claimed", "started"}
  BY <1>1, <1>2 DEF Remote!Renewed, Remote!HoldsLease, AttemptRow
<1>4. /\ itemRow' \in Rows /\ itemRow'[i][attempt] = s
      /\ \A j \in Items, b \in Remote!Attempts : (j # i \/ b # attempt) => itemRow'[j][b] = itemRow[j][b]
  <2> HIDE DEF s
  <2> QED
    BY <1>1, <1>2, <1>3 DEF RemoteTypes, Rows
<1> HIDE DEF s
<1>5. Tame(i, attempt) /\ Grows(i, attempt)
  BY <1>1, <1>2, <1>3, <1>4 DEF Tame, Grows, Ended
<1>6. \A j \in Items, b \in Remote!Attempts : Tame(j, b) /\ Grows(j, b)
  BY <1>2, <1>4, <1>5, UntouchedRow DEF RunnerInv
<1>7. RemoteTypes'
  BY <1>1, <1>2, <1>4 DEF RemoteTypes
<1>8. RunnerInv'
  BY <1>1, <1>2, <1>6, <1>7, RunnerFrame DEF Moves
<1>9. \A j \in Items, b \in Remote!Attempts :
         itemRow'[j][b].status = "completed" => itemRow[j][b].status = "completed"
  BY <1>3, <1>4
<1>10. KeepsRecord
  BY <1>1, <1>2, <1>6, <1>7, <1>9, RecordFrame
<1> QED
  BY <1>2, <1>7, <1>8, <1>10, ResultFrame DEF RemoteInv

\* The row is settled, and the artifact that is read is of this attempt.
LEMMA PollStep ==
    ASSUME RemoteInv, NEW i \in Items, Remote!PollInstance(i)
    PROVE  RemoteInv'
<1> DEFINE has == Remote!HasResult(i)
           to == IF has THEN "got" ELSE "failed"
           result == IF has THEN artifact[i] ELSE Remote!None
<1>1. /\ runnerUp /\ disp[i] = "waiting" /\ Ended(i, attempt)
      /\ disp' = [disp EXCEPT ![i] = to] /\ slot' = [slot EXCEPT ![i] = result]
      /\ UNCHANGED <<itemRow, artifact, queue, work, runnerUp, epoch, attempt, itemToken, cache>>
  BY DEF Remote!PollInstance, Ended, Remote!IsTerminalAttempt, Remote!TerminalAttempt
<1>2. /\ RemoteTypes /\ RunnerInv /\ ResultInv /\ attempt \in Remote!Attempts /\ ItemOwnsRow(i)
      /\ itemRow[i][attempt].gen \in Nat /\ artifact[i] \in Results /\ Remote!None \in Results
  BY RowOfItem DEF RemoteInv, RemoteTypes, Results
<1>3. has => result # Remote!None
  BY DEF Remote!HasResult
<1>4. OfItsAttempt(i, result)
  <2> SUFFICES ASSUME has
               PROVE  artifact[i].attempt = attempt /\ artifact[i].gen = itemRow[i][attempt].gen
    BY DEF OfItsAttempt, Remote!HasResult
  <2>1. /\ itemRow[i][attempt].status = "completed" /\ artifact[i] # Remote!None
        /\ itemRow[i][attempt].gen > 0
    BY <1>1, <1>2 DEF Remote!HasResult, ItemOwnsRow, OnItsWay
  <2>2. /\ artifact[i].attempt \in Remote!Attempts /\ artifact[i].gen \in Nat /\ artifact[i].gen > 0
        /\ \A a \in Remote!Attempts : a \in Nat
    BY <1>2, <2>1, SharedRowsAssumption DEF Results, Remote!Written, Remote!Attempts
  <2>3. itemRow[i][artifact[i].attempt].gen >= artifact[i].gen
    BY <1>2, <2>1 DEF ResultInv, WorkIsClaimed
  <2>4. \/ artifact[i].attempt > attempt
        \/ artifact[i].attempt = attempt /\ artifact[i].gen >= itemRow[i][attempt].gen
    BY <1>2, <2>1 DEF ResultInv, Remote!CompletedIsOnRecord
  <2>5. ~(artifact[i].attempt > attempt)
    <3>1. \A a \in Remote!Attempts : attempt < a => itemRow[i][a].gen = 0
      BY <1>1, <1>2 DEF ItemOwnsRow, OnItsWay
    <3> QED
      BY <1>2, <2>2, <2>3, <3>1
  <2> QED
    BY <1>2, <2>2, <2>3, <2>4, <2>5
<1>5. result \in Results /\ to \in {"got", "failed"} /\ (to = "got" => result # Remote!None)
  BY <1>2, <1>3
<1> HIDE DEF result, to, has
<1>6. RemoteTypes'
  <2>1. disp' \in [Items -> {"idle", "got", "failed"} \cup OnItsWay] /\ slot' \in [Items -> Results]
    BY <1>1, <1>2, <1>5 DEF RemoteTypes
  <2> QED
    BY <1>1, <1>2, <2>1 DEF RemoteTypes
<1>7. disp'[i] = to /\ slot'[i] = result /\ \A j \in Items : j # i => disp'[j] = disp[j] /\ slot'[j] = slot[j]
  BY <1>1, <1>2 DEF RemoteTypes
<1>8. \A j \in Items, b \in Remote!Attempts : Tame(j, b) /\ Grows(j, b)
  BY <1>1, <1>2, UntouchedRow DEF RunnerInv
<1>9. Ended(i, attempt)'
  BY <1>1 DEF Ended
<1>10. ASSUME NEW j \in Items
       PROVE  Moves(j)
  BY <1>1, <1>5, <1>7, <1>9 DEF Moves, OnItsWay
<1>11. RunnerInv'
  BY <1>1, <1>2, <1>6, <1>8, <1>10, RunnerFrame
<1>12. \A j \in Items : slot'[j] = slot[j] \/ OfItsAttempt(j, slot'[j])
  BY <1>4, <1>7
<1>13. KeepsRecord
  BY <1>1, <1>2, <1>6, <1>8, <1>12, RecordFrame
<1> QED
  BY <1>2, <1>6, <1>11, <1>13, ResultFrame DEF RemoteInv
-----------------------------------------------------------------------------
(* The node                                                                *)

\* The node ends one way or another, or the run is cancelled.
LEMMA NodeEndStep ==
    ASSUME RemoteInv,
           Remote!NodeSucceeds \/ Remote!NodeFails \/ Remote!NodeAbandoned \/ Remote!RequestCancel
    PROVE  RemoteInv'
<1>1. /\ UNCHANGED <<itemRow, artifact, queue, work, runnerUp, epoch, attempt, disp, itemToken, slot>>
      /\ \/ cache' = cache
         \/ /\ runnerUp /\ (\A i \in Items : disp[i] \in {"got", "failed"})
            /\ cache' = [i \in Items |-> IF slot[i] # Remote!None THEN slot[i] ELSE cache[i]]
  BY DEF Remote!NodeSucceeds, Remote!NodeFails, Remote!NodeAbandoned, Remote!RequestCancel, Remote!EndAttempt,
     Remote!Remembered, Remote!runnerVars
<1>2. RemoteTypes /\ RunnerInv /\ ResultInv
  BY DEF RemoteInv
<1>3. \A i \in Items : /\ slot[i] \in Results /\ cache[i] \in Results
                       /\ cache'[i] = cache[i] \/ (cache'[i] = slot[i] /\ slot[i] # Remote!None)
                       /\ cache'[i] # cache[i] => runnerUp /\ disp[i] \in {"got", "failed"}
  BY <1>1, <1>2 DEF RemoteTypes
<1>4. cache' \in [Items -> Results]
  BY <1>1, <1>2, <1>3 DEF RemoteTypes
<1>5. RemoteTypes'
  BY <1>1, <1>2, <1>4 DEF RemoteTypes
<1>6. \A j \in Items, b \in Remote!Attempts : Tame(j, b) /\ Grows(j, b)
  BY <1>1, <1>2, UntouchedRow DEF RunnerInv
<1>7. \A j \in Items : Moves(j)
  BY <1>1 DEF Moves
<1>8. \A i \in Items : cache'[i] # cache[i] =>
         runnerUp /\ cache'[i] # Remote!None /\ disp'[i] \in {"got", "failed"}
  BY <1>1, <1>3
<1>9. RunnerInv'
  BY <1>1, <1>2, <1>5, <1>6, <1>7, <1>8, RunnerFrame
<1>10. \A k \in Items : /\ artifact'[k] = artifact[k]
                        /\ \E r \in Results : slot'[k] = r /\ OfItsAttempt(k, r)
                        /\ \E r \in Results : cache'[k] = r /\ OfItsAttempt(k, r)
  BY <1>1, <1>2, <1>3 DEF ResultInv
<1>11. KeepsRecord
  <2>1. \A k \in Items, a \in Remote!Attempts, g \in Nat : AtLeast(k, a, g) => AtLeast(k, a, g)'
    BY <1>1 DEF AtLeast
  <2> QED
    BY <1>1, <1>6, <1>10, <2>1 DEF KeepsRecord
<1> QED
  BY <1>2, <1>5, <1>9, <1>11, ResultFrame DEF RemoteInv

\* The next attempt: what succeeded is kept, and its row is completed from the start.
LEMMA RetryStep ==
    ASSUME RemoteInv, Remote!NodeRetries
    PROVE  RemoteInv'
<1> DEFINE kept == [i \in Items |-> IF slot[i] # Remote!None THEN slot[i] ELSE cache[i]]
<1>1. /\ runnerUp /\ (\A i \in Items : disp[i] \in {"got", "failed"}) /\ attempt < MaxAttempt
      /\ attempt' = attempt + 1 /\ cache' = kept /\ slot' = kept
      /\ disp' = [i \in Items |-> IF kept[i] # Remote!None THEN "got" ELSE "idle"]
      /\ itemRow' = [i \in Items |->
            IF kept[i] # Remote!None THEN [itemRow[i] EXCEPT ![attempt + 1] = Remote!ReusedRow(itemRow[i][attempt + 1])]
            ELSE itemRow[i]]
      /\ UNCHANGED <<artifact, queue, work, runnerUp, epoch, itemToken>>
  BY DEF Remote!NodeRetries, Remote!EndAttempt, Remote!Remembered
<1>2. /\ RemoteTypes /\ RunnerInv /\ ResultInv
      /\ attempt \in Nat /\ attempt + 1 \in Remote!Attempts /\ attempt \in Remote!Attempts
      /\ \A a \in Remote!Attempts : a \in Nat
  BY <1>1, SharedRowsAssumption DEF RemoteInv, RemoteTypes, Remote!Attempts
<1>3. /\ kept \in [Items -> Results]
      /\ \A i \in Items : kept[i] = slot[i] \/ kept[i] = cache[i]
      /\ \A i \in Items : kept[i] = Remote!None => slot[i] = Remote!None /\ cache[i] = Remote!None
  BY <1>2 DEF RemoteTypes
<1>4. \A i \in Items : OfItsAttempt(i, kept[i])
  BY <1>2, <1>3 DEF ResultInv
<1> HIDE DEF kept
<1>5. \A i \in Items, a \in Remote!Attempts :
         /\ itemRow[i][a] \in AttemptRow
         /\ itemRow[i][a].gen \in Nat /\ itemRow[i][a].lease \in Int
         /\ itemRow[i][a].status = "absent" => itemRow[i][a].gen = 0
  BY <1>2 DEF RemoteTypes, Rows, AttemptRow, RunnerInv, AbsentIsUnclaimed
<1>6. ASSUME NEW r \in AttemptRow
      PROVE  /\ Remote!ReusedRow(r) \in AttemptRow /\ Remote!ReusedRow(r).gen = r.gen
             /\ Remote!ReusedRow(r) = r \/ (r.status = "absent" /\ Remote!ReusedRow(r).status = "completed")
  BY DEF Remote!ReusedRow, AttemptRow, Remote!AttemptStatus, Remote!TerminalAttempt
<1>7. ASSUME NEW i \in Items, NEW a \in Remote!Attempts
      PROVE  /\ itemRow'[i][a] \in AttemptRow /\ itemRow'[i][a].gen = itemRow[i][a].gen
             /\ \/ itemRow'[i][a] = itemRow[i][a]
                \/ itemRow[i][a].status = "absent" /\ itemRow'[i][a].status = "completed"
  <2>1. itemRow'[i][a] = itemRow[i][a] \/ itemRow'[i][a] = Remote!ReusedRow(itemRow[i][a])
    BY <1>1, <1>2 DEF RemoteTypes, Rows
  <2> QED
    BY <1>5, <1>6, <2>1
<1>8. itemRow' \in Rows
  <2>1. itemRow' = [i \in Items |-> itemRow'[i]]
    BY <1>1
  <2>2. ASSUME NEW i \in Items
        PROVE  itemRow'[i] \in [Remote!Attempts -> AttemptRow]
    <3>1. itemRow[i] \in [Remote!Attempts -> AttemptRow]
      BY <1>2 DEF RemoteTypes, Rows
    <3>2. itemRow'[i] = [a \in Remote!Attempts |-> itemRow'[i][a]]
      BY <1>1, <3>1
    <3> QED
      BY <1>7, <3>2
  <2> QED
    BY <2>1, <2>2 DEF Rows
<1>9. RemoteTypes'
  <2>1. disp' \in [Items -> {"idle", "got", "failed"} \cup OnItsWay]
    BY <1>1
  <2> QED
    BY <1>1, <1>2, <1>3, <1>8, <2>1 DEF RemoteTypes
<1>10. \A i \in Items, a \in Remote!Attempts : Ended(i, a) => Ended(i, a)'
  BY <1>7 DEF Ended
<1>11. RunnerInv'
  <2>1. AbsentIsUnclaimed'
    BY <1>2, <1>7 DEF RunnerInv, AbsentIsUnclaimed
  <2>2. ClaimedInOrder'
    BY <1>2, <1>7, <1>10 DEF RunnerInv, ClaimedInOrder
  <2>3. LeasesAreOwn'
    <3>1. ASSUME NEW i \in Items, NEW a \in Remote!Attempts, Remote!LeaseLive(itemRow'[i][a])
          PROVE  a < attempt + 1
      <4>1. Remote!LeaseLive(itemRow[i][a])
        BY <1>7, <3>1 DEF Remote!LeaseLive, Remote!IsTerminalAttempt, Remote!TerminalAttempt
      <4> QED
        BY <1>1, <1>2, <4>1 DEF RunnerInv, LeasesAreOwn
    <3> QED
      BY <1>1, <3>1 DEF LeasesAreOwn
  <2>4. DownIsFresh'
    BY <1>1 DEF DownIsFresh
  <2>5. ASSUME NEW i \in Items
        PROVE  ItemOwnsRow(i)' /\ ItemEnded(i)'
    <3>1. ItemEnded(i) /\ disp[i] \in {"got", "failed"}
      BY <1>1, <1>2 DEF RunnerInv
    <3>2. disp'[i] \in {"got", "idle"} /\ (disp'[i] = "got" <=> kept[i] # Remote!None)
      BY <1>1
    <3>3. kept[i] = Remote!None => \A a \in Remote!Attempts : a < attempt + 1 => Ended(i, a)
      BY <1>2, <1>3, <3>1 DEF ItemEnded
    <3>4. ItemOwnsRow(i)'
      BY <3>2 DEF ItemOwnsRow, OnItsWay
    <3>5. ItemEnded(i)'
      BY <1>1, <1>10, <3>2, <3>3 DEF ItemEnded
    <3> QED
      BY <3>4, <3>5
  <2> QED
    BY <2>1, <2>2, <2>3, <2>4, <2>5 DEF RunnerInv
<1>12. KeepsRecord
  <2>1. \A i \in Items, a \in Remote!Attempts : Grows(i, a)
    BY <1>5, <1>7 DEF Grows, Ended
  <2>2. \A i \in Items, a \in Remote!Attempts :
           itemRow'[i][a].status = "completed" => itemRow[i][a].status = "completed" \/ itemRow'[i][a].gen = 0
    BY <1>5, <1>7
  <2>3. \A k \in Items, a \in Remote!Attempts, g \in Nat : AtLeast(k, a, g) => AtLeast(k, a, g)'
    BY <1>1 DEF AtLeast
  <2>4. \A k \in Items : /\ artifact'[k] = artifact[k]
                         /\ \E r \in Results : slot'[k] = r /\ OfItsAttempt(k, r)
                         /\ \E r \in Results : cache'[k] = r /\ OfItsAttempt(k, r)
    BY <1>1, <1>3, <1>4
  <2> QED
    BY <1>1, <2>1, <2>2, <2>3, <2>4 DEF KeepsRecord
<1> QED
  BY <1>2, <1>9, <1>11, <1>12, ResultFrame DEF RemoteInv

\* The process dies, and another takes the run up when no lease is live.
LEMMA CrashStep ==
    ASSUME RemoteInv, Remote!Crash \/ Remote!Restart
    PROVE  RemoteInv'
<1>1. RemoteTypes /\ RunnerInv /\ ResultInv /\ 0 \in Remote!Attempts /\ Remote!None \in Results
      /\ \A a \in Remote!Attempts : a \in Nat
  BY SharedRowsAssumption DEF RemoteInv, Remote!Attempts, Results
<1>2. UNCHANGED <<itemRow, artifact, queue, work>>
  BY DEF Remote!Crash, Remote!Restart
<1>3. /\ attempt' = 0 /\ runnerUp' \in BOOLEAN /\ epoch' \in Nat
      /\ disp' \in [Items -> {"idle", "got", "failed"} \cup OnItsWay] /\ itemToken' \in [Items -> Nat]
      /\ slot' \in [Items -> Results] /\ cache' \in [Items -> Results]
      /\ \A i \in Items : disp'[i] = "idle" /\ slot'[i] = Remote!None /\ cache'[i] = Remote!None
  <2>1. CASE Remote!Crash
    BY <1>1, <2>1 DEF Remote!Crash, RemoteTypes
  <2>2. CASE Remote!Restart
    BY <1>1, <2>2 DEF Remote!Restart, RemoteTypes, RunnerInv, DownIsFresh
  <2> QED
    BY <2>1, <2>2
<1>4. RemoteTypes'
  BY <1>1, <1>2, <1>3 DEF RemoteTypes
<1>5. runnerUp' => \A i \in Items, a \in Remote!Attempts : ~Remote!LeaseLive(itemRow[i][a])
  BY DEF Remote!Crash, Remote!Restart
<1>6. RunnerInv'
  BY <1>1, <1>2, <1>3, <1>5 DEF RunnerInv, AbsentIsUnclaimed, ClaimedInOrder, LeasesAreOwn, DownIsFresh, ItemOwnsRow, ItemEnded,
     Ended, OnItsWay
<1>7. ResultInv'
  BY <1>1, <1>2, <1>3 DEF ResultInv, WorkIsClaimed, WroteIsOnRecord, AtLeast, Remote!CompletedIsOnRecord, OfItsAttempt
<1> QED
  BY <1>4, <1>6, <1>7 DEF RemoteInv
-----------------------------------------------------------------------------
(* The worker and the job queue                                            *)

\* What a job, a delivery and an artifact are made of.
LEMMA PartsOfJobs ==
    /\ \A j \in Remote!Jobs : j.inst \in Items /\ j.attempt \in Remote!Attempts /\ j.gen \in Nat
    /\ \A d \in Remote!Deliveries : d.job \in Remote!Jobs
    /\ \A a \in Remote!Attempts : a \in Nat
  BY SharedRowsAssumption DEF Remote!Jobs, Remote!Deliveries, Remote!Attempts

\* What a step of a worker does to the rows, the jobs and the artifacts.
WorkGoesOn ==
    /\ \A i \in Items, a \in Remote!Attempts : Tame(i, a) /\ Grows(i, a)
    /\ \A i \in Items, a \in Remote!Attempts :
          itemRow'[i][a].status = "completed" =>
              \/ itemRow[i][a].status = "completed"
              \/ AtLeast(i, a, itemRow[i][a].gen)' /\ itemRow'[i][a].gen = itemRow[i][a].gen
    /\ \A i \in Items, a \in Remote!Attempts, g \in Nat : AtLeast(i, a, g) => AtLeast(i, a, g)'
    /\ \A j \in Remote!Jobs : queue'[j].at # "nowhere" => queue[j].at # "nowhere"
    /\ \A d \in Remote!Deliveries :
          /\ work'[d] # "none" => work[d] # "none" \/ queue[d.job].at # "nowhere"
          /\ work'[d] = "wrote" => work[d] = "wrote" \/ AtLeast(d.job.inst, d.job.attempt, d.job.gen)'
    /\ \A i \in Items :
          \/ artifact'[i] = artifact[i]
          \/ artifact'[i] \in Remote!Written /\ Granted(i, artifact'[i].attempt, artifact'[i].gen)

\* A step of the nodes and the queue alone.
LEMMA WorkerFrame ==
    ASSUME RemoteInv, RemoteTypes', WorkGoesOn,
           UNCHANGED <<runnerUp, epoch, attempt, disp, itemToken, slot, cache>>
    PROVE  RemoteInv'
<1>1. RemoteTypes /\ RunnerInv /\ ResultInv
  BY DEF RemoteInv
<1>2. RunnerInv'
  <2>1. \A i \in Items, a \in Remote!Attempts : Tame(i, a)
    BY DEF WorkGoesOn
  <2>2. \A i \in Items : Moves(i)
    BY DEF Moves
  <2> QED
    BY <1>1, <2>1, <2>2, RunnerFrame
<1>3. KeepsRecord
  <2>1. \A j \in Remote!Jobs : queue[j].at # "nowhere" => Granted(j.inst, j.attempt, j.gen)
    BY <1>1 DEF ResultInv, WorkIsClaimed, Granted
  <2>2. \A d \in Remote!Deliveries :
           /\ work'[d] # "none" => work[d] # "none" \/ Granted(d.job.inst, d.job.attempt, d.job.gen)
           /\ work'[d] = "wrote" => work[d] = "wrote" \/ AtLeast(d.job.inst, d.job.attempt, d.job.gen)'
    BY <2>1, PartsOfJobs DEF WorkGoesOn
  <2>3. \A i \in Items : slot[i] \in Results /\ cache[i] \in Results /\ slot'[i] = slot[i] /\ cache'[i] = cache[i]
    BY <1>1 DEF RemoteTypes
  <2>4. \A i \in Items : /\ \E r \in Results : slot'[i] = r /\ OfItsAttempt(i, r)
                         /\ \E r \in Results : cache'[i] = r /\ OfItsAttempt(i, r)
    BY <1>1, <2>3 DEF ResultInv
  <2> QED
    BY <2>2, <2>4 DEF WorkGoesOn, KeepsRecord
<1> QED
  BY <1>1, <1>2, <1>3, ResultFrame DEF RemoteInv

\* A job that a worker is done with, and its delivery.
LEMMA FinishedDelivery ==
    ASSUME RemoteTypes, NEW d \in Remote!Deliveries, NEW at \in {"settled", "pending"}, Remote!FinishDelivery(d, at)
    PROVE  /\ queue' \in [Remote!Jobs -> [at : {"nowhere", "pending", "processing", "settled"}, n : Nat]]
           /\ work' \in [Remote!Deliveries -> {"none", "running", "cancelled", "wrote"}]
           /\ \A j \in Remote!Jobs : queue'[j].at # "nowhere" => queue[j].at # "nowhere"
           /\ \A e \in Remote!Deliveries : work'[e] = work[e] \/ work'[e] = "none"
<1>1. work' = [work EXCEPT ![d] = "none"]
  BY DEF Remote!FinishDelivery
<1>2. d.job \in Remote!Jobs
  BY PartsOfJobs
<1>3. CASE ~Remote!Held(d)
  <2>1. queue' = queue
    BY <1>3 DEF Remote!FinishDelivery
  <2> QED
    BY <1>1, <2>1 DEF RemoteTypes
<1>4. CASE Remote!Held(d)
  <2>1. queue' = [queue EXCEPT ![d.job].at = at]
    BY <1>4 DEF Remote!FinishDelivery
  <2>2. queue[d.job].at = "processing"
    BY <1>4 DEF Remote!Held
  <2> QED
    BY <1>1, <1>2, <2>1, <2>2 DEF RemoteTypes
<1> QED
  BY <1>3, <1>4

\* Rows that a worker leaves as they are.
LEMMA RowsAreKept ==
    ASSUME RemoteInv, UNCHANGED itemRow
    PROVE  \A i \in Items, a \in Remote!Attempts : Tame(i, a) /\ Grows(i, a)
  BY UntouchedRow DEF RemoteInv, RunnerInv

\* A job is offered to a worker, or offered again.
LEMMA DeliverStep ==
    ASSUME RemoteInv, NEW j \in Remote!Jobs, Remote!Deliver(j) \/ Remote!HandOn(j)
    PROVE  RemoteInv'
<1>1. RemoteTypes /\ queue[j].n \in Nat /\ queue[j].n + 1 \in Nat
  BY DEF RemoteInv, RemoteTypes
<1>2. /\ UNCHANGED <<itemRow, artifact, runnerUp, epoch, attempt, disp, itemToken, slot, cache>>
      /\ queue[j].at # "nowhere"
  BY DEF Remote!Deliver, Remote!HandOn, Remote!runnerVars
<1>3. /\ queue' \in [Remote!Jobs -> [at : {"nowhere", "pending", "processing", "settled"}, n : Nat]]
      /\ \A k \in Remote!Jobs : k # j => queue'[k] = queue[k]
  <2>1. CASE Remote!Deliver(j)
    <3>1. queue' = [queue EXCEPT ![j] = [at |-> "processing", n |-> queue[j].n + 1]]
      BY <2>1 DEF Remote!Deliver
    <3> QED
      BY <1>1, <3>1 DEF RemoteTypes
  <2>2. CASE Remote!HandOn(j)
    <3>1. queue' = [queue EXCEPT ![j].at = "pending"]
      BY <2>2 DEF Remote!HandOn
    <3> QED
      BY <1>1, <3>1 DEF RemoteTypes
  <2> QED
    BY <2>1, <2>2
<1>4. /\ work' \in [Remote!Deliveries -> {"none", "running", "cancelled", "wrote"}]
      /\ \A e \in Remote!Deliveries :
            work'[e] = work[e] \/ (e.job = j /\ work'[e] \in {"running", "cancelled"})
  <2>1. CASE Remote!Deliver(j)
    <3> DEFINE d == [job |-> j, n |-> queue[j].n + 1]
               w == IF cancelled THEN "cancelled" ELSE "running"
    <3>1. work' = [work EXCEPT ![d] = w] /\ d.job = j /\ w \in {"running", "cancelled"}
      BY <2>1 DEF Remote!Deliver
    <3> HIDE DEF d, w
    <3> QED
      BY <1>1, <3>1 DEF RemoteTypes
  <2>2. CASE Remote!HandOn(j)
    BY <1>1, <2>2 DEF Remote!HandOn, RemoteTypes
  <2> QED
    BY <2>1, <2>2
<1>5. RemoteTypes'
  BY <1>1, <1>2, <1>3, <1>4 DEF RemoteTypes
<1>6. \A i \in Items, a \in Remote!Attempts, g \in Nat : AtLeast(i, a, g) => AtLeast(i, a, g)'
  BY <1>2 DEF AtLeast
<1>7. WorkGoesOn
  BY <1>2, <1>3, <1>4, <1>6, RowsAreKept DEF WorkGoesOn
<1> QED
  BY <1>2, <1>5, <1>7, WorkerFrame

\* A worker fails its order, or completes the attempt whose result it wrote.
LEMMA WorkSettleStep ==
    ASSUME RemoteInv, NEW d \in Remote!Deliveries,
           Remote!ExecFails(d) \/ Remote!StoreFails(d) \/ Remote!CompleteResult(d)
    PROVE  RemoteInv'
<1> DEFINE to == IF Remote!CompleteResult(d) THEN "completed" ELSE "failed"
           i == d.job.inst
           a == d.job.attempt
           g == d.job.gen
<1>1. /\ RemoteTypes /\ RunnerInv /\ ResultInv
      /\ i \in Items /\ a \in Remote!Attempts /\ g \in Nat
  BY PartsOfJobs DEF RemoteInv
<1>2. /\ UNCHANGED <<artifact, runnerUp, epoch, attempt, disp, itemToken, slot, cache>>
      /\ to = "completed" => work[d] = "wrote"
      /\ to \in {"completed", "failed"}
      /\ itemRow' = [itemRow EXCEPT ![i][a] = Remote!Settle(itemRow[i][a], g, to)]
      /\ Remote!FinishDelivery(d, "settled") \/ Remote!FinishDelivery(d, "pending")
  <2>1. CASE Remote!CompleteResult(d)
    BY <2>1 DEF Remote!CompleteResult, Remote!runnerVars
  <2>2. CASE ~Remote!CompleteResult(d)
    BY <2>2 DEF Remote!ExecFails, Remote!StoreFails, Remote!runnerVars
  <2> QED
    BY <2>1, <2>2
<1> HIDE DEF to, i, a, g
<1>3. /\ itemRow' \in Rows
      /\ \A k \in Items, b \in Remote!Attempts : Tame(k, b) /\ Grows(k, b)
      /\ \A k \in Items, b \in Remote!Attempts : (k # i \/ b # a) => itemRow'[k][b] = itemRow[k][b]
      /\ itemRow'[i][a].status = itemRow[i][a].status \/ (itemRow[i][a].gen = g /\ itemRow'[i][a].status = to)
      /\ itemRow'[i][a].gen = itemRow[i][a].gen
  BY <1>1, <1>2, SettlingRows
<1>4. /\ queue' \in [Remote!Jobs -> [at : {"nowhere", "pending", "processing", "settled"}, n : Nat]]
      /\ work' \in [Remote!Deliveries -> {"none", "running", "cancelled", "wrote"}]
      /\ \A j \in Remote!Jobs : queue'[j].at # "nowhere" => queue[j].at # "nowhere"
      /\ \A e \in Remote!Deliveries : work'[e] = work[e] \/ work'[e] = "none"
  BY <1>1, <1>2, FinishedDelivery
<1>5. RemoteTypes'
  BY <1>1, <1>2, <1>3, <1>4 DEF RemoteTypes
<1>6. ASSUME NEW k \in Items, NEW b \in Remote!Attempts, itemRow'[k][b].status = "completed"
      PROVE  \/ itemRow[k][b].status = "completed"
             \/ AtLeast(k, b, itemRow[k][b].gen)' /\ itemRow'[k][b].gen = itemRow[k][b].gen
  <2>1. CASE k = i /\ b = a /\ itemRow[i][a].gen = g /\ to = "completed"
    <3>1. AtLeast(i, a, g)
      BY <1>1, <1>2, <2>1 DEF ResultInv, WroteIsOnRecord, i, a, g
    <3>2. AtLeast(i, a, itemRow[i][a].gen)'
      BY <1>2, <1>3, <2>1, <3>1 DEF AtLeast
    <3> QED
      BY <1>3, <2>1, <3>2
  <2>2. CASE ~(k = i /\ b = a /\ itemRow[i][a].gen = g /\ to = "completed")
    BY <1>2, <1>3, <1>6, <2>2
  <2> QED
    BY <2>1, <2>2
<1>7. \A k \in Items, b \in Remote!Attempts, h \in Nat : AtLeast(k, b, h) => AtLeast(k, b, h)'
  BY <1>2 DEF AtLeast
<1>8. WorkGoesOn
  BY <1>2, <1>3, <1>4, <1>6, <1>7 DEF WorkGoesOn
<1> QED
  BY <1>2, <1>5, <1>8, WorkerFrame

\* A worker writes its result, or is fenced off.
LEMMA WriteStep ==
    ASSUME RemoteInv, NEW d \in Remote!Deliveries, Remote!WriteResult(d)
    PROVE  RemoteInv'
<1> DEFINE i == d.job.inst
           a == d.job.attempt
           g == d.job.gen
           new == [attempt |-> a, gen |-> g]
<1>1. /\ RemoteTypes /\ ResultInv /\ i \in Items /\ a \in Remote!Attempts /\ g \in 1..MaxEpoch /\ g \in Nat
      /\ d.job \in Remote!Jobs
  BY PartsOfJobs DEF RemoteInv, Remote!Jobs
<1>2. /\ UNCHANGED <<itemRow, runnerUp, epoch, attempt, disp, itemToken, slot, cache>>
      /\ work[d] = "running"
  BY DEF Remote!WriteResult, Remote!runnerVars
<1>3. CASE ~Remote!OwnsArtifact(artifact[i], d.job)
  <2>1. Remote!FinishDelivery(d, "settled") /\ artifact' = artifact
    BY <1>3 DEF Remote!WriteResult
  <2>2. /\ queue' \in [Remote!Jobs -> [at : {"nowhere", "pending", "processing", "settled"}, n : Nat]]
        /\ work' \in [Remote!Deliveries -> {"none", "running", "cancelled", "wrote"}]
        /\ \A j \in Remote!Jobs : queue'[j].at # "nowhere" => queue[j].at # "nowhere"
        /\ \A e \in Remote!Deliveries : work'[e] = work[e] \/ work'[e] = "none"
    BY <1>1, <2>1, FinishedDelivery
  <2>3. RemoteTypes'
    BY <1>1, <1>2, <2>1, <2>2 DEF RemoteTypes
  <2>4. \A k \in Items, b \in Remote!Attempts, h \in Nat : AtLeast(k, b, h) => AtLeast(k, b, h)'
    BY <2>1 DEF AtLeast
  <2>5. WorkGoesOn
    BY <1>2, <2>1, <2>2, <2>4, RowsAreKept DEF WorkGoesOn
  <2> QED
    BY <1>2, <2>3, <2>5, WorkerFrame
<1>4. CASE Remote!OwnsArtifact(artifact[i], d.job)
  <2>1. artifact' = [artifact EXCEPT ![i] = new] /\ work' = [work EXCEPT ![d] = "wrote"] /\ queue' = queue
    BY <1>4 DEF Remote!WriteResult
  <2>2. new \in Remote!Written /\ new.attempt = a /\ new.gen = g
    BY <1>1 DEF Remote!Written
  <2>3. \/ artifact[i].attempt < a
        \/ artifact[i].attempt = a /\ artifact[i].gen <= g
    BY <1>4 DEF Remote!OwnsArtifact
  <2>4. artifact[i].attempt \in Int /\ artifact[i].gen \in Nat /\ \A b \in Remote!Attempts : b \in Nat
    <3>1. artifact[i] \in Results
      BY <1>1 DEF RemoteTypes
    <3>2. \A r \in Results : r.attempt \in Int /\ r.gen \in Nat
      BY SharedRowsAssumption DEF Results, Remote!Written, Remote!None, Remote!Attempts
    <3> QED
      BY <3>1, <3>2, PartsOfJobs
  <2> HIDE DEF new
  <2>5. artifact'[i] = new /\ \A k \in Items : k # i => artifact'[k] = artifact[k]
    BY <1>1, <2>1 DEF RemoteTypes
  <2>6. artifact' \in [Items -> Results] /\ work' \in [Remote!Deliveries -> {"none", "running", "cancelled", "wrote"}]
    BY <1>1, <2>1, <2>2 DEF RemoteTypes, Results
  <2>7. RemoteTypes'
    BY <1>1, <1>2, <2>1, <2>6 DEF RemoteTypes
  <2>8. ASSUME NEW k \in Items, NEW b \in Remote!Attempts, NEW h \in Nat, AtLeast(k, b, h)
        PROVE  AtLeast(k, b, h)'
    <3>1. CASE k = i
      <4> HIDE DEF a, g, i
      <4> QED
        BY <1>1, <2>2, <2>3, <2>4, <2>5, <2>8, <3>1, PartsOfJobs DEF AtLeast
    <3> QED
      BY <2>5, <2>8, <3>1 DEF AtLeast
  <2>9. AtLeast(d.job.inst, d.job.attempt, d.job.gen)'
    BY <1>1, <2>2, <2>5 DEF AtLeast
  <2>10. Granted(i, artifact'[i].attempt, artifact'[i].gen)
    BY <1>1, <1>2, <2>2, <2>5 DEF ResultInv, WorkIsClaimed, Granted
  <2>11. \A k \in Items : \/ artifact'[k] = artifact[k]
                          \/ artifact'[k] \in Remote!Written /\ Granted(k, artifact'[k].attempt, artifact'[k].gen)
    BY <2>2, <2>5, <2>10
  <2>12. \A e \in Remote!Deliveries : e # d => work'[e] = work[e]
    BY <1>1, <2>1 DEF RemoteTypes
  <2>13. \A e \in Remote!Deliveries :
          /\ work'[e] # "none" => work[e] # "none" \/ queue[e.job].at # "nowhere"
          /\ work'[e] = "wrote" => work[e] = "wrote" \/ AtLeast(e.job.inst, e.job.attempt, e.job.gen)'
    BY <1>2, <2>9, <2>12
  <2>14. WorkGoesOn
    BY <1>2, <2>1, <2>8, <2>11, <2>13, RowsAreKept DEF WorkGoesOn
  <2> QED
    BY <1>2, <2>7, <2>14, WorkerFrame
<1> QED
  BY <1>3, <1>4

\* A lease runs out.
LEMMA LeaseStep ==
    ASSUME RemoteInv, NEW i \in Items, NEW a \in Remote!Attempts, Remote!LeaseRunsOut(i, a)
    PROVE  RemoteInv'
<1> DEFINE s == [itemRow[i][a] EXCEPT !.lease = 0]
<1>1. /\ RemoteTypes /\ RunnerInv /\ ResultInv /\ itemRow[i][a] \in AttemptRow /\ itemRow[i][a].gen \in Nat
      /\ itemRow[i][a].status \in {"claimed", "started"}
  BY DEF RemoteInv, RemoteTypes, Rows, AttemptRow, Remote!LeaseRunsOut
<1>2. /\ itemRow' = [itemRow EXCEPT ![i][a] = s]
      /\ UNCHANGED <<artifact, queue, work, runnerUp, epoch, attempt, disp, itemToken, slot, cache>>
  BY DEF Remote!LeaseRunsOut, Remote!runnerVars
<1>3. /\ s \in AttemptRow /\ s.status = itemRow[i][a].status /\ s.gen = itemRow[i][a].gen
      /\ s.claimedBy = itemRow[i][a].claimedBy /\ s.lease = 0
  BY <1>1 DEF AttemptRow
<1> HIDE DEF s
<1>4. /\ itemRow' \in Rows /\ itemRow'[i][a] = s
      /\ \A j \in Items, b \in Remote!Attempts : (j # i \/ b # a) => itemRow'[j][b] = itemRow[j][b]
  BY <1>1, <1>2, <1>3 DEF RemoteTypes, Rows
<1>5. Tame(i, a) /\ Grows(i, a)
  BY <1>1, <1>3, <1>4 DEF Tame, Grows, Ended, Remote!LeaseLive, Remote!Now
<1>6. \A j \in Items, b \in Remote!Attempts : Tame(j, b) /\ Grows(j, b)
  BY <1>1, <1>4, <1>5, UntouchedRow DEF RunnerInv
<1>7. RemoteTypes'
  BY <1>1, <1>2, <1>4 DEF RemoteTypes
<1>8. \A j \in Items, b \in Remote!Attempts :
         itemRow'[j][b].status = "completed" => itemRow[j][b].status = "completed"
  BY <1>3, <1>4
<1>9. \A j \in Items, b \in Remote!Attempts, h \in Nat : AtLeast(j, b, h) => AtLeast(j, b, h)'
  BY <1>2 DEF AtLeast
<1>10. WorkGoesOn
  BY <1>2, <1>6, <1>8, <1>9 DEF WorkGoesOn
<1> QED
  BY <1>2, <1>7, <1>10, WorkerFrame

\* Recovery fails an attempt whose lease has run out.
LEMMA ReconcileStep ==
    ASSUME RemoteInv, Remote!Reconcile
    PROVE  RemoteInv'
<1>1. /\ RemoteTypes /\ RunnerInv /\ ResultInv
      /\ UNCHANGED <<artifact, queue, work, runnerUp, epoch, attempt, disp, itemToken, slot, cache>>
  BY DEF RemoteInv, Remote!Reconcile, Remote!runnerVars
<1>2. PICK i \in Items, a \in Remote!Attempts :
         itemRow' = [itemRow EXCEPT ![i][a] = Remote!Settle(itemRow[i][a], itemRow[i][a].gen, "failed")]
  BY DEF Remote!Reconcile
<1>3. PICK g : g = itemRow[i][a].gen
  OBVIOUS
<1>4. itemRow' = [itemRow EXCEPT ![i][a] = Remote!Settle(itemRow[i][a], g, "failed")]
  BY <1>2, <1>3
<1>5. /\ itemRow' \in Rows
      /\ \A k \in Items, b \in Remote!Attempts : Tame(k, b) /\ Grows(k, b)
      /\ \A k \in Items, b \in Remote!Attempts : (k # i \/ b # a) => itemRow'[k][b] = itemRow[k][b]
      /\ itemRow'[i][a].status = itemRow[i][a].status \/ itemRow'[i][a].status = "failed"
  BY <1>1, <1>4, SettlingRows
<1>6. RemoteTypes'
  BY <1>1, <1>5 DEF RemoteTypes
<1>7. \A k \in Items, b \in Remote!Attempts :
         itemRow'[k][b].status = "completed" => itemRow[k][b].status = "completed"
  BY <1>5
<1>8. \A k \in Items, b \in Remote!Attempts, h \in Nat : AtLeast(k, b, h) => AtLeast(k, b, h)'
  BY <1>1 DEF AtLeast
<1>9. WorkGoesOn
  BY <1>1, <1>5, <1>7, <1>8 DEF WorkGoesOn
<1> QED
  BY <1>1, <1>6, <1>9, WorkerFrame
-----------------------------------------------------------------------------

\* At the start no item has an attempt.
LEMMA RemoteInit == ASSUME Remote!Init PROVE RemoteInv
<1>1. /\ 0 \in Remote!Attempts /\ Remote!None \in Results /\ \A a \in Remote!Attempts : a \in Nat
  BY SharedRowsAssumption DEF Remote!Attempts, Results
<1>2. itemRow = [i \in Items |-> [a \in Remote!Attempts |-> Remote!AbsentRow]]
  BY DEF Remote!Init
<1>3. /\ Remote!AbsentRow \in AttemptRow /\ Remote!AbsentRow.status = "absent"
      /\ Remote!AbsentRow.gen = 0 /\ Remote!AbsentRow.lease < 1
  BY DEF Remote!AbsentRow, AttemptRow, Remote!AttemptStatus, Remote!TerminalAttempt, Remote!NoLease
<1>4. itemRow \in Rows /\ \A i \in Items, a \in Remote!Attempts : itemRow[i][a] = Remote!AbsentRow
  BY <1>2, <1>3 DEF Rows
<1>5. RemoteTypes
  BY <1>1, <1>4 DEF Remote!Init, RemoteTypes
<1>6. RunnerInv
  <2>1. \A i \in Items, a \in Remote!Attempts :
           /\ itemRow[i][a].status = "absent" /\ itemRow[i][a].gen = 0 /\ itemRow[i][a].lease < 1
           /\ ~Remote!LeaseLive(itemRow[i][a])
    <3>1. ~(Remote!AbsentRow.lease >= 1)
      BY <1>3 DEF Remote!AbsentRow, Remote!NoLease
    <3> QED
      BY <1>3, <1>4, <3>1 DEF Remote!LeaseLive, Remote!Now
  <2>2. attempt = 0 /\ runnerUp /\ \A i \in Items : disp[i] = "idle" /\ cache[i] = Remote!None
    BY DEF Remote!Init
  <2> QED
    BY <1>1, <2>1, <2>2 DEF RunnerInv, AbsentIsUnclaimed, ClaimedInOrder, LeasesAreOwn, DownIsFresh, ItemOwnsRow, ItemEnded,
       OnItsWay
<1>7. ResultInv
  <2>1. /\ \A j \in Remote!Jobs : queue[j].at = "nowhere"
        /\ \A d \in Remote!Deliveries : work[d] = "none"
        /\ \A i \in Items : artifact[i] = Remote!None /\ slot[i] = Remote!None /\ cache[i] = Remote!None
    BY DEF Remote!Init
  <2>2. \A i \in Items, a \in Remote!Attempts : itemRow[i][a].gen = 0
    BY <1>3, <1>4
  <2> QED
    BY <2>1, <2>2 DEF ResultInv, WorkIsClaimed, WroteIsOnRecord, Remote!CompletedIsOnRecord, OfItsAttempt
<1> QED
  BY <1>5, <1>6, <1>7 DEF RemoteInv

\* Whatever happens, the invariant is kept.
LEMMA RemoteStep ==
    ASSUME RemoteInv, Remote!Next \/ UNCHANGED itemVars
    PROVE  RemoteInv'
<1>1. CASE \E i \in Items : Remote!Dispatch(i) \/ Remote!RenewInstance(i)
  <2>1. PICK i \in Items : Remote!Dispatch(i) \/ Remote!RenewInstance(i)
    BY <1>1
  <2> QED
    BY <2>1, StartStep, AckStep, EnqueueStep, GiveUpStep, PollStep, RenewStep DEF Remote!Dispatch
<1>2. CASE Remote!NodeEnds \/ Remote!NodeAbandoned \/ Remote!RequestCancel
  BY <1>2, NodeEndStep, RetryStep DEF Remote!NodeEnds
<1>3. CASE \E j \in Remote!Jobs : Remote!Deliver(j) \/ Remote!HandOn(j)
  BY <1>3, DeliverStep
<1>4. CASE \E d \in Remote!Deliveries : Remote!Process(d)
  <2>1. PICK d \in Remote!Deliveries : Remote!Process(d)
    BY <1>4
  <2> QED
    BY <2>1, WorkSettleStep, WriteStep DEF Remote!Process
<1>5. CASE \E i \in Items, a \in Remote!Attempts : Remote!LeaseRunsOut(i, a)
  BY <1>5, LeaseStep
<1>6. CASE Remote!Reconcile
  BY <1>6, ReconcileStep
<1>7. CASE Remote!Crash \/ Remote!Restart
  BY <1>7, CrashStep
<1>8. CASE UNCHANGED itemVars
  BY <1>8 DEF itemVars, RemoteInv, RemoteTypes, RunnerInv, AbsentIsUnclaimed, ClaimedInOrder, Ended, LeasesAreOwn, ItemOwnsRow,
     ItemEnded, DownIsFresh, ResultInv, WorkIsClaimed, WroteIsOnRecord, AtLeast, Remote!CompletedIsOnRecord, OfItsAttempt,
     Remote!LeaseLive
<1> QED
  BY <1>1, <1>2, <1>3, <1>4, <1>5, <1>6, <1>7, <1>8 DEF Remote!Next

(* The result of an item is the one its attempt was completed with, and an *)
(* attempt that was dispatched and is completed has its result on record,  *)
(* however workers, executions and recovery interleave                     *)
(* (WriteArtifactFenced, CompleteAttempt, checkAttempt).                   *)
THEOREM ItemsTakeTheirOwnResult == MCSpec => []ItemResultIsOwn
<1> DEFINE allVars == <<part, vars, changeVars, depVars, itemVars>>
<1>1. MCInit => RemoteInv
  BY RemoteInit DEF MCInit
<1>2. RemoteInv /\ [MCNext]_allVars => RemoteInv'
  <2>1. [MCNext]_allVars => Remote!Next \/ UNCHANGED itemVars
    BY DEF MCNext
  <2> QED
    BY <2>1, RemoteStep
<1>3. RemoteInv => ItemResultIsOwn
  BY DEF RemoteInv, ResultInv, ItemResultIsOwn, OfItsAttempt, Remote!ResultIsOfItsAttempt
<1> QED
  BY <1>1, <1>2, <1>3, PTL DEF MCSpec
=============================================================================

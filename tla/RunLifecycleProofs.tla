------------------------- MODULE RunLifecycleProofs -------------------------
(* The claims of a run are exclusive and its cancellations are remembered,  *)
(* for any number of processes, deliveries, watchers and CancelRun calls.   *)
EXTENDS RunLifecycle, TLAPS

(* Before the row exists nobody has a part in the run but the one goroutine *)
(* that is about to create it.                                              *)
AbsentIsFresh ==
    status = "absent" =>
        /\ job = "none" /\ park = "none" /\ ran = {} /\ ~pendingCancelled
        /\ \A x \in Execs : epc[x] \in {"idle", "starting", "dead"}
        /\ \A x, y \in Execs : epc[x] = "starting" /\ epc[y] = "starting" => x = y
        /\ \A w \in Watchers : wpc[w] = "idle"
        /\ \A c \in Cancels : cpc[c] # "overwrite"

StartingIsAbsent == \A x \in Execs : epc[x] = "starting" => status = "absent"

\* What a Runner is about to write, by phase.
ResultOfPhase ==
    \A x \in Execs :
        /\ epc[x] = "exit" => want[x] \in TerminalRun
        /\ epc[x] = "parking" => want[x] = "waiting"
        /\ epc[x] = "write" => want[x] \in TerminalRun \cup {"waiting"}

\* A run on the queue, or cancelled there, has never been executed.
QueuedNeverRan ==
    /\ status = "pending" => ran = {}
    /\ pendingCancelled => /\ ran = {}
                           /\ status \in TerminalRun
                           /\ \A x \in Execs : ~Owns(x)

\* A Runner that has not passed its first wave check has started no node.
NotYetRan ==
    \A x \in Execs :
        epc[x] \in {"idle", "starting", "accepted", "claim", "claimed", "wake", "woken", "slot"}
            => x \notin ran

PreCancelledContext == \A x \in preCancel : ctx[x] /\ x \notin ran

IInv ==
    /\ TypeOK
    /\ AbsentIsFresh
    /\ StartingIsAbsent
    /\ ResultOfPhase
    /\ QueuedNeverRan
    /\ NotYetRan
    /\ PreCancelledContext
    /\ OneExecutor
    /\ ClaimableIsUnowned

LEMMA InitIInv == Init => IInv
<1> SUFFICES ASSUME Init PROVE IInv
  OBVIOUS
<1> USE RunAssumption DEF Init
<1>1. TypeOK
  BY DEF TypeOK, RunStatus, TerminalRun, ExecPC, CancelPC
<1>2. AbsentIsFresh /\ StartingIsAbsent /\ ResultOfPhase
  BY DEF AbsentIsFresh, StartingIsAbsent, ResultOfPhase
<1>3. QueuedNeverRan /\ NotYetRan /\ PreCancelledContext
  BY DEF QueuedNeverRan, NotYetRan, PreCancelledContext
<1>4. OneExecutor /\ ClaimableIsUnowned
  BY DEF OneExecutor, ClaimableIsUnowned, Owns
<1> QED
  BY <1>1, <1>2, <1>3, <1>4 DEF IInv

\* Type correctness, with the phase of each pending result, is preserved.
LEMMA TypeStep == TypeOK /\ ResultOfPhase /\ [Next]_vars => TypeOK'
<1> SUFFICES ASSUME TypeOK, ResultOfPhase, [Next]_vars PROVE TypeOK'
  OBVIOUS
<1> USE RunAssumption DEF TypeOK, ResultOfPhase, At, RunStatus, TerminalRun, ExecPC, CancelPC,
      row, exec, watch, cancel, history
<1>1. CASE Accept
  BY <1>1 DEF Accept
<1>2. CASE Publish
  BY <1>2 DEF Publish
<1>3. CASE PublishFails
  BY <1>3 DEF PublishFails
<1>4. CASE Expire
  BY <1>4 DEF Expire
<1>5. ASSUME NEW x \in Execs, CreateLocal(x) PROVE TypeOK'
  BY <1>5 DEF CreateLocal
<1>6. ASSUME NEW x \in Execs, FailAccepted(x) PROVE TypeOK'
  BY <1>6 DEF FailAccepted
<1>7. ASSUME NEW x \in Execs, Validated(x) PROVE TypeOK'
  BY <1>7 DEF Validated
<1>8. ASSUME NEW x \in Execs, ClaimPending(x) PROVE TypeOK'
  BY <1>8 DEF ClaimPending, CanClaimPending
<1>9. ASSUME NEW x \in Execs, ClaimWaiting(x) PROVE TypeOK'
  BY <1>9 DEF ClaimWaiting, CanClaimWaiting
<1>10. ASSUME NEW x \in Execs, WakeRefused(x) PROVE TypeOK'
  BY <1>10 DEF WakeRefused
<1>11. ASSUME NEW x \in Execs, WakeAborts(x) PROVE TypeOK'
  BY <1>11 DEF WakeAborts
<1>12. ASSUME NEW x \in Execs, Register(x) PROVE TypeOK'
  BY <1>12 DEF Register
<1>13. ASSUME NEW x \in Execs, BeginExecute(x) PROVE TypeOK'
  BY <1>13 DEF BeginExecute
<1>14. ASSUME NEW x \in Execs, WaveCheck(x) PROVE TypeOK'
  BY <1>14 DEF WaveCheck, CancelRequested
<1>15. ASSUME NEW x \in Execs, MoreWaves(x) PROVE TypeOK'
  BY <1>15 DEF MoreWaves
<1>16. ASSUME NEW x \in Execs, ExitCheck(x) PROVE TypeOK'
  BY <1>16 DEF ExitCheck
<1>17. ASSUME NEW x \in Execs, CreateParkedWait(x) PROVE TypeOK'
  BY <1>17 DEF CreateParkedWait
<1>18. ASSUME NEW x \in Execs, WriteResult(x) PROVE TypeOK'
  BY <1>18 DEF WriteResult
<1>19. ASSUME NEW x \in Execs, Unregister(x) PROVE TypeOK'
  BY <1>19 DEF Unregister
<1>20. ASSUME NEW x \in Execs, StartLocal(x) PROVE TypeOK'
  BY <1>20 DEF StartLocal
<1>21. ASSUME NEW x \in Execs, Deliver(x) PROVE TypeOK'
  BY <1>21 DEF Deliver
<1>22. ASSUME NEW x \in Execs, IntentTick(x) PROVE TypeOK'
  BY <1>22 DEF IntentTick, CancelRequested
<1>23. ASSUME NEW x \in Execs, NEW o \in Outcomes, WaveEnds(x, o) PROVE TypeOK'
  BY <1>23 DEF WaveEnds, Outcomes
<1>24. ASSUME NEW w \in Watchers, ListDue(w) PROVE TypeOK'
  BY <1>24 DEF ListDue, WatcherAt
<1>25. ASSUME NEW w \in Watchers, LookAtRun(w) PROVE TypeOK'
  BY <1>25 DEF LookAtRun, WatcherAt
<1>26. ASSUME NEW w \in Watchers, LookFails(w) PROVE TypeOK'
  BY <1>26 DEF LookFails, WatcherAt
<1>27. ASSUME NEW w \in Watchers, DeleteStale(w) PROVE TypeOK'
  BY <1>27 DEF DeleteStale, WatcherAt
<1>28. ASSUME NEW w \in Watchers, NotMet(w) PROVE TypeOK'
  BY <1>28 DEF NotMet, WatcherAt
<1>29. ASSUME NEW w \in Watchers, WakeTaken(w) PROVE TypeOK'
  BY <1>29 DEF WakeTaken, WatcherAt
<1>30. ASSUME NEW w \in Watchers, TimeoutRun(w) PROVE TypeOK'
  BY <1>30 DEF TimeoutRun, WatcherAt, CanFailWaiting
<1>31. ASSUME NEW w \in Watchers, NEW x \in Execs, WakeMet(w, x) PROVE TypeOK'
  BY <1>31 DEF WakeMet, WatcherAt
<1>32. ASSUME NEW c \in Cancels, RequestCancel(c) PROVE TypeOK'
  BY <1>32 DEF RequestCancel, CancelAt, CanRequestCancel
<1>33. ASSUME NEW c \in Cancels, NotLocal(c) PROVE TypeOK'
  BY <1>33 DEF NotLocal, CancelAt
<1>34. ASSUME NEW c \in Cancels, CancelRunner(c) PROVE TypeOK'
  BY <1>34 DEF CancelRunner, CancelAt, IsTerminalRun
<1>35. ASSUME NEW c \in Cancels, LookAgain(c) PROVE TypeOK'
  BY <1>35 DEF LookAgain, CancelAt
<1>36. ASSUME NEW c \in Cancels, OverwriteCancelled(c) PROVE TypeOK'
  BY <1>36 DEF OverwriteCancelled, CancelAt
<1>37. ASSUME NEW c \in Cancels, GetForCancel(c) PROVE TypeOK'
  BY <1>37 DEF GetForCancel, CancelAt
<1>38. ASSUME NEW c \in Cancels, CancelPending(c) PROVE TypeOK'
  BY <1>38 DEF CancelPending, CancelAt, CanCancelPending
<1>39. ASSUME NEW c \in Cancels, CancelWaiting(c) PROVE TypeOK'
  BY <1>39 DEF CancelWaiting, CancelAt, CanCancelWaiting
<1>40. ASSUME NEW c \in Cancels, DropPark(c) PROVE TypeOK'
  BY <1>40 DEF DropPark, CancelAt
<1>41. ASSUME NEW c \in Cancels, RelayLost(c) PROVE TypeOK'
  BY <1>41 DEF RelayLost, CancelAt
<1>42. ASSUME NEW c \in Cancels, NEW p \in Procs, Relay(c, p) PROVE TypeOK'
  BY <1>42 DEF Relay, CancelAt
<1>43. ASSUME NEW p \in Procs, Crash(p) PROVE TypeOK'
  BY <1>43 DEF Crash, Alive
<1>44. CASE UNCHANGED vars
  BY <1>44 DEF vars
<1> QED
  BY <1>1, <1>2, <1>3, <1>4, <1>5, <1>6, <1>7, <1>8, <1>9, <1>10, <1>11, <1>12, <1>13, <1>14, <1>15, <1>16, <1>17, <1>18, <1>19, <1>20, <1>21, <1>22, <1>23, <1>24, <1>25, <1>26, <1>27, <1>28, <1>29, <1>30, <1>31, <1>32, <1>33, <1>34, <1>35, <1>36, <1>37, <1>38, <1>39, <1>40, <1>41, <1>42, <1>43, <1>44 DEF Next, ExecStep, WatcherStep, CancelStep

\* The strengthened invariant is inductive: one step per action.
LEMMA StepIInv == IInv /\ [Next]_vars => IInv'
<1> SUFFICES ASSUME IInv, [Next]_vars PROVE IInv'
  OBVIOUS
<1>0. TypeOK'
  BY TypeStep DEF IInv
<1> USE RunAssumption, <1>0 DEF IInv, TypeOK, AbsentIsFresh, StartingIsAbsent, ResultOfPhase, QueuedNeverRan, NotYetRan, PreCancelledContext,
      OneExecutor, ClaimableIsUnowned, Owns, At, RunStatus, TerminalRun, ExecPC, CancelPC,
      row, exec, watch, cancel, history
<1>1. CASE Accept
  BY <1>1 DEF Accept
<1>2. CASE Publish
  BY <1>2 DEF Publish
<1>3. CASE PublishFails
  BY <1>3 DEF PublishFails
<1>4. CASE Expire
  BY <1>4 DEF Expire
<1>5. ASSUME NEW x \in Execs, CreateLocal(x) PROVE IInv'
  BY <1>5 DEF CreateLocal
<1>6. ASSUME NEW x \in Execs, FailAccepted(x) PROVE IInv'
  BY <1>6 DEF FailAccepted
<1>7. ASSUME NEW x \in Execs, Validated(x) PROVE IInv'
  BY <1>7 DEF Validated
<1>8. ASSUME NEW x \in Execs, ClaimPending(x) PROVE IInv'
  BY <1>8 DEF ClaimPending, CanClaimPending
<1>9. ASSUME NEW x \in Execs, ClaimWaiting(x) PROVE IInv'
  BY <1>9 DEF ClaimWaiting, CanClaimWaiting
<1>10. ASSUME NEW x \in Execs, WakeRefused(x) PROVE IInv'
  BY <1>10 DEF WakeRefused
<1>11. ASSUME NEW x \in Execs, WakeAborts(x) PROVE IInv'
  BY <1>11 DEF WakeAborts
<1>12. ASSUME NEW x \in Execs, Register(x) PROVE IInv'
  BY <1>12 DEF Register
<1>13. ASSUME NEW x \in Execs, BeginExecute(x) PROVE IInv'
  BY <1>13 DEF BeginExecute
<1>14. ASSUME NEW x \in Execs, WaveCheck(x) PROVE IInv'
  BY <1>14 DEF WaveCheck, CancelRequested
<1>15. ASSUME NEW x \in Execs, MoreWaves(x) PROVE IInv'
  BY <1>15 DEF MoreWaves
<1>16. ASSUME NEW x \in Execs, ExitCheck(x) PROVE IInv'
  BY <1>16 DEF ExitCheck
<1>17. ASSUME NEW x \in Execs, CreateParkedWait(x) PROVE IInv'
  BY <1>17 DEF CreateParkedWait
<1>18. ASSUME NEW x \in Execs, WriteResult(x) PROVE IInv'
  BY <1>18 DEF WriteResult
<1>19. ASSUME NEW x \in Execs, Unregister(x) PROVE IInv'
  BY <1>19 DEF Unregister
<1>20. ASSUME NEW x \in Execs, StartLocal(x) PROVE IInv'
  BY <1>20 DEF StartLocal
<1>21. ASSUME NEW x \in Execs, Deliver(x) PROVE IInv'
  BY <1>21 DEF Deliver
<1>22. ASSUME NEW x \in Execs, IntentTick(x) PROVE IInv'
  BY <1>22 DEF IntentTick, CancelRequested
<1>23. ASSUME NEW x \in Execs, NEW o \in Outcomes, WaveEnds(x, o) PROVE IInv'
  BY <1>23 DEF WaveEnds, Outcomes
<1>24. ASSUME NEW w \in Watchers, ListDue(w) PROVE IInv'
  BY <1>24 DEF ListDue, WatcherAt
<1>25. ASSUME NEW w \in Watchers, LookAtRun(w) PROVE IInv'
  BY <1>25 DEF LookAtRun, WatcherAt
<1>26. ASSUME NEW w \in Watchers, LookFails(w) PROVE IInv'
  BY <1>26 DEF LookFails, WatcherAt
<1>27. ASSUME NEW w \in Watchers, DeleteStale(w) PROVE IInv'
  BY <1>27 DEF DeleteStale, WatcherAt
<1>28. ASSUME NEW w \in Watchers, NotMet(w) PROVE IInv'
  BY <1>28 DEF NotMet, WatcherAt
<1>29. ASSUME NEW w \in Watchers, WakeTaken(w) PROVE IInv'
  BY <1>29 DEF WakeTaken, WatcherAt
<1>30. ASSUME NEW w \in Watchers, TimeoutRun(w) PROVE IInv'
  BY <1>30 DEF TimeoutRun, WatcherAt, CanFailWaiting
<1>31. ASSUME NEW w \in Watchers, NEW x \in Execs, WakeMet(w, x) PROVE IInv'
  BY <1>31 DEF WakeMet, WatcherAt
<1>32. ASSUME NEW c \in Cancels, RequestCancel(c) PROVE IInv'
  BY <1>32 DEF RequestCancel, CancelAt, CanRequestCancel
<1>33. ASSUME NEW c \in Cancels, NotLocal(c) PROVE IInv'
  BY <1>33 DEF NotLocal, CancelAt
<1>34. ASSUME NEW c \in Cancels, CancelRunner(c) PROVE IInv'
  BY <1>34 DEF CancelRunner, CancelAt, IsTerminalRun
<1>35. ASSUME NEW c \in Cancels, LookAgain(c) PROVE IInv'
  BY <1>35 DEF LookAgain, CancelAt
<1>36. ASSUME NEW c \in Cancels, OverwriteCancelled(c) PROVE IInv'
  BY <1>36 DEF OverwriteCancelled, CancelAt
<1>37. ASSUME NEW c \in Cancels, GetForCancel(c) PROVE IInv'
  BY <1>37 DEF GetForCancel, CancelAt
<1>38. ASSUME NEW c \in Cancels, CancelPending(c) PROVE IInv'
  BY <1>38 DEF CancelPending, CancelAt, CanCancelPending
<1>39. ASSUME NEW c \in Cancels, CancelWaiting(c) PROVE IInv'
  BY <1>39 DEF CancelWaiting, CancelAt, CanCancelWaiting
<1>40. ASSUME NEW c \in Cancels, DropPark(c) PROVE IInv'
  BY <1>40 DEF DropPark, CancelAt
<1>41. ASSUME NEW c \in Cancels, RelayLost(c) PROVE IInv'
  BY <1>41 DEF RelayLost, CancelAt
<1>42. ASSUME NEW c \in Cancels, NEW p \in Procs, Relay(c, p) PROVE IInv'
  BY <1>42 DEF Relay, CancelAt
<1>43. ASSUME NEW p \in Procs, Crash(p) PROVE IInv'
  BY <1>43 DEF Crash, Alive
<1>44. CASE UNCHANGED vars
  BY <1>44 DEF vars
<1> QED
  BY <1>1, <1>2, <1>3, <1>4, <1>5, <1>6, <1>7, <1>8, <1>9, <1>10, <1>11, <1>12, <1>13, <1>14, <1>15, <1>16, <1>17, <1>18, <1>19, <1>20, <1>21, <1>22, <1>23, <1>24, <1>25, <1>26, <1>27, <1>28, <1>29, <1>30, <1>31, <1>32, <1>33, <1>34, <1>35, <1>36, <1>37, <1>38, <1>39, <1>40, <1>41, <1>42, <1>43, <1>44 DEF Next, ExecStep, WatcherStep, CancelStep

\* Type correctness of the run, its executions, watchers and cancellations.
THEOREM TypeCorrect == Spec => []TypeOK
<1>1. IInv => TypeOK
  BY DEF IInv
<1> QED
  BY <1>1, InitIInv, StepIInv, PTL DEF Spec

(* At most one goroutine executes a run, for any number of duplicate        *)
(* deliveries, wait watchers, wakes, cancellations and process deaths.      *)
THEOREM RunIsExecutedOnce == Spec => []OneExecutor
<1>1. IInv => OneExecutor
  BY DEF IInv
<1> QED
  BY <1>1, InitIInv, StepIInv, PTL DEF Spec

\* A run that a conditional claim can take is executed by nobody.
THEOREM ClaimableRunIsUnowned == Spec => []ClaimableIsUnowned
<1>1. IInv => ClaimableIsUnowned
  BY DEF IInv
<1> QED
  BY <1>1, InitIInv, StepIInv, PTL DEF Spec

\* A run cancelled on the queue never runs a node.
THEOREM CancelledOnQueueNeverRuns == Spec => []CancelledPendingNeverRuns
<1>1. IInv => CancelledPendingNeverRuns
  BY DEF IInv, QueuedNeverRan, CancelledPendingNeverRuns
<1> QED
  BY <1>1, InitIInv, StepIInv, PTL DEF Spec

\* A Runner cancelled before Execute began runs no node.
THEOREM EarlyCancelIsRemembered == Spec => []PreCancelledRunsNothing
<1>1. IInv => PreCancelledRunsNothing
  BY DEF IInv, TypeOK, PreCancelledContext, PreCancelledRunsNothing
<1> QED
  BY <1>1, InitIInv, StepIInv, PTL DEF Spec
=============================================================================

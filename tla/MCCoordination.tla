--------------------------- MODULE MCCoordination ---------------------------
(* What processes must agree on through the database, and get done in the  *)
(* end: who leads (LeaderElection), that a run is to stop (RunLifecycle,   *)
(* whose other properties have a run of their own), what became of an item *)
(* on a remote worker (InstanceDispatch), and what an agent has read       *)
(* (AgentFeed). A behaviour is about one of them, its part, and the others *)
(* stay where they started.                                                *)
EXTENDS LeaderElection

CONSTANTS Procs, Execs, Watchers, Cancels, NoExec, StoreErrors, MaxCrashes
CONSTANTS Items, MaxConcurrent, MaxAttempt, MaxEpoch, MaxDeliveries, MaxRepeats, MayCancel
CONSTANTS Writers, Makes, PageSize

\* There are finitely many deliveries to read.
ASSUME FeedAssumption == IsFiniteSet(UNION {Makes[w] : w \in Writers}) /\ PageSize \in Nat

VARIABLES
    part,
    status, cancelReq, park, job, active, epc, want, ctx, wpc, wexp, cpc, cproc, crashes, ran, preCancel,
    pendingCancelled,
    row, artifact, queue, work, alive, epoch, attempt, node, disp, token, slot, cache, cancelled,
    clock, stamp, made, pos, state, readTo, asked, page, got, inverted

\* An execution in each of two processes.
ProcOf == [x \in Execs |-> IF x = "x1" THEN "p1" ELSE "p2"]

\* A matching pass records two deliveries, an event that is raised one.
MCMakes == [w \in Writers |-> IF w = "pass" THEN {1, 2} ELSE {3}]

Run == INSTANCE RunLifecycle
Remote == INSTANCE InstanceDispatch
Feed == INSTANCE AgentFeed

runVars ==
    <<status, cancelReq, park, job, active, epc, want, ctx, wpc, wexp, cpc, cproc, crashes, ran, preCancel,
      pendingCancelled>>
remoteVars == <<row, artifact, queue, work, alive, epoch, attempt, node, disp, token, slot, cache, cancelled>>
feedVars == <<clock, stamp, made, pos, state, readTo, asked, page, got, inverted>>
allVars == <<part, vars, runVars, remoteVars, feedVars>>

\* The part that moves, and the others that do not.
Electing == part = "elect" /\ UNCHANGED <<part, runVars, remoteVars, feedVars>>
Running == part = "run" /\ UNCHANGED <<part, vars, remoteVars, feedVars>>
Dispatching == part = "remote" /\ UNCHANGED <<part, vars, runVars, feedVars>>
Reading == part = "feed" /\ UNCHANGED <<part, vars, runVars, remoteVars>>

MCInit ==
    /\ part \in {"elect", "run", "remote", "feed"}
    /\ Init /\ Run!Init /\ Remote!Init /\ Feed!Init
    /\ part # "run" => \A c \in Cancels : cproc[c] = "p1"

MCNext ==
    \/ Electing /\ Next
    \/ Running /\ Run!Next
    \/ Dispatching /\ Remote!Next
    \/ Reading /\ Feed!Next

\* The fairness of each part.
MCSpec ==
    /\ MCInit /\ [][MCNext]_allVars
    /\ WF_allVars(Electing /\ TimePasses)
    /\ \A i \in Instances :
          WF_allVars(Electing /\ Attempt(i)) /\ WF_allVars(Electing /\ Shutdown(i))
    /\ \A x \in Execs : WF_allVars(Running /\ Run!ExecStep(x))
    /\ \A i \in Items : WF_allVars(Dispatching /\ Remote!Dispatch(i))
    /\ WF_allVars(Dispatching /\ Remote!NodeEnds)
    /\ WF_allVars(Reading /\ Feed!Read) /\ SF_allVars(Reading /\ Feed!Receive)
-----------------------------------------------------------------------------
(* LeaderReturns of LeaderElection: there is a leader again and again.     *)
LeaderIsFound == LeaderReturns

(* IntentStopsRunner of RunLifecycle: the recorded intent to cancel stops  *)
(* the Runner, whether or not anything else reaches it.                    *)
IntentIsEnough == Run!IntentStopsRunner

(* ExpansionEnds of InstanceDispatch: the node does not wait for ever for  *)
(* workers that never answer.                                              *)
ItemsEnd == []<>~(part = "remote" /\ alive /\ node = "running")

(* DeliveredWasHanded of AgentFeed: nothing is acknowledged unread.        *)
AcknowledgedWasHanded == part = "feed" => Feed!DeliveredWasHanded

(* FeedDrains of AgentFeed: nothing waits for ever for an agent that keeps *)
(* reading.                                                                *)
FeedIsRead == Feed!FeedDrains
=============================================================================

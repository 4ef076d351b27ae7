---------------------------- MODULE MCSharedRows ----------------------------
(* Rows that several processes read, decide about, and write: an attempt,  *)
(* which is fenced (ExecutionAttempt), an artifact, which is fenced too    *)
(* (InstanceDispatch), and a pipeline, which is not (ChangeRequests,       *)
(* PipelineDependencies). A behaviour is about one of them, its part, and  *)
(* the others stay where they started.                                     *)
EXTENDS MCExecutionAttempt, FiniteSets

CONSTANTS Requests, Editors, Appliers, MaxVersions
CONSTANTS Pipelines, Callers, MaxEdits, Outcomes, MaxRuns
CONSTANTS Items, MaxConcurrent, MaxAttempt, MaxEpoch, MaxDeliveries, MaxRepeats, MayCancel

\* An edit and an apply are different saves; attempts and executions are counted.
ASSUME SharedRowsAssumption ==
    /\ Editors \cap Appliers = {}
    /\ {MaxAttempt, MaxEpoch} \subseteq Nat
    /\ IsFiniteSet(Pipelines)

VARIABLES
    part,
    current, versions, saw, status, base, proposed, applied, against, cpc, target, sent, raced, unversioned,
    alive, rules, edits, rpc, about, wants, victims, ran, fan, fires, overlapped,
    itemRow, artifact, queue, work, runnerUp, epoch, attempt, node, disp, itemToken, slot, cache, cancelled

\* A pipeline waits for another to succeed, or is set off by it.
Kinds == {"gate", "trigger"} \X {"succeeded"}

Change == INSTANCE ChangeRequests
Deps == INSTANCE PipelineDependencies
Remote == INSTANCE InstanceDispatch WITH row <- itemRow, alive <- runnerUp, token <- itemToken

changeVars ==
    <<current, versions, saw, status, base, proposed, applied, against, cpc, target, sent, raced, unversioned>>
depVars == <<alive, rules, edits, rpc, about, wants, victims, ran, fan, fires, overlapped>>
itemVars ==
    <<itemRow, artifact, queue, work, runnerUp, epoch, attempt, node, disp, itemToken, slot, cache, cancelled>>

MCInit ==
    /\ part \in {"attempt", "change", "depend", "remote"}
    /\ Init /\ Change!Init /\ Deps!Init /\ Remote!Init

MCNext ==
    \/ part = "attempt" /\ Next /\ UNCHANGED <<part, changeVars, depVars, itemVars>>
    \/ part = "change" /\ Change!Next /\ UNCHANGED <<part, vars, depVars, itemVars>>
    \/ part = "depend" /\ Deps!Next /\ UNCHANGED <<part, vars, changeVars, itemVars>>
    \/ part = "remote" /\ Remote!Next /\ UNCHANGED <<part, vars, changeVars, depVars>>

MCSpec == MCInit /\ [][MCNext]_<<part, vars, changeVars, depVars, itemVars>>
-----------------------------------------------------------------------------
(* Of ChangeRequests. StaleIsRefused: what an apply replaces is what its   *)
(* request was compared with. SettledStays: two people who decide do not   *)
(* overwrite each other. AppliedIsOnRecord: what was applied is in the     *)
(* history of versions.                                                    *)
RequestsAreSettledRight ==
    Change!StaleIsRefused /\ Change!SettledStays /\ [](part = "change" => Change!AppliedIsOnRecord)

(* Of PipelineDependencies. NoCycle: no pipeline comes to depend on        *)
(* itself. NoRuleDangles: no rule names a pipeline that is gone.           *)
DependenciesEnd == part = "depend" => Deps!NoCycle /\ Deps!NoRuleDangles

(* Of InstanceDispatch. ResultIsOfItsAttempt: the result of an item was    *)
(* written by the attempt that was waited for. CompletedIsOnRecord: an     *)
(* attempt that is completed has its result in the artifact store.         *)
ItemResultIsOwn ==
    part = "remote" => Remote!ResultIsOfItsAttempt /\ Remote!CompletedIsOnRecord
=============================================================================

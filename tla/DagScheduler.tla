---------------------------- MODULE DagScheduler ----------------------------
(***************************************************************************)
(* The wave scheduler of Runner.Execute (src/engine/runner.go): which      *)
(* nodes of a pipeline run, in which order, and which are routed around;   *)
(* and what a later execution takes over from an earlier one, when a       *)
(* parked run is woken (WakeParkedRun, src/engine/wait.go) or a finished   *)
(* one is resumed (resumeRun, src/engine/engine.go).                       *)
(*                                                                         *)
(* Node i is r.pipe.Nodes[i]; the edges of a pipeline go anywhere, so the  *)
(* list order is unrelated to the order of execution. An edge is a record  *)
(* with the branch it belongs to: "any", or the decision of the condition  *)
(* node it comes from. A node's retries are one execution here. The runs   *)
(* of a lineage are numbered: run k + 1 was resumed from run k.            *)
(***************************************************************************)
EXTENDS Integers, Sequences, FiniteSets

CONSTANTS
    N,              \* number of nodes
    Pipelines,      \* the pipelines to schedule
    MaxParallel,    \* nodes that may execute at the same time
    MaxRuns,        \* bound on the runs of a lineage
    MaxWakes,       \* bound on the wakes of a lineage
    MayCancel,      \* whether the run may be cancelled
    MayFail,        \* whether nodes and store writes may fail
    FromNode        \* whether a run is resumed from a chosen node

Nodes == 1..N
Runs == 1..MaxRuns
Kind == {"plain", "condition", "join", "wait"}
Decision == {"none", "true", "false"}
Branch == {"any", "true", "false"}
Edge == [from: Nodes, to: Nodes, branch: Branch]

Incoming(p, n) == {e \in p.edges : e.to = n}
Outgoing(p, n) == {e \in p.edges : e.from = n}

\* topoSort succeeds: among any nodes there is one that no other of them feeds.
Acyclic(p) ==
    \A S \in SUBSET Nodes :
        S # {} => \E n \in S : \A e \in Incoming(p, n) : e.from \notin S

(* ValidatePipeline, as far as scheduling goes, for IR 2.1: the branches   *)
(* of edges, the inputs of condition and join nodes, and no cycle.         *)
Valid(p) ==
    /\ \A e \in p.edges : e.from # e.to
    /\ \A e \in p.edges : (e.branch # "any") <=> (p.kind[e.from] = "condition")
    /\ \A n \in Nodes : p.kind[n] = "condition" => Cardinality(Incoming(p, n)) = 1
    /\ \A n \in Nodes : p.kind[n] = "join" => Cardinality(Incoming(p, n)) = 2
    /\ Acyclic(p)

ASSUME SchedulerAssumption ==
    /\ N \in Nat \ {0}
    /\ MaxParallel \in Nat \ {0} /\ MaxRuns \in Nat \ {0} /\ MaxWakes \in Nat
    /\ \A p \in Pipelines :
          /\ p \in [edges: SUBSET Edge, kind: [Nodes -> Kind]]
          /\ Valid(p)
    /\ MayCancel \in BOOLEAN /\ MayFail \in BOOLEAN /\ FromNode \in BOOLEAN

VARIABLES
    pipe,               \* the pipeline: pinned for the whole lineage
    phase,              \* where Execute is: "head", "scan", "wave", "ended"
    pos, progress,      \* the scan: next node of the list; whether the pass changed anything
    node,               \* nodeStates
    edge,               \* edgeStates
    unresolvedInputs,   \* node -> incoming edges not resolved yet
    activeInputs,       \* node -> incoming edges resolved active
    terminalNodes,      \* nodes executed or skipped
    todo,               \* ready: nodes of the wave that are not launched yet, in order
    running,            \* nodes of the wave whose goroutine runs
    firstErr,           \* the first error of the wave, in the order of completion
    decision,           \* what the condition nodes of this execution decided
    ctx,                \* the run's context is cancelled
    result,             \* how Execute ended
    complaint,          \* the error of a scheduler that finds itself defective
    run,                \* current run of the lineage
    wakes,              \* wakes so far
    rows,               \* run -> node -> the statuses of its node_runs rows
    saved,              \* run -> node -> condition_result in its events
    settled,            \* nodes whose execution_attempts row is settled in this run
    skipNodes,          \* nodes whose earlier outcome this execution reuses
    conditionResults,   \* the decisions it reuses
    done,               \* history: nodes whose handler has succeeded in the lineage
    again,              \* history: nodes whose handler has succeeded once too often
    owed                \* history: nodes chosen to be executed again, and not yet executed

scan == <<pos, progress>>
graph == <<node, edge, unresolvedInputs, activeInputs, terminalNodes>>
wave == <<todo, running, firstErr, decision>>
durable == <<run, wakes, rows, saved, settled>>
reuse == <<skipNodes, conditionResults>>
history == <<done, again, owed>>
vars == <<pipe, phase, scan, graph, wave, ctx, result, complaint, durable, reuse, history>>

Terminal == {"executed", "skipped"}
Pending == [n \in Nodes |-> "pending"]
NoDecision == [n \in Nodes |-> "none"]

\* The runtime graph at the start of Execute.
Init ==
    /\ pipe \in Pipelines
    /\ phase = "head" /\ pos = 1 /\ progress = FALSE
    /\ node = Pending
    /\ edge = [e \in pipe.edges |-> "unresolved"]
    /\ unresolvedInputs = [n \in Nodes |-> Cardinality(Incoming(pipe, n))]
    /\ activeInputs = [n \in Nodes |-> 0]
    /\ terminalNodes = 0
    /\ todo = <<>> /\ running = {} /\ firstErr = "none" /\ decision = NoDecision
    /\ ctx = FALSE /\ result = "none" /\ complaint = "none"
    /\ run = 1 /\ wakes = 0 /\ settled = {}
    /\ rows = [k \in Runs |-> [n \in Nodes |-> {}]]
    /\ saved = [k \in Runs |-> NoDecision]
    /\ skipNodes = {} /\ conditionResults = NoDecision
    /\ done = {} /\ again = {} /\ owed = {}

-----------------------------------------------------------------------------
End(r) == phase' = "ended" /\ result' = r

\* failRun: a cancelled run is finalized as cancelled, whatever the error.
FailRun == End(IF ctx THEN "cancelled" ELSE "failed") /\ UNCHANGED complaint

\* failRun with an error that no valid pipeline should ever see.
Break(why) == End(IF ctx THEN "cancelled" ELSE "failed") /\ complaint' = why

\* resolveEdge refuses an edge that is resolved already, and a count below zero.
CanResolve(S) ==
    /\ \A e \in S : edge[e] = "unresolved"
    /\ \A n \in Nodes : Cardinality({e \in S : e.to = n}) <= unresolvedInputs[n]

\* resolveEdge for the edges in S, of which those in A are active.
ResolveEdges(S, A) ==
    /\ edge' = [e \in pipe.edges |->
            IF e \in A THEN "active" ELSE IF e \in S THEN "inactive" ELSE edge[e]]
    /\ activeInputs' = [n \in Nodes |-> activeInputs[n] + Cardinality({e \in A : e.to = n})]
    /\ unresolvedInputs' = [n \in Nodes |-> unresolvedInputs[n] - Cardinality({e \in S : e.to = n})]

-----------------------------------------------------------------------------
(* The wave loop of Execute.                                               *)

\* All nodes are done, the run is cancelled, or the next wave is put together.
LoopHead ==
    /\ phase = "head"
    /\ \/ terminalNodes = N /\ End(IF ctx THEN "cancelled" ELSE "success") /\ UNCHANGED scan
       \/ terminalNodes < N /\ ctx /\ End("cancelled") /\ UNCHANGED scan
       \/ /\ terminalNodes < N /\ ~ctx
          /\ phase' = "scan" /\ pos' = 1 /\ progress' = FALSE
          /\ UNCHANGED result
    /\ UNCHANGED <<pipe, graph, wave, ctx, complaint, durable, reuse, history>>

\* Faulty variant: one active input is enough, though others are not resolved yet.
RunnableEarly(n) == Incoming(pipe, n) = {} \/ activeInputs[n] > 0

Runnable(n) ==
    \/ Incoming(pipe, n) = {}
    \/ unresolvedInputs[n] = 0 /\ activeInputs[n] > 0

\* Its inputs are all resolved and none is active.
RoutedAround(n) == ~Runnable(n) /\ unresolvedInputs[n] = 0

JoinLacksInput(n) ==
    /\ pipe.kind[n] = "join"
    /\ Incoming(pipe, n) # {}
    /\ activeInputs[n] # Cardinality(Incoming(pipe, n))

Visit(n) == phase = "scan" /\ pos = n /\ node[n] = "pending"

QueueNode(n) ==
    /\ Visit(n) /\ Runnable(n) /\ ~JoinLacksInput(n)
    /\ node' = [node EXCEPT ![n] = "queued"]
    /\ todo' = Append(todo, n)
    /\ pos' = pos + 1 /\ progress' = TRUE
    /\ UNCHANGED <<pipe, phase, edge, unresolvedInputs, activeInputs, terminalNodes>>
    /\ UNCHANGED <<running, firstErr, decision, ctx, result, complaint, durable, reuse, history>>

\* "Join node has an inactive required input."
JoinRefused(n) ==
    /\ Visit(n) /\ Runnable(n) /\ JoinLacksInput(n)
    /\ FailRun
    /\ UNCHANGED <<pipe, scan, graph, wave, ctx, durable, reuse, history>>

\* Faulty variants: the edges of a skipped node stay unresolved, or are resolved active.
SkipNodeAlone(n) ==
    /\ Visit(n) /\ RoutedAround(n)
    /\ node' = [node EXCEPT ![n] = "skipped"]
    /\ rows' = [rows EXCEPT ![run][n] = @ \cup {"skipped"}]
    /\ terminalNodes' = terminalNodes + 1
    /\ pos' = pos + 1 /\ progress' = TRUE
    /\ UNCHANGED <<pipe, phase, edge, unresolvedInputs, activeInputs, wave, ctx, result, complaint>>
    /\ UNCHANGED <<run, wakes, saved, settled, reuse, history>>
SkipNodeActive(n) ==
    /\ Visit(n) /\ RoutedAround(n)
    /\ ResolveEdges(Outgoing(pipe, n), Outgoing(pipe, n))
    /\ node' = [node EXCEPT ![n] = "skipped"]
    /\ rows' = [rows EXCEPT ![run][n] = @ \cup {"skipped"}]
    /\ terminalNodes' = terminalNodes + 1
    /\ pos' = pos + 1 /\ progress' = TRUE
    /\ UNCHANGED <<pipe, phase, wave, ctx, result, complaint>>
    /\ UNCHANGED <<run, wakes, saved, settled, reuse, history>>

\* persistSkippedNode, then the node's outgoing edges are resolved inactive.
SkipNode(n) ==
    /\ Visit(n) /\ RoutedAround(n)
    /\ rows' = [rows EXCEPT ![run][n] = @ \cup {"skipped"}]
    /\ node' = [node EXCEPT ![n] = "skipped"]
    /\ terminalNodes' = terminalNodes + 1
    /\ pos' = pos + 1 /\ progress' = TRUE
    /\ IF CanResolve(Outgoing(pipe, n))
       THEN ResolveEdges(Outgoing(pipe, n), {}) /\ UNCHANGED <<phase, result, complaint>>
       ELSE Break("edges") /\ UNCHANGED <<edge, unresolvedInputs, activeInputs>>
    /\ UNCHANGED <<pipe, wave, ctx, run, wakes, saved, settled, reuse, history>>

SkipNotPersisted(n) ==
    /\ MayFail
    /\ Visit(n) /\ RoutedAround(n)
    /\ FailRun
    /\ UNCHANGED <<pipe, scan, graph, wave, ctx, durable, reuse, history>>

\* A node that is settled, in this wave, or not ready.
PassOver(n) ==
    /\ phase = "scan" /\ pos = n
    /\ node[n] = "pending" => ~Runnable(n) /\ ~RoutedAround(n)
    /\ pos' = pos + 1
    /\ UNCHANGED <<pipe, phase, progress, graph, wave, ctx, result, complaint, durable, reuse, history>>

\* Faulty variant: the flag of the pass is not cleared.
NextPassForever ==
    /\ phase = "scan" /\ pos = N + 1 /\ progress
    /\ pos' = 1
    /\ UNCHANGED <<pipe, phase, progress, graph, wave, ctx, result, complaint, durable, reuse, history>>

\* The list is gone through again as long as a pass made progress.
NextPass ==
    /\ phase = "scan" /\ pos = N + 1 /\ progress
    /\ pos' = 1 /\ progress' = FALSE
    /\ UNCHANGED <<pipe, phase, graph, wave, ctx, result, complaint, durable, reuse, history>>

(* The wave starts. With no ready node the scheduler takes itself to have  *)
(* stalled, without a look at whether the scan settled the last nodes.     *)
StartWave ==
    /\ phase = "scan" /\ pos = N + 1 /\ ~progress
    /\ IF todo = <<>> THEN Break("stalled") ELSE phase' = "wave" /\ UNCHANGED <<result, complaint>>
    /\ UNCHANGED <<pipe, scan, graph, wave, ctx, durable, reuse, history>>

-----------------------------------------------------------------------------
(* The goroutines of a wave: executeNode.                                  *)

\* The semaphore admits the next node, and its goroutine starts.
Launch ==
    /\ phase = "wave" /\ todo # <<>>
    /\ Cardinality(running) < MaxParallel
    /\ todo' = Tail(todo) /\ running' = running \cup {Head(todo)}
    /\ UNCHANGED <<pipe, phase, scan, graph, firstErr, decision, ctx, result, complaint, durable, reuse, history>>

\* The result is sent on completedCh: the first error is the one that counts.
Complete(n, err) ==
    /\ n \in running
    /\ running' = running \ {n}
    /\ firstErr' = IF firstErr = "none" THEN err ELSE firstErr

\* A new node_runs row for the node (all at attempt 0), with its last status.
Record(n, s) == rows' = [rows EXCEPT ![run][n] = @ \cup {s}]

\* The condition result in the event of the node's outcome.
Decide(n, d) ==
    /\ decision' = [decision EXCEPT ![n] = d]
    /\ saved' = [saved EXCEPT ![run][n] = d]

Executes(n) == n \notin skipNodes /\ n \notin settled

\* The handler succeeds; a condition node decides.
NodeSucceeds(n, d) ==
    /\ Executes(n)
    /\ d \in (IF pipe.kind[n] = "condition" THEN {"true", "false"} ELSE {"none"})
    /\ Complete(n, "none")
    /\ Record(n, "success") /\ Decide(n, d)
    /\ settled' = settled \cup {n}
    /\ done' = done \cup {n}
    /\ again' = IF n \in done \ owed THEN again \cup {n} ELSE again
    /\ owed' = owed \ {n}
    /\ UNCHANGED <<pipe, phase, scan, graph, todo, ctx, result, complaint, run, wakes, reuse>>

\* It fails, times out, or is stopped by the cancelled context.
NodeFails(n) ==
    /\ MayFail \/ ctx
    /\ Executes(n)
    /\ Complete(n, "fail")
    /\ Record(n, "failed")
    /\ settled' = settled \cup {n}
    /\ UNCHANGED <<pipe, phase, scan, graph, todo, decision, ctx, result, complaint, run, wakes, saved, reuse, history>>

\* The condition of a wait node does not hold: the attempt is left for the wake.
NodeParks(n) ==
    /\ pipe.kind[n] = "wait"
    /\ Executes(n)
    /\ Complete(n, "park")
    /\ Record(n, "waiting")
    /\ UNCHANGED <<pipe, phase, scan, graph, todo, decision, ctx, result, complaint, run, wakes, saved, settled, reuse, history>>

\* The goroutine finds the context cancelled before it starts the node.
NodeNotStarted(n) ==
    /\ ctx
    /\ Complete(n, "fail")
    /\ UNCHANGED <<pipe, phase, scan, graph, todo, decision, ctx, result, complaint, durable, reuse, history>>

(* The attempt's row was settled earlier in this run, and the new one is   *)
(* not created: the claim is refused, and the node's row stays running.    *)
ClaimRefused(n) ==
    /\ n \notin skipNodes /\ n \in settled
    /\ Complete(n, "fail")
    /\ Record(n, "running")
    /\ UNCHANGED <<pipe, phase, scan, graph, todo, decision, ctx, result, complaint, run, wakes, saved, settled, reuse, history>>

\* A reused node: its output is restored and its earlier decision stands.
Restore(n) ==
    /\ n \in skipNodes
    /\ Complete(n, "none")
    /\ Record(n, "reused") /\ Decide(n, conditionResults[n])
    /\ UNCHANGED <<pipe, phase, scan, graph, todo, ctx, result, complaint, run, wakes, settled, reuse, history>>

\* The artifact is gone: the node fails rather than feed an empty dataset on.
RestoreFails(n) ==
    /\ MayFail
    /\ n \in skipNodes
    /\ Complete(n, "fail")
    /\ UNCHANGED <<pipe, phase, scan, graph, todo, decision, ctx, result, complaint, durable, reuse, history>>

\* The edges that a node which decided d activates.
Activated(n, d) == {e \in Outgoing(pipe, n) : e.branch \in {"any", d}}

WaveDone == phase = "wave" /\ todo = <<>> /\ running = {}

\* The wave met an error: a park that came first parks the run.
WaveFails ==
    /\ WaveDone /\ firstErr # "none"
    /\ IF firstErr = "park" THEN End("waiting") /\ UNCHANGED complaint ELSE FailRun
    /\ UNCHANGED <<pipe, scan, graph, wave, ctx, durable, reuse, history>>

(* The whole wave succeeded: its nodes are executed and their edges are    *)
(* resolved, a conditional one by the decision of its condition node.      *)
Release ==
    LET W == {n \in Nodes : node[n] = "queued"}
        S == UNION {Outgoing(pipe, n) : n \in W}
        A == UNION {Activated(n, decision[n]) : n \in W}
        undecided == \E n \in W : pipe.kind[n] = "condition" /\ decision[n] = "none" /\ Outgoing(pipe, n) # {}
    IN  /\ WaveDone /\ firstErr = "none"
        /\ node' = [n \in Nodes |-> IF n \in W THEN "executed" ELSE node[n]]
        /\ terminalNodes' = terminalNodes + Cardinality(W)
        /\ IF ~undecided /\ CanResolve(S)
           THEN ResolveEdges(S, A) /\ phase' = "head" /\ UNCHANGED <<result, complaint>>
           ELSE Break("edges") /\ UNCHANGED <<edge, unresolvedInputs, activeInputs>>
        /\ UNCHANGED <<pipe, scan, wave, ctx, durable, reuse, history>>

Cancel ==
    /\ MayCancel /\ phase # "ended" /\ ~ctx
    /\ ctx' = TRUE
    /\ UNCHANGED <<pipe, phase, scan, graph, wave, result, complaint, durable, reuse, history>>

-----------------------------------------------------------------------------
(* reusableOutcomes: what the next execution takes over.                   *)

\* The latest run of the lineage, from run k back, that has a row of the node.
Holders(n, k) == {j \in 1..k : rows[j][n] # {}}
Holder(n, k) == CHOOSE j \in Holders(n, k) : \A i \in Holders(n, k) : i <= j

\* Faulty variants: reuse is not handed on; conditions decide anew; failures are reused.
ReusableOnce(n, j, s) == s = "success"
ReusableButConditions(n, j, s) == s \in {"success", "reused"} /\ pipe.kind[n] # "condition"
ReusableAnyhow(n, j, s) == s \in {"success", "reused", "failed"}

(* The row of run j that counts for the node has status s: a success, or   *)
(* the record of an earlier reuse.                                         *)
Reusable(n, j, s) == s \in {"success", "reused"}

(* The nodes that are reused when latest names, for every node with rows,  *)
(* the row latestNodeOutcome picks. Rows of the same attempt come without  *)
(* ORDER BY, so any of them may be the first, which is the one picked.     *)
Reused(latest, k) == {n \in Nodes : Holders(n, k) # {} /\ Reusable(n, Holder(n, k), latest[n])}
PossibleLatest(k) ==
    {f \in [Nodes -> {"none", "success", "failed", "waiting", "running", "skipped", "reused"}] :
        \A n \in Nodes : IF Holders(n, k) = {} THEN f[n] = "none" ELSE f[n] \in rows[Holder(n, k)][n]}

\* descendantsInclusive: everything that can be reached from n.
Descendants(n) ==
    {m \in Nodes : \A S \in SUBSET Nodes :
        n \in S /\ (\A e \in pipe.edges : e.from \in S => e.to \in S) => m \in S}

\* A Runner for run k that reuses the outcomes of the lineage up to run j, but for reRun.
NewRunner(k, j, reRun) ==
    /\ \E latest \in PossibleLatest(j) :
          LET succeeded == Reused(latest, j) \ reRun IN
          /\ skipNodes' = succeeded
          /\ conditionResults' = [n \in Nodes |->
                IF n \in succeeded THEN saved[Holder(n, j)][n] ELSE "none"]
    /\ phase' = "head" /\ result' = "none" /\ complaint' = "none" /\ ctx' = FALSE
    /\ pos' = 1 /\ progress' = FALSE
    /\ node' = Pending
    /\ edge' = [e \in pipe.edges |-> "unresolved"]
    /\ unresolvedInputs' = [n \in Nodes |-> Cardinality(Incoming(pipe, n))]
    /\ activeInputs' = [n \in Nodes |-> 0]
    /\ terminalNodes' = 0
    /\ todo' = <<>> /\ running' = {} /\ firstErr' = "none" /\ decision' = NoDecision
    /\ run' = k
    /\ UNCHANGED <<pipe, rows, saved, done, again>>

\* WakeParkedRun: the same run goes on.
Wake ==
    /\ result = "waiting" /\ wakes < MaxWakes
    /\ wakes' = wakes + 1
    /\ NewRunner(run, run, {})
    /\ UNCHANGED <<settled, owed>>

\* ResumeRun: a new run for a failed one.
Resume ==
    /\ result = "failed" /\ run < MaxRuns
    /\ NewRunner(run + 1, run, {})
    /\ settled' = {}
    /\ UNCHANGED <<wakes, owed>>

\* ResumeRunFromNode: the node and everything downstream of it run again.
ResumeFromNode(n) ==
    /\ FromNode
    /\ result \in {"success", "failed", "cancelled"} /\ run < MaxRuns
    /\ NewRunner(run + 1, run, Descendants(n))
    /\ settled' = {}
    /\ owed' = owed \cup Descendants(n)
    /\ UNCHANGED wakes

Scan(n) ==
    \/ QueueNode(n) \/ JoinRefused(n) \/ SkipNode(n) \/ SkipNotPersisted(n) \/ PassOver(n)

Finish(n) ==
    \/ \E d \in Decision : NodeSucceeds(n, d)
    \/ NodeFails(n) \/ NodeParks(n) \/ NodeNotStarted(n)
    \/ ClaimRefused(n) \/ Restore(n) \/ RestoreFails(n)

Execute ==
    \/ LoopHead \/ NextPass \/ StartWave \/ Launch \/ WaveFails \/ Release
    \/ \E n \in Nodes : Scan(n) \/ Finish(n)

Next ==
    \/ Execute \/ Cancel \/ Wake \/ Resume
    \/ \E n \in Nodes : ResumeFromNode(n)

Spec == Init /\ [][Next]_vars

(* The Runner's goroutine goes on, and so do those of its nodes: every     *)
(* attempt of a node has a timeout, after which executeNode goes on        *)
(* without its handler. Connection pools are not part of this model.       *)
FairSpec == Spec /\ WF_vars(Execute)

-----------------------------------------------------------------------------
(* Properties                                                              *)

TypeOK ==
    /\ pipe \in Pipelines
    /\ phase \in {"head", "scan", "wave", "ended"}
    /\ pos \in 1..(N + 1) /\ progress \in BOOLEAN
    /\ node \in [Nodes -> {"pending", "queued"} \cup Terminal]
    /\ edge \in [pipe.edges -> {"unresolved", "active", "inactive"}]
    /\ unresolvedInputs \in [Nodes -> Nat] /\ activeInputs \in [Nodes -> Nat]
    /\ terminalNodes \in Nat
    /\ todo \in Seq(Nodes) /\ running \subseteq Nodes
    /\ firstErr \in {"none", "fail", "park"}
    /\ decision \in [Nodes -> Decision]
    /\ ctx \in BOOLEAN /\ complaint \in {"none", "stalled", "edges"}
    /\ result \in {"none", "success", "failed", "cancelled", "waiting"}
    /\ run \in Runs /\ wakes \in Nat
    /\ rows \in [Runs -> [Nodes -> SUBSET {"success", "failed", "waiting", "running", "skipped", "reused"}]]
    /\ saved \in [Runs -> [Nodes -> Decision]]
    /\ settled \subseteq Nodes
    /\ skipNodes \subseteq Nodes /\ conditionResults \in [Nodes -> Decision]
    /\ done \subseteq Nodes /\ again \subseteq Nodes /\ owed \subseteq Nodes

(* The errors that would mean a defect of the scheduler are never met on a *)
(* valid pipeline: it resolves no edge twice, lets no input count go below *)
(* zero, has a decision for every condition node it executed or reused,    *)
(* and does not stall while a node is unresolved.                          *)
NeverBroken ==
    /\ complaint # "edges"
    /\ complaint = "stalled" => \A n \in Nodes : node[n] \in Terminal

(* A node runs after everything upstream of it: when it is queued or runs, *)
(* the source of each of its edges has been executed or skipped.           *)
UpstreamFirst ==
    \A n \in {todo[i] : i \in DOMAIN todo} \cup running : \A e \in Incoming(pipe, n) : node[e.from] \in Terminal

\* What the routing of a pipeline asks for, given what its condition nodes decided.
Taken(e) == node[e.from] = "executed" /\ e.branch \in {"any", decision[e.from]}

(* A run that succeeds has executed exactly the nodes that the decisions   *)
(* of its condition nodes lead to, and routed around all the others.       *)
EndsAsRouted ==
    result = "success" =>
        \A n \in Nodes :
            IF Incoming(pipe, n) = {} \/ \E e \in Incoming(pipe, n) : Taken(e)
            THEN node[n] = "executed" ELSE node[n] = "skipped"

(* Across parks, wakes and resumes a lineage stays on the branch it took:  *)
(* no node that has run is later routed around, unless a resume from a     *)
(* node upstream of it asked for it to be decided again.                   *)
BranchIsKept == \A n \in done \ owed : node[n] # "skipped"

(* A wake or a resume repeats no work: the handler of a node that is not a *)
(* wait succeeds once in a lineage, and once more for every resume that    *)
(* asked for it to be executed again.                                      *)
WorkIsNotRepeated == \A n \in again : pipe.kind[n] = "wait"

(* A run that succeeds owes its success to handlers: every node it counts  *)
(* as executed has really run, in this run or in one it was resumed from.  *)
SuccessIsEarned ==
    result = "success" => \A n \in Nodes : node[n] = "executed" => n \in done

\* Execute comes to an end, whatever its nodes do.
ExecuteEnds == []<>(phase = "ended")

-----------------------------------------------------------------------------
(* Stated by the code or its comments, and refuted by TLC: see the section *)
(* on divergences in README.md.                                            *)

(* A run is failed as "stalled with unresolved nodes" only when some node  *)
(* is unresolved. It is not so: the scan that skips the last nodes leaves  *)
(* no node ready, and the run fails with every node settled.               *)
StallIsReal == complaint = "stalled" => \E n \in Nodes : node[n] \notin Terminal

(* reusableOutcomes "answers which nodes already have a durable, reusable  *)
(* outcome: succeeded (skippable)": a wake reuses every node that has      *)
(* succeeded in the run.                                                   *)
SucceededIsReused ==
    [][wakes' # wakes => \A n \in Nodes : "success" \in rows[run][n] => n \in skipNodes']_vars

(* Resuming from a node means "re-executing that node and every node       *)
(* downstream of it": a lineage that comes to a success has executed every *)
(* such node again, unless it was routed around.                           *)
DownstreamIsRerun == result = "success" => \A n \in owed : node[n] # "executed"
=============================================================================

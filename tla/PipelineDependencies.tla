------------------------- MODULE PipelineDependencies -------------------------
(***************************************************************************)
(* Dependencies between pipelines (src/engine/dependencies.go): the rules  *)
(* that saves and deletions change (src/api/handlers_pipeline.go), the     *)
(* gate in front of a run, and the runs that a finished one sets off       *)
(* (RunPipelineOpts and fireTriggerModeDependents in src/engine/engine.go).*)
(* A save or a deletion reads the rules of all pipelines first and writes  *)
(* later, with no lock in between.                                         *)
(*                                                                         *)
(* One organization. Left out: the window of a rule, drafts, and runs that *)
(* have not started.                                                       *)
(***************************************************************************)
EXTENDS Naturals, FiniteSets, Sequences

CONSTANTS
    Pipelines,      \* the pipelines there are or may be
    Callers,        \* the saves and deletions that can be under way at a time
    MaxEdits,       \* bound: saves and deletions
    Kinds,          \* kinds of rules: a mode and the state it asks for
    Outcomes,       \* the ends of a run that happen
    MaxRuns         \* bound: runs of all pipelines

VARIABLES
    alive,      \* the pipelines on record
    rules,      \* EffectiveDependencies: for each pipeline, at most one kind per upstream
    edits,      \* how many requests there have been
    rpc,        \* where each request is
    about,      \* the pipeline it is about
    wants,      \* the rules that it saves
    victims,    \* the pipelines that it found to depend on that one
    ran,        \* the status of each run, oldest first
    fan,        \* the finished runs whose dependents have not been looked up
    fires,      \* the dispatches they have set off: dependent, upstream, its run
    overlapped  \* history: the rules changed between a request's read and its write

requestVars == <<edits, rpc, about, wants, victims>>
runVars == <<ran, fan, fires>>
vars == <<alive, rules, requestVars, runVars, overlapped>>

NoRule == <<"none">>
NoRules == [p \in Pipelines |-> NoRule]
RuleSets == [Pipelines -> Kinds \cup {NoRule}]
Finished == {"success", "failed", "cancelled"}
Dispatches == Pipelines \X Pipelines \X (1..MaxRuns)

TypeOK ==
    /\ alive \subseteq Pipelines
    /\ rules \in [Pipelines -> RuleSets]
    /\ rpc \in [Callers -> {"idle", "save", "delete", "cascade", "decouple"}]
    /\ edits \in 0..MaxEdits
    /\ about \in [Callers -> Pipelines]
    /\ wants \in [Callers -> RuleSets]
    /\ victims \in [Callers -> SUBSET Pipelines]
    /\ \A p \in Pipelines :
          ran[p] \in UNION {[1..n -> Finished \cup {"running", "blocked"}] : n \in 0..MaxRuns}
    /\ fan \subseteq Pipelines \X (1..MaxRuns)
    /\ fires \subseteq Dispatches
    /\ overlapped \in BOOLEAN

Init ==
    /\ alive = Pipelines
    /\ rules = [p \in Pipelines |-> NoRules]
    /\ edits = 0
    /\ rpc = [x \in Callers |-> "idle"]
    /\ about = [x \in Callers |-> CHOOSE p \in Pipelines : TRUE]
    /\ wants = [x \in Callers |-> NoRules]
    /\ victims = [x \in Callers |-> {}]
    /\ ran = [p \in Pipelines |-> <<>>]
    /\ fan = {} /\ fires = {}
    /\ overlapped = FALSE
-----------------------------------------------------------------------------
(* The graph *)

Upstreams(rs) == {q \in Pipelines : rs[q] # NoRule}

\* What is reached from S in at most n steps, under the rules r.
Reached(r, S, n) ==
    LET f[k \in 0..n] == IF k = 0 THEN S ELSE f[k - 1] \cup UNION {Upstreams(r[q]) : q \in f[k - 1]}
    IN  f[n]

Above(r, p) == Reached(r, Upstreams(r[p]), Cardinality(Pipelines))

\* Faulty variant: only the dependencies of the dependencies are looked at.
HasCycleNear(p, rs) ==
    LET r == [rules EXCEPT ![p] = rs] IN p \in Reached(r, Upstreams(rs), 1)

(* DetectDependencyCycle walks from the candidate only, over its new rules *)
(* and everybody else's stored ones.                                       *)
HasCycle(p, rs) ==
    LET r == [rules EXCEPT ![p] = rs]
    IN  \E q \in {p} \cup Above(r, p) : q \in Above(r, q)

DirectDependents(p) == {d \in alive : rules[d][p] # NoRule}

\* transitiveDependents
AllDependents(p) == {d \in alive : p \in Above(rules, d)}
-----------------------------------------------------------------------------
(* Saves and deletions *)

Begin(x, p, to) ==
    /\ rpc[x] = "idle" /\ p \in alive /\ edits < MaxEdits
    /\ edits' = edits + 1
    /\ about' = [about EXCEPT ![x] = p]
    /\ rpc' = [rpc EXCEPT ![x] = to]

\* The request is over; what it has read is forgotten.
End(x) ==
    /\ rpc' = [rpc EXCEPT ![x] = "idle"]
    /\ about' = [about EXCEPT ![x] = CHOOSE p \in Pipelines : TRUE]
    /\ wants' = [wants EXCEPT ![x] = NoRules]
    /\ victims' = [victims EXCEPT ![x] = {}]
    /\ UNCHANGED edits

(* saveUpdate up to its checks: every upstream is on record, and there is  *)
(* no cycle.                                                               *)
CheckSave(x, p) ==
    /\ Begin(x, p, "save")
    /\ \E rs \in RuleSets :
          /\ rs[p] = NoRule /\ Upstreams(rs) \subseteq alive
          /\ ~HasCycle(p, rs)
          /\ wants' = [wants EXCEPT ![x] = rs]
    /\ UNCHANGED <<alive, rules, victims, runVars, overlapped>>

\* Another request has read the rules and will write.
UnderWay(x) == \E y \in Callers \ {x} : rpc[y] # "idle"

\* UpdatePipeline, if the pipeline is still on record.
Save(x) ==
    LET p == about[x]
    IN  /\ rpc[x] = "save"
        /\ rules' = IF p \in alive THEN [rules EXCEPT ![p] = wants[x]] ELSE rules
        /\ overlapped' = (overlapped \/ UnderWay(x))
        /\ End(x)
        /\ UNCHANGED <<alive, runVars>>

\* Delete reads the rules; a pipeline with dependents needs cascade or decouple.
CheckDelete(x, p) ==
    /\ \/ Begin(x, p, "delete") /\ DirectDependents(p) = {} /\ UNCHANGED victims
       \/ Begin(x, p, "cascade") /\ victims' = [victims EXCEPT ![x] = AllDependents(p)]
       \/ Begin(x, p, "decouple") /\ victims' = [victims EXCEPT ![x] = DirectDependents(p)]
    /\ UNCHANGED <<alive, rules, wants, runVars, overlapped>>

(* One transaction, which fails if any of the pipelines is not on record   *)
(* any more. A deleted pipeline takes its runs and its rules along.        *)
Delete(x) ==
    LET p == about[x]
        gone == {p} \cup (IF rpc[x] = "cascade" THEN victims[x] ELSE {})
        strip(d) == [rules[d] EXCEPT ![p] = IF rpc[x] = "decouple" /\ d \in victims[x] THEN NoRule ELSE @]
    IN  /\ rpc[x] \in {"delete", "cascade", "decouple"}
        /\ IF {p} \cup victims[x] \subseteq alive
           THEN /\ alive' = alive \ gone
                /\ rules' = [d \in Pipelines |-> IF d \in gone THEN NoRules ELSE strip(d)]
                /\ ran' = [d \in Pipelines |-> IF d \in gone THEN <<>> ELSE ran[d]]
                /\ fan' = {f \in fan : f[1] \notin gone}
                /\ overlapped' = (overlapped \/ UnderWay(x))
           ELSE UNCHANGED <<alive, rules, ran, fan, overlapped>>
        /\ End(x)
        /\ UNCHANGED fires
-----------------------------------------------------------------------------
(* Runs *)

Started == Cardinality({x \in Pipelines \X (1..MaxRuns) : x[2] <= Len(ran[x[1]])})
Latest(p) == IF ran[p] = <<>> THEN "none" ELSE ran[p][Len(ran[p])]

MatchesState(status, state) ==
    \/ status = "success" /\ state \in {"succeeded", "completed"}
    \/ status = "failed" /\ state \in {"failed", "completed"}
    \/ status = "cancelled" /\ state = "completed"

\* CheckDependencies: every gate holds for its upstream's latest run.
Satisfied(p) ==
    \A q \in Upstreams(rules[p]) :
        rules[p][q][1] = "gate" => q \in alive /\ MatchesState(Latest(q), rules[p][q][2])

\* RunPipelineOpts: the run starts, or is on record as blocked.
Dispatch(p) ==
    /\ p \in alive /\ Started < MaxRuns
    /\ ran' = [ran EXCEPT ![p] = Append(@, IF Satisfied(p) THEN "running" ELSE "blocked")]

\* A run by hand, on schedule or by a webhook.
Start(p) ==
    /\ Dispatch(p)
    /\ UNCHANGED <<alive, rules, requestVars, fan, fires, overlapped>>

Finish(p, k, status) ==
    /\ k <= Len(ran[p]) /\ ran[p][k] = "running"
    /\ ran' = [ran EXCEPT ![p][k] = status]
    /\ fan' = fan \cup {<<p, k>>}
    /\ UNCHANGED <<alive, rules, requestVars, fires, overlapped>>

\* fireTriggerModeDependents: whatever the state that the rule asks for.
FanOut(f) ==
    /\ fan' = fan \ {f}
    /\ fires' = fires \cup {<<d, f[1], f[2]>> : d \in {x \in alive : rules[x][f[1]][1] = "trigger"}}
    /\ UNCHANGED <<alive, rules, requestVars, ran, overlapped>>

Fire(f) ==
    /\ fires' = fires \ {f}
    /\ IF f[1] \in alive THEN Dispatch(f[1]) ELSE UNCHANGED ran
    /\ UNCHANGED <<alive, rules, requestVars, fan, overlapped>>
-----------------------------------------------------------------------------
Next ==
    \/ \E x \in Callers, p \in Pipelines : CheckSave(x, p) \/ CheckDelete(x, p)
    \/ \E x \in Callers : Save(x) \/ Delete(x)
    \/ \E p \in Pipelines : Start(p) \/ \E k \in 1..MaxRuns, s \in Outcomes : Finish(p, k, s)
    \/ \E f \in fan : FanOut(f)
    \/ \E f \in fires : Fire(f)

Spec == Init /\ [][Next]_vars
-----------------------------------------------------------------------------
(* Properties *)

(* No pipeline depends on itself, directly or through others: a save walks *)
(* the graph from its own pipeline only, and that is enough, however the   *)
(* rules of the others have come about, unless saves overlap.              *)
NoCycle == overlapped \/ \A p \in Pipelines : p \notin Above(rules, p)

(* No rule names a pipeline that is gone, however it was deleted, unless   *)
(* requests overlap: such a gate would never open.                         *)
NoRuleDangles == overlapped \/ \A p \in alive : Upstreams(rules[p]) \subseteq alive
-----------------------------------------------------------------------------
(* Stated by the code, and refuted by TLC. *)

(* "DepModeTrigger causes the downstream to auto-fire when the dependency  *)
(* transitions into the target state" (models/dependency.go:26). A trigger *)
(* fires on every end of its upstream: hasTriggerOn does not look at the   *)
(* state of the rule, and the gate before a run looks at gates only.       *)
TriggersInTargetState ==
    [][\A f \in fires' \ fires : MatchesState(ran[f[2]][f[3]], rules[f[1]][f[2]][2])]_vars

\* NoCycle without its condition: two saves, each of which closes half of a cycle.
NeverACycle == \A p \in Pipelines : p \notin Above(rules, p)
=============================================================================

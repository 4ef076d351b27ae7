------------------------- MODULE DagSchedulerProofs -------------------------
(***************************************************************************)
(* Theorems about the wave scheduler and about what a lineage reuses, for  *)
(* any set of valid pipelines, any parallelism, any failures, and any      *)
(* sequence of wakes and resumes: Execute finds no defect in itself, runs  *)
(* a node after everything upstream of it, follows the decisions of its    *)
(* condition nodes, and a wake or a resume neither leaves the branch that  *)
(* was taken nor repeats a node.                                           *)
(***************************************************************************)
EXTENDS DagScheduler, FiniteSetTheorems, TLAPS

\* An edge that is open, and one that was taken, into a node.
Unresolved(n) == {e \in Incoming(pipe, n) : edge[e] = "unresolved"}
Active(n) == {e \in Incoming(pipe, n) : edge[e] = "active"}

\* The nodes of the wave that wait for a goroutine.
Waiting == {todo[i] : i \in DOMAIN todo}

\* The node's goroutine is through, in this execution.
Finished(n) ==
    node[n] = "executed" \/ (node[n] = "queued" /\ n \notin Waiting /\ n \notin running)

(* The phases of Execute, and what belongs to a wave.                      *)
PhaseOK ==
    /\ result # "none" \/ complaint # "none" => phase = "ended"
    /\ phase = "head" => todo = <<>> /\ \A n \in Nodes : node[n] # "queued"
    /\ phase = "scan" => \A n \in Nodes : node[n] = "queued" => n \in Waiting
    /\ phase # "wave" => running = {}
    /\ phase \in {"head", "scan"} => firstErr = "none"
    /\ running \cap Waiting = {}
    /\ \A n \in running \cup Waiting : node[n] = "queued"
    /\ \A i, j \in DOMAIN todo : todo[i] = todo[j] => i = j
    /\ result = "success" \/ complaint = "stalled" => \A n \in Nodes : node[n] \in Terminal
    /\ complaint # "edges"

(* The counters count, and an edge is resolved by what became of the node  *)
(* it comes from.                                                          *)
GraphOK ==
    /\ \A n \in Nodes : unresolvedInputs[n] = Cardinality(Unresolved(n)) /\ activeInputs[n] = Cardinality(Active(n))
    /\ terminalNodes = Cardinality({n \in Nodes : node[n] \in Terminal})
    /\ \A e \in pipe.edges :
          edge[e] = IF node[e.from] \notin Terminal THEN "unresolved"
                    ELSE IF Taken(e) THEN "active" ELSE "inactive"

(* A node is in a wave or executed when everything upstream of it is done  *)
(* and something leads to it, and skipped when nothing does.               *)
RouteOK ==
    \A n \in Nodes :
        /\ node[n] # "pending" => \A e \in Incoming(pipe, n) : node[e.from] \in Terminal
        /\ node[n] \in {"queued", "executed"} => Incoming(pipe, n) = {} \/ \E e \in Incoming(pipe, n) : Taken(e)
        /\ node[n] = "skipped" => Incoming(pipe, n) # {} /\ \A e \in Incoming(pipe, n) : ~Taken(e)

\* A pass that has changed nothing has found no node that it could settle.
ScanOK ==
    phase = "scan" /\ ~progress =>
        \A n \in Nodes : n < pos /\ node[n] = "pending" => ~Runnable(n) /\ ~RoutedAround(n)

(* A row that counts as an outcome to reuse; the rows of this run for a    *)
(* node.                                                                   *)
Good == {"success", "reused"}
Here(n) == rows[run][n]
IsGood(n) == Here(n) \cap Good # {}

(* What the rows of the runs say.                                          *)
RecordOK ==
    /\ \A k \in Runs, n \in Nodes : k > run => rows[k][n] = {}
    /\ \A k \in Runs, n \in Nodes :
          rows[k][n] \cap Good # {} => n \in done /\ (pipe.kind[n] = "condition" => saved[k][n] # "none")
    /\ \A n \in Nodes :
          /\ Here(n) \cap {"success", "failed", "running"} # {} => n \in settled
          /\ "waiting" \in Here(n) => pipe.kind[n] = "wait"
          /\ pipe.kind[n] # "wait" /\ IsGood(n) => Here(n) \subseteq Good
          /\ node[n] = "skipped" => "skipped" \in Here(n)
          /\ node[n] = "executed" => IsGood(n) /\ decision[n] = saved[run][n]
          /\ Finished(n) /\ firstErr = "none" => IsGood(n) /\ decision[n] = saved[run][n]

(* What an execution reuses.                                               *)
ReuseOK ==
    \A n \in skipNodes :
        /\ n \in done
        /\ pipe.kind[n] = "condition" => conditionResults[n] # "none"
        /\ pipe.kind[n] # "wait" /\ node[n] # "skipped" => Here(n) \subseteq Good

(* A node that a run has routed around it routes around again.             *)
SkippedHere == {n \in Nodes : "skipped" \in Here(n)}
SkipOK ==
    \A n \in SkippedHere :
        /\ node[n] \in {"pending", "skipped"}
        /\ Incoming(pipe, n) # {}
        /\ \A e \in Incoming(pipe, n) :
              e.from \in SkippedHere \/ (IsGood(e.from) /\ e.branch \notin {"any", saved[run][e.from]})

(* The node is the start of the pipeline, or a reused decision leads to it *)
(* from K.                                                                 *)
Supported(n, K) ==
    \/ Incoming(pipe, n) = {}
    \/ \E e \in Incoming(pipe, n) : e.from \in K /\ e.branch \in {"any", conditionResults[e.from]}

(* K is what stays of earlier executions: its nodes are reused, with the   *)
(* decision they had, and lead to each other.                              *)
Kept(K) ==
    /\ \A n \in done \ owed : n \in K \/ (Finished(n) /\ IsGood(n))
    /\ \A n \in Nodes : IsGood(n) => n \in K \/ Finished(n)
    /\ \A n \in K :
          /\ Holders(n, run) # {}
          /\ node[n] # "skipped"
          /\ Supported(n, K)
          /\ pipe.kind[n] # "wait" =>
                /\ n \in skipNodes
                /\ rows[Holder(n, run)][n] \subseteq Good
                /\ conditionResults[n] = saved[Holder(n, run)][n]
KeptOK == \E K \in SUBSET Nodes : Kept(K)

(* The inductive invariant.                                                *)
DagInv ==
    /\ TypeOK /\ PhaseOK /\ GraphOK /\ RouteOK /\ ScanOK
    /\ RecordOK /\ ReuseOK /\ SkipOK /\ KeptOK /\ WorkIsNotRepeated

-----------------------------------------------------------------------------
(* Finite sets and counting                                                *)

(* A pipeline is a finite graph: what the counting of edges rests on.      *)
LEMMA FiniteEdges ==
    ASSUME NEW p \in Pipelines
    PROVE  /\ p \in [edges: SUBSET Edge, kind: [Nodes -> Kind]] /\ Valid(p)
           /\ IsFiniteSet(p.edges)
<1>1. p \in [edges: SUBSET Edge, kind: [Nodes -> Kind]] /\ Valid(p)
  BY SchedulerAssumption
<1>2. IsFiniteSet(Nodes) /\ IsFiniteSet(Branch)
  <2>1. IsFiniteSet(Nodes)
    BY SchedulerAssumption, FS_Interval DEF Nodes
  <2>2. IsFiniteSet({}) /\ IsFiniteSet({"any"}) /\ IsFiniteSet({"any"} \cup {"true"})
    BY FS_EmptySet, FS_Singleton, FS_AddElement
  <2>3. IsFiniteSet(({"any"} \cup {"true"}) \cup {"false"})
    BY <2>2, FS_AddElement
  <2>4. Branch = ({"any"} \cup {"true"}) \cup {"false"}
    BY DEF Branch
  <2> QED
    BY <2>1, <2>3, <2>4
<1>3. IsFiniteSet((Nodes \X Nodes) \X Branch)
  BY <1>2, FS_Product
<1> DEFINE f == [e \in Edge |-> <<<<e.from, e.to>>, e.branch>>]
<1>4. f \in Injection(Edge, (Nodes \X Nodes) \X Branch)
  <2>1. f \in [Edge -> (Nodes \X Nodes) \X Branch]
    BY DEF Edge
  <2>2. \A a, b \in Edge : f[a] = f[b] => a = b
    BY DEF Edge
  <2> QED
    BY <2>1, <2>2 DEF Injection, IsInjective
<1>5. IsFiniteSet(Edge)
  <2> HIDE DEF f
  <2> QED
    BY <1>3, <1>4, FS_Injection
<1>6. p.edges \in SUBSET Edge
  BY <1>1
<1> QED
  BY <1>1, <1>5, <1>6, FS_Subset

(* The inputs of a node can be counted.                                    *)
LEMMA FiniteInputs ==
    ASSUME TypeOK, NEW n \in Nodes
    PROVE  /\ IsFiniteSet(Incoming(pipe, n)) /\ IsFiniteSet(Unresolved(n)) /\ IsFiniteSet(Active(n))
           /\ Cardinality(Incoming(pipe, n)) \in Nat
           /\ Cardinality(Unresolved(n)) \in Nat /\ (Cardinality(Unresolved(n)) = 0 <=> Unresolved(n) = {})
           /\ Cardinality(Active(n)) \in Nat /\ (Cardinality(Active(n)) = 0 <=> Active(n) = {})
<1>1. IsFiniteSet(pipe.edges)
  BY FiniteEdges DEF TypeOK
<1>2. /\ Incoming(pipe, n) \in SUBSET pipe.edges /\ Unresolved(n) \in SUBSET pipe.edges
      /\ Active(n) \in SUBSET pipe.edges
  BY DEF Incoming, Unresolved, Active
<1>3. IsFiniteSet(Incoming(pipe, n)) /\ IsFiniteSet(Unresolved(n)) /\ IsFiniteSet(Active(n))
  BY <1>1, <1>2, FS_Subset
<1> QED
  BY <1>3, FS_CardinalityType, FS_EmptySet

(* What the two counters of a node say of the graph: none of its inputs is *)
(* open when all its sources are settled, and it has an active one when an *)
(* edge leads to it.                                                       *)
LEMMA RunnableMeans ==
    ASSUME TypeOK, GraphOK, NEW n \in Nodes
    PROVE  /\ unresolvedInputs[n] = 0 <=> \A e \in Incoming(pipe, n) : node[e.from] \in Terminal
           /\ activeInputs[n] > 0 <=> \E e \in Incoming(pipe, n) : Taken(e)
<1>1. \A e \in Incoming(pipe, n) : e \in pipe.edges
  BY DEF Incoming
<1>2. unresolvedInputs[n] = 0 <=> Unresolved(n) = {}
  BY FiniteInputs DEF GraphOK
<1>3. activeInputs[n] > 0 <=> Active(n) # {}
  BY FiniteInputs DEF GraphOK
<1>4. \A e \in Incoming(pipe, n) : (edge[e] = "unresolved") <=> (node[e.from] \notin Terminal)
  BY <1>1 DEF GraphOK
<1>5. \A e \in Incoming(pipe, n) : (edge[e] = "active") <=> Taken(e)
  BY <1>1 DEF GraphOK, Taken, Terminal
<1> QED
  BY <1>2, <1>3, <1>4, <1>5 DEF Unresolved, Active
(* A set of numbers up to m has a highest one.                             *)
LEMMA HighestExists ==
    ASSUME NEW m \in Nat, NEW S \in SUBSET (1..m), S # {}
    PROVE  \E j \in S : \A k \in S : k <= j
<1> DEFINE T == {m - k : k \in S}
<1>1. T \subseteq Nat /\ T # {}
  <2>1. \A k \in S : k \in 1..m /\ m - k \in Nat
    OBVIOUS
  <2> QED
    BY <2>1
<1>2. \E t \in T : \A u \in T : ~(<<u, t>> \in OpToRel(<, Nat))
  <2> HIDE DEF T
  <2> QED
    BY <1>1, NatLessThanWellFounded, WFMin
<1>3. PICK t \in T : \A u \in T : ~(u < t)
  <2> HIDE DEF T
  <2> QED
    BY <1>1, <1>2 DEF OpToRel
<1>4. PICK j \in S : t = m - j
  OBVIOUS
<1>5. ASSUME NEW k \in S
      PROVE  k <= j
  <2>1. m - k \in T /\ k \in 1..m /\ j \in 1..m
    OBVIOUS
  <2>2. ~(m - k < t)
    BY <2>1, <1>3
  <2> QED
    BY <2>1, <2>2, <1>4
<1> QED
  BY <1>5

(* The run whose rows count for a node: one that has rows of it, and the   *)
(* run itself when it has some.                                            *)
LEMMA HolderExists ==
    ASSUME TypeOK, NEW n \in Nodes, NEW k \in Runs, Holders(n, k) # {}
    PROVE  /\ Holder(n, k) \in Holders(n, k) /\ Holder(n, k) \in Runs
           /\ rows[Holder(n, k)][n] # {} /\ Holder(n, k) <= k
           /\ rows[k][n] # {} => Holder(n, k) = k
<1>1. MaxRuns \in Nat /\ k \in Nat /\ k \in 1..MaxRuns
  BY SchedulerAssumption DEF Runs
<1>2. Holders(n, k) \in SUBSET (1..k)
  BY DEF Holders
<1>3. \E j \in Holders(n, k) : \A i \in Holders(n, k) : i <= j
  BY <1>1, <1>2, HighestExists
<1>4. Holder(n, k) \in Holders(n, k) /\ \A i \in Holders(n, k) : i <= Holder(n, k)
  BY <1>3 DEF Holder
<1>5. Holder(n, k) \in 1..k /\ rows[Holder(n, k)][n] # {}
  BY <1>4 DEF Holders
<1>6. rows[k][n] # {} => k \in Holders(n, k)
  BY <1>1 DEF Holders
<1> QED
  BY <1>1, <1>4, <1>5, <1>6 DEF Runs

(* The arithmetic of resolveEdge: when the edges of S are open, the        *)
(* counters stay the numbers of open and of active edges, and none goes    *)
(* below zero.                                                             *)
LEMMA ResolveCounts ==
    ASSUME TypeOK, GraphOK, NEW S \in SUBSET pipe.edges, NEW A \in SUBSET S,
           \A e \in S : edge[e] = "unresolved", NEW n \in Nodes
    PROVE  /\ Cardinality({e \in S : e.to = n}) \in Nat /\ Cardinality({e \in A : e.to = n}) \in Nat
           /\ Cardinality({e \in S : e.to = n}) <= unresolvedInputs[n]
           /\ Cardinality(Unresolved(n) \ {e \in S : e.to = n})
                 = unresolvedInputs[n] - Cardinality({e \in S : e.to = n})
           /\ Cardinality(Active(n) \cup {e \in A : e.to = n})
                 = activeInputs[n] + Cardinality({e \in A : e.to = n})
<1> DEFINE s == {e \in S : e.to = n}
           a == {e \in A : e.to = n}
<1>1. s \in SUBSET Unresolved(n) /\ a \in SUBSET Unresolved(n) /\ Active(n) \cap a = {}
  BY DEF Unresolved, Incoming, Active
<1>2. /\ IsFiniteSet(Unresolved(n)) /\ IsFiniteSet(Active(n))
      /\ unresolvedInputs[n] = Cardinality(Unresolved(n)) /\ activeInputs[n] = Cardinality(Active(n))
  BY FiniteInputs DEF GraphOK
<1> HIDE DEF s, a
<1>3. IsFiniteSet(s) /\ IsFiniteSet(a) /\ Cardinality(s) <= Cardinality(Unresolved(n))
  BY <1>1, <1>2, FS_Subset
<1>4. Cardinality(s) \in Nat /\ Cardinality(a) \in Nat /\ Cardinality(Active(n)) \in Nat
  BY <1>2, <1>3, FS_CardinalityType
<1>5. Cardinality(Unresolved(n) \ s) = Cardinality(Unresolved(n)) - Cardinality(Unresolved(n) \cap s)
  BY <1>2, FS_Difference
<1>6. Unresolved(n) \cap s = s
  BY <1>1
<1>7. Cardinality(Active(n) \cup a) = Cardinality(Active(n)) + Cardinality(a) - Cardinality(Active(n) \cap a)
  BY <1>2, <1>3, FS_Union
<1>8. Cardinality(Active(n) \cap a) = 0
  BY <1>1, FS_EmptySet
<1>10. Cardinality(Unresolved(n) \ s) = Cardinality(Unresolved(n)) - Cardinality(s)
  BY <1>5, <1>6
<1>11. Cardinality(Active(n) \cup a) = Cardinality(Active(n)) + Cardinality(a)
  BY <1>4, <1>7, <1>8
<1>9. /\ Cardinality(s) \in Nat /\ Cardinality(a) \in Nat
      /\ Cardinality(s) <= unresolvedInputs[n]
      /\ Cardinality(Unresolved(n) \ s) = unresolvedInputs[n] - Cardinality(s)
      /\ Cardinality(Active(n) \cup a) = activeInputs[n] + Cardinality(a)
  BY <1>2, <1>3, <1>4, <1>10, <1>11
<1> QED
  BY <1>9 DEF s, a

\* The edges of the nodes in M.
From(M) == {e \in pipe.edges : e.from \in M}

(* When the nodes of M are settled and their edges resolved, the graph is  *)
(* as it should be: what skipping a node and releasing a wave have in      *)
(* common.                                                                 *)
LEMMA SettleStep ==
    ASSUME TypeOK, GraphOK, NEW M \in SUBSET Nodes, NEW A \in SUBSET From(M),
           \A m \in M : node[m] \notin Terminal,
           pipe' = pipe,
           \A n \in Nodes : node'[n] \in Terminal <=> node[n] \in Terminal \/ n \in M,
           terminalNodes' = terminalNodes + Cardinality(M),
           ResolveEdges(From(M), A),
           \A e \in From(M) : Taken(e)' <=> e \in A,
           \A e \in pipe.edges \ From(M) : Taken(e)' <=> Taken(e)
    PROVE  /\ GraphOK'
           /\ unresolvedInputs' \in [Nodes -> Nat] /\ activeInputs' \in [Nodes -> Nat] /\ terminalNodes' \in Nat
           /\ edge' \in [pipe.edges -> {"unresolved", "active", "inactive"}]
<1>1. \A e \in From(M) : e \in pipe.edges /\ edge[e] = "unresolved"
  BY DEF From, GraphOK
<1>2. A \subseteq From(M) /\ From(M) \subseteq pipe.edges
  BY DEF From
<1>3. edge' = [e \in pipe.edges |->
            IF e \in A THEN "active" ELSE IF e \in From(M) THEN "inactive" ELSE edge[e]]
  BY DEF ResolveEdges
<1>4. ASSUME NEW n \in Nodes
      PROVE  /\ unresolvedInputs'[n] = Cardinality(Unresolved(n)') /\ unresolvedInputs'[n] \in Nat
             /\ activeInputs'[n] = Cardinality(Active(n)') /\ activeInputs'[n] \in Nat
  <2>1. /\ unresolvedInputs'[n] = unresolvedInputs[n] - Cardinality({e \in From(M) : e.to = n})
        /\ activeInputs'[n] = activeInputs[n] + Cardinality({e \in A : e.to = n})
    BY DEF ResolveEdges
  <2>2. Unresolved(n)' = Unresolved(n) \ {e \in From(M) : e.to = n}
    BY <1>1, <1>2, <1>3 DEF Unresolved, Incoming
  <2>3. Active(n)' = Active(n) \cup {e \in A : e.to = n}
    BY <1>1, <1>2, <1>3 DEF Active, Incoming
  <2>4. unresolvedInputs[n] \in Nat /\ activeInputs[n] \in Nat
    BY DEF TypeOK
  <2>5. /\ Cardinality({e \in From(M) : e.to = n}) \in Nat /\ Cardinality({e \in A : e.to = n}) \in Nat
        /\ Cardinality({e \in From(M) : e.to = n}) <= unresolvedInputs[n]
        /\ Cardinality(Unresolved(n) \ {e \in From(M) : e.to = n})
              = unresolvedInputs[n] - Cardinality({e \in From(M) : e.to = n})
        /\ Cardinality(Active(n) \cup {e \in A : e.to = n})
              = activeInputs[n] + Cardinality({e \in A : e.to = n})
    <3>1. From(M) \in SUBSET pipe.edges /\ A \in SUBSET From(M) /\ \A e \in From(M) : edge[e] = "unresolved"
      BY <1>1, <1>2
    <3> QED
      BY <3>1, ResolveCounts, Zenon
  <2>6. unresolvedInputs'[n] = Cardinality(Unresolved(n)') /\ activeInputs'[n] = Cardinality(Active(n)')
    BY <2>1, <2>2, <2>3, <2>5
  <2>7. unresolvedInputs'[n] \in Nat /\ activeInputs'[n] \in Nat
    BY <2>1, <2>4, <2>5
  <2> QED
    BY <2>6, <2>7
<1>5. /\ terminalNodes' = Cardinality({n \in Nodes : node'[n] \in Terminal}) /\ terminalNodes' \in Nat
  <2> DEFINE D == {n \in Nodes : node[n] \in Terminal}
  <2>1. {n \in Nodes : node'[n] \in Terminal} = D \cup M /\ D \cap M = {}
    OBVIOUS
  <2>2. IsFiniteSet(Nodes)
    BY SchedulerAssumption, FS_Interval DEF Nodes
  <2>3. D \in SUBSET Nodes /\ terminalNodes = Cardinality(D)
    BY DEF GraphOK
  <2> HIDE DEF D
  <2>4. IsFiniteSet(D) /\ IsFiniteSet(M)
    BY <2>2, <2>3, FS_Subset
  <2>5. Cardinality(D \cup M) = Cardinality(D) + Cardinality(M) - Cardinality(D \cap M)
    BY <2>4, FS_Union
  <2>6. Cardinality(D \cap M) = 0 /\ Cardinality(D) \in Nat /\ Cardinality(M) \in Nat
    BY <2>1, <2>4, FS_EmptySet, FS_CardinalityType
  <2>7. Cardinality(D \cup M) = Cardinality(D) + Cardinality(M)
    BY <2>5, <2>6
  <2> QED
    BY <2>1, <2>3, <2>6, <2>7
<1>6. ASSUME NEW e \in pipe.edges
      PROVE  edge'[e] = IF node'[e.from] \notin Terminal THEN "unresolved"
                        ELSE IF Taken(e)' THEN "active" ELSE "inactive"
  <2>1. e.from \in Nodes
    BY FiniteEdges DEF TypeOK, Edge
  <2>2. edge[e] = IF node[e.from] \notin Terminal THEN "unresolved"
                  ELSE IF Taken(e) THEN "active" ELSE "inactive"
    BY DEF GraphOK
  <2>3. e \in From(M) <=> e.from \in M
    BY DEF From
  <2> QED
    BY <1>2, <1>3, <2>1, <2>2, <2>3
<1> QED
  <2>1. edge' \in [pipe.edges -> {"unresolved", "active", "inactive"}]
    BY <1>3 DEF TypeOK
  <2>2. unresolvedInputs' \in [Nodes -> Nat] /\ activeInputs' \in [Nodes -> Nat]
    BY <1>4 DEF ResolveEdges
  <2> QED
    BY <2>1, <2>2, <1>4, <1>5, <1>6 DEF GraphOK
(* The edges of nodes that are not settled can be resolved: resolveEdge    *)
(* never refuses.                                                          *)
LEMMA CanResolveAll ==
    ASSUME TypeOK, GraphOK, NEW M \in SUBSET Nodes, \A m \in M : node[m] \notin Terminal
    PROVE  CanResolve(From(M))
<1>1. From(M) \in SUBSET pipe.edges /\ \A e \in From(M) : edge[e] = "unresolved"
  BY DEF From, GraphOK
<1>2. {} \in SUBSET From(M)
  OBVIOUS
<1>3. ASSUME NEW n \in Nodes
      PROVE  Cardinality({e \in From(M) : e.to = n}) <= unresolvedInputs[n]
  BY <1>1, <1>2, ResolveCounts, Zenon
<1> QED
  BY <1>1, <1>3 DEF CanResolve

(* Skipping a node keeps the graph and never breaks the scheduler.         *)
LEMMA SkipMeans ==
    ASSUME TypeOK, GraphOK, NEW n \in Nodes, SkipNode(n)
    PROVE  /\ GraphOK' /\ UNCHANGED <<phase, result, complaint>>
           /\ unresolvedInputs' \in [Nodes -> Nat] /\ activeInputs' \in [Nodes -> Nat] /\ terminalNodes' \in Nat
           /\ edge' \in [pipe.edges -> {"unresolved", "active", "inactive"}]
<1>1. /\ node[n] \notin Terminal /\ pipe' = pipe /\ UNCHANGED decision
      /\ node' = [node EXCEPT ![n] = "skipped"] /\ node \in [Nodes -> {"pending", "queued"} \cup Terminal]
      /\ terminalNodes' = terminalNodes + 1
  BY DEF SkipNode, Visit, Terminal, wave, TypeOK
<1>2. From({n}) = Outgoing(pipe, n)
  BY DEF From, Outgoing
<1>3. CanResolve(Outgoing(pipe, n))
  <2>1. {n} \in SUBSET Nodes /\ \A m \in {n} : node[m] \notin Terminal
    BY <1>1
  <2>2. CanResolve(From({n}))
    BY <2>1, CanResolveAll, Zenon
  <2> QED
    BY <1>2, <2>2
<1>4. ResolveEdges(From({n}), {}) /\ UNCHANGED <<phase, result, complaint>>
  BY <1>2, <1>3 DEF SkipNode
<1>5. \A e \in pipe.edges : e.from \in Nodes
  BY FiniteEdges DEF TypeOK, Edge
<1>6. \A e \in From({n}) : ~Taken(e)'
  BY <1>1, <1>5 DEF From, Taken
<1>7. \A e \in pipe.edges \ From({n}) : Taken(e)' <=> Taken(e)
  BY <1>1, <1>5 DEF From, Taken
<1>8. \A m \in Nodes : node'[m] \in Terminal <=> node[m] \in Terminal \/ m \in {n}
  BY <1>1 DEF Terminal
<1>9. Cardinality({n}) = 1
  BY FS_Singleton
<1>10. {n} \in SUBSET Nodes /\ {} \in SUBSET From({n}) /\ \A m \in {n} : node[m] \notin Terminal
  BY <1>1
<1>11. terminalNodes' = terminalNodes + Cardinality({n}) /\ \A e \in From({n}) : Taken(e)' <=> e \in {}
  BY <1>1, <1>6, <1>9
<1> HIDE DEF From
<1>12. pipe' = pipe
  BY <1>1
<1> QED
  BY <1>4, <1>7, <1>8, <1>10, <1>11, <1>12, SettleStep, Zenon

(* The nodes of the current wave.                                          *)
Wave == {n \in Nodes : node[n] = "queued"}

(* A wave that succeeded is released: every condition node of it has a     *)
(* decision, executed or reused, and no edge is refused.                   *)
LEMMA ReleaseMeans ==
    ASSUME TypeOK, PhaseOK, GraphOK, RecordOK, Release
    PROVE  /\ GraphOK' /\ phase' = "head" /\ UNCHANGED <<result, complaint>>
           /\ node' = [n \in Nodes |-> IF n \in Wave THEN "executed" ELSE node[n]]
           /\ unresolvedInputs' \in [Nodes -> Nat] /\ activeInputs' \in [Nodes -> Nat] /\ terminalNodes' \in Nat
           /\ edge' \in [pipe.edges -> {"unresolved", "active", "inactive"}]
<1> DEFINE S == UNION {Outgoing(pipe, n) : n \in Wave}
           A == UNION {Activated(n, decision[n]) : n \in Wave}
<1>1. /\ pipe' = pipe /\ UNCHANGED decision /\ WaveDone /\ firstErr = "none"
      /\ node' = [n \in Nodes |-> IF n \in Wave THEN "executed" ELSE node[n]]
      /\ terminalNodes' = terminalNodes + Cardinality(Wave)
  BY DEF Release, wave, Wave
<1>2. \A e \in pipe.edges : e.from \in Nodes /\ e \in Edge
  BY FiniteEdges DEF TypeOK, Edge
<1>3. S = From(Wave)
  BY <1>2 DEF From, Outgoing
<1>4. Wave \in SUBSET Nodes /\ \A m \in Wave : node[m] \notin Terminal
  BY DEF Wave, Terminal
<1>5. CanResolve(S)
  BY <1>3, <1>4, CanResolveAll
<1>6. \A n \in Wave : pipe.kind[n] = "condition" => decision[n] # "none"
  <2>1. \A n \in Wave : Finished(n)
    BY <1>1 DEF Wave, Finished, WaveDone, Waiting
  <2>2. run \in Runs
    BY DEF TypeOK
  <2> QED
    BY <1>1, <1>4, <2>1, <2>2 DEF RecordOK, IsGood, Here
<1>7. ResolveEdges(S, A) /\ phase' = "head" /\ UNCHANGED <<result, complaint>>
  <2> HIDE DEF S, A
  <2>1. Release <=>
        LET undecided == \E n \in Wave : pipe.kind[n] = "condition" /\ decision[n] = "none" /\ Outgoing(pipe, n) # {}
        IN  /\ WaveDone /\ firstErr = "none"
            /\ node' = [n \in Nodes |-> IF n \in Wave THEN "executed" ELSE node[n]]
            /\ terminalNodes' = terminalNodes + Cardinality(Wave)
            /\ IF ~undecided /\ CanResolve(S)
               THEN ResolveEdges(S, A) /\ phase' = "head" /\ UNCHANGED <<result, complaint>>
               ELSE Break("edges") /\ UNCHANGED <<edge, unresolvedInputs, activeInputs>>
            /\ UNCHANGED <<pipe, scan, wave, ctx, durable, reuse, history>>
    BY DEF Release, Wave, S, A
  <2> QED
    BY <1>5, <1>6, <2>1
<1>8. A \in SUBSET From(Wave)
  BY <1>3 DEF Activated, Outgoing
<1>9. \A e \in From(Wave) : Taken(e)' <=> e \in A
  BY <1>1, <1>2 DEF From, Taken, Activated, Outgoing
<1>10. \A e \in pipe.edges \ From(Wave) : Taken(e)' <=> Taken(e)
  BY <1>1, <1>2 DEF From, Taken
<1>11. \A m \in Nodes : node'[m] \in Terminal <=> node[m] \in Terminal \/ m \in Wave
  BY <1>1 DEF Terminal
<1>12. ResolveEdges(From(Wave), A)
  BY <1>3, <1>7
<1>13. pipe' = pipe /\ terminalNodes' = terminalNodes + Cardinality(Wave)
  BY <1>1
<1> HIDE DEF From, A, S
<1>14. /\ GraphOK' /\ unresolvedInputs' \in [Nodes -> Nat] /\ activeInputs' \in [Nodes -> Nat] /\ terminalNodes' \in Nat
       /\ edge' \in [pipe.edges -> {"unresolved", "active", "inactive"}]
  BY <1>4, <1>8, <1>9, <1>10, <1>11, <1>12, <1>13, SettleStep, Zenon
<1> QED
  BY <1>1, <1>7, <1>14
-----------------------------------------------------------------------------
(* Types and phases                                                        *)

(* The statuses of node_runs rows.                                         *)
RowStatus == {"success", "failed", "waiting", "running", "skipped", "reused"}

(* A new row of a node, and what it leaves alone.                          *)
LEMMA RecordMeans ==
    ASSUME TypeOK, NEW n \in Nodes, NEW s \in RowStatus, rows' = [rows EXCEPT ![run][n] = @ \cup {s}]
    PROVE  /\ rows' \in [Runs -> [Nodes -> SUBSET RowStatus]]
           /\ \A k \in Runs, m \in Nodes : k # run \/ m # n => rows'[k][m] = rows[k][m]
           /\ rows'[run][n] = rows[run][n] \cup {s}
<1>1. rows \in [Runs -> [Nodes -> SUBSET RowStatus]] /\ run \in Runs
  BY DEF TypeOK, RowStatus
<1>2. rows[run] \in [Nodes -> SUBSET RowStatus] /\ rows[run][n] \in SUBSET RowStatus
  BY <1>1
<1>3. [rows[run] EXCEPT ![n] = rows[run][n] \cup {s}] \in [Nodes -> SUBSET RowStatus]
  BY <1>2
<1> QED
  BY <1>1, <1>2, <1>3

(* The decision of a node, and what it leaves alone.                       *)
LEMMA DecideMeans ==
    ASSUME TypeOK, NEW n \in Nodes, NEW d \in Decision, Decide(n, d)
    PROVE  /\ decision' \in [Nodes -> Decision] /\ saved' \in [Runs -> [Nodes -> Decision]]
           /\ \A m \in Nodes \ {n} : decision'[m] = decision[m]
           /\ \A k \in Runs, m \in Nodes : k # run \/ m # n => saved'[k][m] = saved[k][m]
           /\ decision'[n] = d /\ saved'[run][n] = d
<1>1. saved \in [Runs -> [Nodes -> Decision]] /\ run \in Runs /\ decision \in [Nodes -> Decision]
  BY DEF TypeOK
<1>2. saved[run] \in [Nodes -> Decision]
  BY <1>1
<1>3. [saved[run] EXCEPT ![n] = d] \in [Nodes -> Decision]
  BY <1>2
<1> QED
  BY <1>1, <1>2, <1>3 DEF Decide

(* reusableOutcomes, whichever of the rows it happens to read first: a     *)
(* node that is reused has a good row in the run that counts for it, and   *)
(* its decision is that run's; a node is reused when all its rows there    *)
(* are good.                                                               *)
LEMMA NewRunnerMeans ==
    ASSUME TypeOK, NEW k \in Runs, NEW j \in Runs, NEW reRun, NewRunner(k, j, reRun)
    PROVE  /\ skipNodes' \in SUBSET Nodes /\ conditionResults' \in [Nodes -> Decision]
           /\ \A n \in skipNodes' :
                 /\ Holders(n, j) # {} /\ n \notin reRun
                 /\ rows[Holder(n, j)][n] \cap Good # {}
                 /\ conditionResults'[n] = saved[Holder(n, j)][n]
           /\ \A n \in Nodes \ reRun : Holders(n, j) # {} /\ rows[Holder(n, j)][n] \subseteq Good => n \in skipNodes'
<1>1. PICK latest \in PossibleLatest(j) :
         /\ skipNodes' = Reused(latest, j) \ reRun
         /\ conditionResults' = [n \in Nodes |->
               IF n \in Reused(latest, j) \ reRun THEN saved[Holder(n, j)][n] ELSE "none"]
  BY DEF NewRunner
<1>2. \A n \in Nodes : Holders(n, j) # {} => latest[n] \in rows[Holder(n, j)][n]
  BY <1>1 DEF PossibleLatest
<1>3. ASSUME NEW n \in Nodes, n \in skipNodes'
      PROVE  /\ Holders(n, j) # {} /\ n \notin reRun /\ rows[Holder(n, j)][n] \cap Good # {}
             /\ conditionResults'[n] = saved[Holder(n, j)][n] /\ saved[Holder(n, j)][n] \in Decision
  <2>1. Holders(n, j) # {} /\ n \notin reRun /\ latest[n] \in Good
    BY <1>1, <1>3 DEF Reused, Reusable, Good
  <2>2. Holder(n, j) \in Runs
    BY <2>1, HolderExists
  <2>3. saved[Holder(n, j)][n] \in Decision
    BY <2>2 DEF TypeOK
  <2> QED
    BY <1>1, <1>2, <1>3, <2>1, <2>3
<1>4. skipNodes' \in SUBSET Nodes
  BY <1>1 DEF Reused
<1>5. conditionResults' \in [Nodes -> Decision]
  <2>1. ASSUME NEW n \in Nodes
        PROVE  (IF n \in Reused(latest, j) \ reRun THEN saved[Holder(n, j)][n] ELSE "none") \in Decision
    BY <1>1, <1>3 DEF Decision
  <2> QED
    BY <1>1, <2>1
<1>6. ASSUME NEW n \in Nodes \ reRun, Holders(n, j) # {}, rows[Holder(n, j)][n] \subseteq Good
      PROVE  n \in skipNodes'
  BY <1>1, <1>2, <1>6 DEF Reused, Reusable, Good
<1> QED
  BY <1>3, <1>4, <1>5, <1>6

(* Every step keeps the types.                                             *)
LEMMA TypeStep ==
    ASSUME TypeOK, PhaseOK, GraphOK, RecordOK, [Next]_vars
    PROVE  TypeOK'
<1> USE SchedulerAssumption DEF scan, graph, wave, durable, reuse, history
<1>0. 1 \in 1..(N + 1) /\ \A n \in Nodes : n + 1 \in 1..(N + 1)
  BY DEF Nodes
<1>1. CASE LoopHead
  BY <1>0, <1>1 DEF LoopHead, End, TypeOK
<1>2. CASE NextPass
  BY <1>0, <1>2 DEF NextPass, TypeOK
<1>3. CASE StartWave
  BY <1>3 DEF StartWave, Break, End, TypeOK
<1>4. CASE Launch
  <2>1. Head(todo) \in Nodes /\ Tail(todo) \in Seq(Nodes)
    BY <1>4 DEF Launch, TypeOK
  <2> QED
    BY <1>4, <2>1 DEF Launch, TypeOK
<1>5. CASE WaveFails
  BY <1>5 DEF WaveFails, FailRun, End, TypeOK
<1>6. CASE Release
  <2>1. node' \in [Nodes -> {"pending", "queued"} \cup Terminal]
    BY <1>6, ReleaseMeans DEF TypeOK, Terminal
  <2>2. UNCHANGED <<pipe, scan, wave, ctx, durable, reuse, history>>
    BY <1>6 DEF Release
  <2> QED
    BY <1>6, ReleaseMeans, <2>1, <2>2 DEF TypeOK
<1>7. ASSUME NEW n \in Nodes, QueueNode(n)
      PROVE  TypeOK'
  <2>1. Append(todo, n) \in Seq(Nodes) /\ pos + 1 \in 1..(N + 1)
    BY <1>7 DEF QueueNode, Visit, Nodes, TypeOK
  <2> QED
    BY <1>7, <2>1 DEF QueueNode, TypeOK
<1>8. ASSUME NEW n \in Nodes, JoinRefused(n) \/ SkipNotPersisted(n)
      PROVE  TypeOK'
  BY <1>8 DEF JoinRefused, SkipNotPersisted, FailRun, End, TypeOK
<1>9. ASSUME NEW n \in Nodes, SkipNode(n)
      PROVE  TypeOK'
  <2>1. node' \in [Nodes -> {"pending", "queued"} \cup Terminal] /\ pos + 1 \in 1..(N + 1)
    BY <1>9 DEF SkipNode, Visit, TypeOK, Terminal, Nodes
  <2>2. rows' \in [Runs -> [Nodes -> SUBSET RowStatus]]
    BY <1>9, RecordMeans DEF SkipNode, RowStatus
  <2>3. pos' = pos + 1 /\ progress' = TRUE /\ UNCHANGED <<pipe, wave, ctx, run, wakes, saved, settled, reuse, history>>
    BY <1>9 DEF SkipNode
  <2> QED
    BY <1>9, SkipMeans, <2>1, <2>2, <2>3 DEF TypeOK, RowStatus
<1>10. ASSUME NEW n \in Nodes, PassOver(n)
       PROVE  TypeOK'
  BY <1>0, <1>10 DEF PassOver, TypeOK
<1>11. ASSUME NEW n \in Nodes, NEW d \in Decision, NodeSucceeds(n, d)
       PROVE  TypeOK'
  <2>1. rows' \in [Runs -> [Nodes -> SUBSET RowStatus]]
    BY <1>11, RecordMeans DEF NodeSucceeds, Record, RowStatus
  <2>2. decision' \in [Nodes -> Decision] /\ saved' \in [Runs -> [Nodes -> Decision]]
    BY <1>11, DecideMeans DEF NodeSucceeds
  <2> QED
    BY <1>11, <2>1, <2>2 DEF NodeSucceeds, Complete, TypeOK, RowStatus
<1>12. ASSUME NEW n \in Nodes, NodeFails(n) \/ NodeParks(n) \/ ClaimRefused(n)
       PROVE  TypeOK'
  <2>1. rows' \in [Runs -> [Nodes -> SUBSET RowStatus]]
    BY <1>12, RecordMeans DEF NodeFails, NodeParks, ClaimRefused, Record, RowStatus
  <2> QED
    BY <1>12, <2>1 DEF NodeFails, NodeParks, ClaimRefused, Complete, TypeOK, RowStatus
<1>13. ASSUME NEW n \in Nodes, NodeNotStarted(n) \/ RestoreFails(n)
       PROVE  TypeOK'
  BY <1>13 DEF NodeNotStarted, RestoreFails, Complete, TypeOK
<1>14. ASSUME NEW n \in Nodes, Restore(n)
       PROVE  TypeOK'
  <2>1. rows' \in [Runs -> [Nodes -> SUBSET RowStatus]]
    BY <1>14, RecordMeans DEF Restore, Record, RowStatus
  <2>2. conditionResults[n] \in Decision
    BY DEF TypeOK
  <2>3. decision' \in [Nodes -> Decision] /\ saved' \in [Runs -> [Nodes -> Decision]]
    BY <1>14, <2>2, DecideMeans DEF Restore
  <2> QED
    BY <1>14, <2>1, <2>3 DEF Restore, Complete, TypeOK, RowStatus
<1>15. CASE Cancel
  BY <1>15 DEF Cancel, TypeOK
<1>16. ASSUME NEW k \in Runs, NEW reRun, NewRunner(k, run, reRun), wakes' \in Nat,
              settled' \subseteq Nodes, owed' \subseteq Nodes
       PROVE  TypeOK'
  <2>1. run \in Runs
    BY DEF TypeOK
  <2>2. skipNodes' \subseteq Nodes /\ conditionResults' \in [Nodes -> Decision]
    BY <1>16, <2>1, NewRunnerMeans
  <2>3. unresolvedInputs' \in [Nodes -> Nat]
    <3>1. \A n \in Nodes : Cardinality(Incoming(pipe, n)) \in Nat
      BY FiniteInputs
    <3> QED
      BY <1>16, <3>1 DEF NewRunner
  <2>4. /\ UNCHANGED <<pipe, rows, saved, done, again>> /\ run' = k
        /\ phase' = "head" /\ result' = "none" /\ complaint' = "none" /\ ctx' = FALSE
        /\ pos' = 1 /\ progress' = FALSE /\ node' = Pending /\ edge' = [e \in pipe.edges |-> "unresolved"]
        /\ activeInputs' = [n \in Nodes |-> 0] /\ terminalNodes' = 0
        /\ todo' = <<>> /\ running' = {} /\ firstErr' = "none" /\ decision' = NoDecision
    BY <1>16 DEF NewRunner
  <2>5. decision' \in [Nodes -> Decision] /\ node' \in [Nodes -> {"pending", "queued"} \cup Terminal]
    BY <2>4 DEF NoDecision, Pending, Decision
  <2>6. /\ pipe' \in Pipelines /\ pos' \in 1..(N + 1) /\ progress' \in BOOLEAN /\ ctx' \in BOOLEAN
        /\ edge' \in [pipe'.edges -> {"unresolved", "active", "inactive"}]
        /\ activeInputs' \in [Nodes -> Nat] /\ terminalNodes' \in Nat
        /\ todo' \in Seq(Nodes) /\ running' \subseteq Nodes
    <3>1. pipe' \in Pipelines /\ pos' \in 1..(N + 1) /\ activeInputs' \in [Nodes -> Nat] /\ terminalNodes' \in Nat
      BY <1>0, <2>4 DEF TypeOK
    <3>2. progress' \in BOOLEAN /\ ctx' \in BOOLEAN
      BY <2>4
    <3>3. edge' \in [pipe'.edges -> {"unresolved", "active", "inactive"}]
      BY <2>4
    <3>4. todo' \in Seq(Nodes) /\ running' \subseteq Nodes
      BY <2>4
    <3> QED
      BY <3>1, <3>2, <3>3, <3>4
  <2>7. /\ rows' \in [Runs -> [Nodes -> SUBSET RowStatus]] /\ saved' \in [Runs -> [Nodes -> Decision]]
        /\ done' \subseteq Nodes /\ again' \subseteq Nodes
    BY <2>4 DEF TypeOK, RowStatus
  <2> QED
    BY <1>16, <2>2, <2>3, <2>4, <2>5, <2>6, <2>7 DEF TypeOK, RowStatus
<1>17. ASSUME Wake \/ Resume \/ \E n \in Nodes : ResumeFromNode(n)
       PROVE  TypeOK'
  <2>1. run \in Runs /\ (run < MaxRuns => run + 1 \in Runs)
    BY DEF TypeOK, Runs
  <2>2. CASE Wake
    <3>1. NewRunner(run, run, {}) /\ wakes' \in Nat /\ settled' \subseteq Nodes /\ owed' \subseteq Nodes
      BY <2>2 DEF Wake, TypeOK
    <3> QED
      BY <1>16, <2>1, <3>1
  <2>3. CASE Resume
    BY <1>16, <2>1, <2>3 DEF Resume, TypeOK
  <2>4. ASSUME NEW n \in Nodes, ResumeFromNode(n)
        PROVE  TypeOK'
    BY <1>16, <2>1, <2>4 DEF ResumeFromNode, TypeOK, Descendants
  <2> QED
    BY <1>17, <2>2, <2>3, <2>4
<1>18. CASE UNCHANGED vars
  BY <1>18 DEF vars, TypeOK
<1> QED
  BY <1>1, <1>2, <1>3, <1>4, <1>5, <1>6, <1>7, <1>8, <1>9, <1>10, <1>11, <1>12, <1>13, <1>14, <1>15, <1>17, <1>18
     DEF Next, Execute, Scan, Finish
(* When as many nodes are settled as there are, all of them are.           *)
LEMMA AllDone ==
    ASSUME TypeOK, GraphOK, terminalNodes = N
    PROVE  \A n \in Nodes : node[n] \in Terminal
<1> DEFINE D == {n \in Nodes : node[n] \in Terminal}
<1>1. IsFiniteSet(Nodes) /\ Cardinality(Nodes) = N
  BY SchedulerAssumption, FS_Interval DEF Nodes
<1>2. D \in SUBSET Nodes /\ Cardinality(D) = N
  BY DEF GraphOK
<1>3. D = Nodes
  <2> HIDE DEF D
  <2> QED
    BY <1>1, <1>2, FS_Subset
<1> QED
  BY <1>3

(* When a scan ends without progress and without a ready node, every node  *)
(* is settled: otherwise, the pipeline having no cycle, there is one whose *)
(* sources are all settled, and the pass would have queued or skipped it.  *)
LEMMA StalledIsDone ==
    ASSUME TypeOK, PhaseOK, GraphOK, ScanOK, phase = "scan", pos = N + 1, ~progress, todo = <<>>
    PROVE  \A n \in Nodes : node[n] \in Terminal
<1> DEFINE S == {n \in Nodes : node[n] = "pending"}
<1>1. \A n \in Nodes : node[n] \in {"pending"} \cup Terminal
  BY DEF PhaseOK, Waiting, TypeOK
<1>2. SUFFICES ASSUME S # {}
               PROVE  FALSE
  BY <1>1
<1>3. PICK n \in S : \A e \in Incoming(pipe, n) : e.from \notin S
  BY <1>2, FiniteEdges DEF TypeOK, Valid, Acyclic
<1>4. \A e \in Incoming(pipe, n) : e.from \in Nodes /\ node[e.from] \in Terminal
  BY <1>1, <1>3, FiniteEdges DEF TypeOK, Incoming, Edge
<1>5. unresolvedInputs[n] = 0
  BY <1>4, RunnableMeans
<1>6. Runnable(n) \/ RoutedAround(n)
  BY <1>5 DEF RoutedAround
<1>7. n < pos
  BY SchedulerAssumption DEF Nodes
<1> QED
  BY <1>6, <1>7 DEF ScanOK

(* Every step keeps the phases, and Execute ends as success or as stalled  *)
(* only when all nodes are settled.                                        *)
LEMMA PhaseStep ==
    ASSUME TypeOK, PhaseOK, GraphOK, ScanOK, RecordOK, [Next]_vars
    PROVE  PhaseOK'
<1> USE DEF scan, graph, wave, durable, reuse, history
<1>1. CASE LoopHead
  <2>1. terminalNodes = N => \A n \in Nodes : node[n] \in Terminal
    BY AllDone
  <2> QED
    BY <1>1, <2>1 DEF LoopHead, End, PhaseOK, Waiting
<1>2. CASE NextPass
  BY <1>2 DEF NextPass, PhaseOK, Waiting
<1>3. CASE StartWave
  <2>1. CASE todo = <<>>
    <3>1. \A n \in Nodes : node[n] \in Terminal
      BY <1>3, <2>1, StalledIsDone DEF StartWave
    <3> QED
      BY <1>3, <2>1, <3>1 DEF StartWave, Break, End, PhaseOK, Waiting
  <2>2. CASE todo # <<>>
    BY <1>3, <2>2 DEF StartWave, PhaseOK, Waiting
  <2> QED
    BY <2>1, <2>2
<1>4. CASE Launch
  <2>1. /\ todo \in Seq(Nodes) /\ todo # <<>> /\ todo' = Tail(todo) /\ running' = running \cup {Head(todo)}
        /\ phase = "wave" /\ UNCHANGED <<phase, result, complaint, node, firstErr>>
    BY <1>4 DEF Launch, TypeOK
  <2>2. Head(todo) = todo[1] /\ 1 \in DOMAIN todo
    BY <2>1
  <2>3. \A i \in DOMAIN todo' : i + 1 \in DOMAIN todo /\ todo'[i] = todo[i + 1] /\ i + 1 # 1 /\ i \in Nat
    BY <2>1
  <2>4. Waiting' \subseteq Waiting /\ Head(todo) \notin Waiting' /\ Head(todo) \in Waiting
    BY <2>2, <2>3 DEF Waiting, PhaseOK
  <2>5. \A i, j \in DOMAIN todo' : todo'[i] = todo'[j] => i = j
    BY <2>3 DEF PhaseOK
  <2> HIDE DEF Waiting
  <2> QED
    BY <2>1, <2>4, <2>5 DEF PhaseOK
<1>5. CASE WaveFails
  BY <1>5 DEF WaveFails, WaveDone, FailRun, End, PhaseOK, Waiting
<1>6. CASE Release
  <2>1. WaveDone /\ UNCHANGED <<todo, running, firstErr>> /\ firstErr = "none"
    BY <1>6 DEF Release
  <2> QED
    BY <1>6, <2>1, ReleaseMeans, SMTT(30) DEF WaveDone, PhaseOK, Waiting, Wave, Terminal
<1>7. ASSUME NEW n \in Nodes, QueueNode(n)
      PROVE  PhaseOK'
  <2>1. /\ node[n] = "pending" /\ node' = [node EXCEPT ![n] = "queued"] /\ todo' = Append(todo, n)
        /\ todo \in Seq(Nodes) /\ phase = "scan" /\ UNCHANGED <<phase, running, firstErr, result, complaint>>
        /\ node \in [Nodes -> {"pending", "queued"} \cup Terminal]
    BY <1>7 DEF QueueNode, Visit, TypeOK
  <2>2. Waiting' = Waiting \cup {n} /\ n \notin Waiting
    BY <2>1 DEF Waiting, PhaseOK
  <2>3. \A i, j \in DOMAIN todo' : todo'[i] = todo'[j] => i = j
    <3>1. \A i \in DOMAIN todo' : (i \in DOMAIN todo /\ todo'[i] = todo[i]) \/ (i = Len(todo) + 1 /\ todo'[i] = n)
      BY <2>1
    <3> QED
      BY <2>2, <3>1 DEF Waiting, PhaseOK
  <2> HIDE DEF Waiting
  <2> QED
    BY <2>1, <2>2, <2>3 DEF PhaseOK
<1>8. ASSUME NEW n \in Nodes, JoinRefused(n) \/ SkipNotPersisted(n)
      PROVE  PhaseOK'
  BY <1>8 DEF JoinRefused, SkipNotPersisted, Visit, FailRun, End, PhaseOK, Waiting
<1>9. ASSUME NEW n \in Nodes, SkipNode(n)
      PROVE  PhaseOK'
  <2>1. /\ node[n] = "pending" /\ node' = [node EXCEPT ![n] = "skipped"] /\ phase = "scan" /\ UNCHANGED wave
        /\ node \in [Nodes -> {"pending", "queued"} \cup Terminal]
    BY <1>9 DEF SkipNode, Visit, TypeOK
  <2>2. UNCHANGED <<phase, result, complaint>>
    BY <1>9, SkipMeans
  <2> QED
    BY <2>1, <2>2 DEF PhaseOK, Waiting
<1>10. ASSUME NEW n \in Nodes, PassOver(n)
       PROVE  PhaseOK'
  BY <1>10 DEF PassOver, PhaseOK, Waiting
<1>11. ASSUME NEW n \in Nodes, NEW err \in {"none", "fail", "park"}, Complete(n, err),
              UNCHANGED <<phase, result, complaint, node, todo>>
       PROVE  PhaseOK'
  <2>1. phase = "wave" /\ running' = running \ {n}
    BY <1>11 DEF Complete, PhaseOK
  <2> QED
    BY <1>11, <2>1 DEF PhaseOK, Waiting
<1>12. ASSUME NEW n \in Nodes, Finish(n)
       PROVE  PhaseOK'
  <2>1. /\ \E err \in {"none", "fail", "park"} : Complete(n, err)
        /\ UNCHANGED <<phase, result, complaint, node, todo>>
    BY <1>12 DEF Finish, NodeSucceeds, NodeFails, NodeParks, NodeNotStarted, ClaimRefused, Restore, RestoreFails
  <2> QED
    BY <1>11, <2>1
<1>13. CASE Cancel
  BY <1>13 DEF Cancel, PhaseOK, Waiting
<1>14. ASSUME NEW k, NEW reRun, NewRunner(k, run, reRun)
       PROVE  PhaseOK'
  <2>1. /\ phase' = "head" /\ result' = "none" /\ complaint' = "none" /\ node' = Pending
        /\ todo' = <<>> /\ running' = {} /\ firstErr' = "none"
    BY <1>14 DEF NewRunner
  <2>2. \A n \in Nodes : node'[n] = "pending"
    BY <2>1 DEF Pending
  <2> QED
    BY <2>1, <2>2 DEF PhaseOK, Waiting
<1>15. CASE UNCHANGED vars
  BY <1>15 DEF vars, PhaseOK, Waiting
<1> QED
  BY <1>1, <1>2, <1>3, <1>4, <1>5, <1>6, <1>7, <1>8, <1>9, <1>10, <1>12, <1>13, <1>14, <1>15
     DEF Next, Execute, Scan, Wake, Resume, ResumeFromNode
-----------------------------------------------------------------------------
(* The graph and the routing                                               *)

\* A step that leaves the graph alone; only a node that runs may decide.
Still ==
    /\ UNCHANGED <<pipe, node, edge, unresolvedInputs, activeInputs, terminalNodes>>
    /\ \A n \in Nodes : n \notin running => decision'[n] = decision[n]

\* Wake, Resume or ResumeFromNode.
Again(k, reRun) ==
    /\ NewRunner(k, run, reRun) /\ k \in Runs
    /\ \/ k = run /\ reRun = {} /\ settled' = settled
       \/ k = run + 1 /\ settled' = {}
    /\ owed' = owed \cup reRun
    /\ \A e \in pipe.edges : e.from \in reRun => e.to \in reRun

(* The three ways in which a lineage goes on: what runs again is closed    *)
(* under the edges of the pipeline.                                        *)
LEMMA AgainIsNew ==
    ASSUME TypeOK, Wake \/ Resume \/ \E n \in Nodes : ResumeFromNode(n)
    PROVE  \E k \in Runs, reRun \in SUBSET Nodes : Again(k, reRun)
<1>0. run \in Runs /\ (run < MaxRuns => run + 1 \in Runs)
  BY SchedulerAssumption DEF TypeOK, Runs
<1>1. CASE Wake
  <2>1. Again(run, {})
    BY <1>0, <1>1 DEF Wake, Again
  <2> QED
    BY <1>0, <2>1
<1>2. CASE Resume
  <2>1. Again(run + 1, {})
    BY <1>0, <1>2 DEF Resume, Again
  <2> QED
    BY <1>0, <1>2, <2>1 DEF Resume
<1>3. ASSUME NEW n \in Nodes, ResumeFromNode(n)
      PROVE  \E k \in Runs, reRun \in SUBSET Nodes : Again(k, reRun)
  <2>1. Descendants(n) \in SUBSET Nodes
    BY DEF Descendants
  <2>2. \A e \in pipe.edges : e.from \in Nodes /\ e.to \in Nodes
    BY FiniteEdges DEF TypeOK, Edge
  <2>3. \A e \in pipe.edges : e.from \in Descendants(n) => e.to \in Descendants(n)
    BY <2>2 DEF Descendants
  <2>4. Again(run + 1, Descendants(n))
    BY <1>0, <1>3, <2>3 DEF ResumeFromNode, Again
  <2> QED
    BY <1>0, <1>3, <2>1, <2>4 DEF ResumeFromNode
<1> QED
  BY <1>1, <1>2, <1>3

(* What a step does to the graph.                                          *)
LEMMA StepKinds ==
    ASSUME TypeOK, PhaseOK, [Next]_vars
    PROVE  \/ Still \/ Release
           \/ \E n \in Nodes : QueueNode(n) \/ SkipNode(n)
           \/ \E k \in Runs, reRun \in SUBSET Nodes : Again(k, reRun)
<1> USE DEF scan, graph, wave, durable, reuse, history
<1>1. CASE LoopHead \/ NextPass \/ StartWave \/ Launch \/ WaveFails \/ Cancel \/ UNCHANGED vars
  BY <1>1 DEF LoopHead, NextPass, StartWave, Launch, WaveFails, Cancel, vars, Still
<1>2. ASSUME NEW n \in Nodes, JoinRefused(n) \/ SkipNotPersisted(n) \/ PassOver(n)
      PROVE  Still
  BY <1>2 DEF JoinRefused, SkipNotPersisted, PassOver, Still
<1>3. ASSUME NEW n \in Nodes, Finish(n)
      PROVE  Still
  <2>1. /\ UNCHANGED <<pipe, node, edge, unresolvedInputs, activeInputs, terminalNodes>> /\ n \in running
        /\ \/ \E d : decision' = [decision EXCEPT ![n] = d]
           \/ UNCHANGED decision
    BY <1>3 DEF Finish, NodeSucceeds, NodeFails, NodeParks, NodeNotStarted, ClaimRefused, Restore, RestoreFails,
       Complete, Decide
  <2> QED
    BY <2>1 DEF Still, TypeOK
<1>4. CASE Wake \/ Resume \/ \E n \in Nodes : ResumeFromNode(n)
  BY <1>4, AgainIsNew
<1> QED
  BY <1>1, <1>2, <1>3, <1>4 DEF Next, Execute, Scan

(* A node that is executed has decided.                                    *)
LEMMA TakenStays ==
    ASSUME TypeOK, PhaseOK, Still, NEW e \in pipe.edges
    PROVE  Taken(e)' <=> Taken(e)
<1>1. e.from \in Nodes
  BY FiniteEdges DEF TypeOK, Edge
<1>2. node[e.from] = "executed" => e.from \notin running
  BY DEF PhaseOK
<1> QED
  BY <1>1, <1>2 DEF Still, Taken

(* Every step keeps the counters and the edges.                            *)
LEMMA GraphStep ==
    ASSUME TypeOK, PhaseOK, GraphOK, RecordOK, [Next]_vars
    PROVE  GraphOK'
<1>1. CASE Still
  <2>1. UNCHANGED <<pipe, node, edge, unresolvedInputs, activeInputs, terminalNodes>>
    BY <1>1 DEF Still
  <2>2. \A n \in Nodes : Unresolved(n)' = Unresolved(n) /\ Active(n)' = Active(n)
    BY <2>1 DEF Unresolved, Active, Incoming
  <2>3. \A e \in pipe.edges : Taken(e)' <=> Taken(e)
    BY <1>1, TakenStays
  <2> QED
    BY <2>1, <2>2, <2>3 DEF GraphOK
<1>2. ASSUME NEW n \in Nodes, QueueNode(n)
      PROVE  GraphOK'
  <2>1. /\ UNCHANGED <<pipe, edge, unresolvedInputs, activeInputs, terminalNodes, decision>>
        /\ node[n] = "pending" /\ node' = [node EXCEPT ![n] = "queued"]
        /\ node \in [Nodes -> {"pending", "queued"} \cup Terminal]
    BY <1>2 DEF QueueNode, Visit, TypeOK
  <2>2. \A m \in Nodes : Unresolved(m)' = Unresolved(m) /\ Active(m)' = Active(m)
    BY <2>1 DEF Unresolved, Active, Incoming
  <2>3. \A e \in pipe.edges : e.from \in Nodes
    BY FiniteEdges DEF TypeOK, Edge
  <2>4. \A m \in Nodes : node'[m] \in Terminal <=> node[m] \in Terminal
    BY <2>1 DEF Terminal
  <2>5. \A e \in pipe.edges : Taken(e)' <=> Taken(e)
    BY <2>1, <2>3 DEF Taken
  <2>6. {m \in Nodes : node'[m] \in Terminal} = {m \in Nodes : node[m] \in Terminal}
    BY <2>4
  <2> QED
    BY <2>1, <2>2, <2>3, <2>4, <2>5, <2>6 DEF GraphOK
<1>3. ASSUME NEW k \in Runs, NEW reRun \in SUBSET Nodes, Again(k, reRun)
      PROVE  GraphOK'
  <2>1. /\ pipe' = pipe /\ node' = Pending /\ edge' = [e \in pipe.edges |-> "unresolved"]
        /\ unresolvedInputs' = [n \in Nodes |-> Cardinality(Incoming(pipe, n))]
        /\ activeInputs' = [n \in Nodes |-> 0] /\ terminalNodes' = 0
    BY <1>3 DEF Again, NewRunner
  <2>2. \A n \in Nodes : Unresolved(n)' = Incoming(pipe, n) /\ Active(n)' = {}
    BY <2>1 DEF Unresolved, Active, Incoming
  <2>3. \A e \in pipe.edges : e.from \in Nodes
    BY FiniteEdges DEF TypeOK, Edge
  <2>4. \A n \in Nodes : node'[n] \notin Terminal
    BY <2>1 DEF Pending, Terminal
  <2>5. {n \in Nodes : node'[n] \in Terminal} = {}
    BY <2>4
  <2>6. Cardinality({}) = 0
    BY FS_EmptySet
  <2> QED
    BY <2>1, <2>2, <2>3, <2>4, <2>5, <2>6 DEF GraphOK
<1> QED
  BY <1>1, <1>2, <1>3, StepKinds, SkipMeans, ReleaseMeans

(* Every step keeps the routing: what was queued, executed or skipped with *)
(* good reason stays so, because its sources are settled and do not change *)
(* any more.                                                               *)
LEMMA RouteStep ==
    ASSUME TypeOK, PhaseOK, GraphOK, RouteOK, RecordOK, [Next]_vars
    PROVE  RouteOK'
<1>0. \A n \in Nodes : \A e \in Incoming(pipe, n) : e \in pipe.edges /\ e.from \in Nodes
  BY FiniteEdges DEF TypeOK, Edge, Incoming
<1>1. CASE Still
  <2>1. UNCHANGED <<pipe, node>>
    BY <1>1 DEF Still
  <2>2. \A n \in Nodes : \A e \in Incoming(pipe, n) : Taken(e)' <=> Taken(e)
    BY <1>0, <1>1, TakenStays
  <2> QED
    BY <2>1, <2>2 DEF RouteOK, Incoming
<1>2. ASSUME NEW n \in Nodes, QueueNode(n)
      PROVE  RouteOK'
  <2>1. /\ UNCHANGED <<pipe, decision>> /\ Runnable(n)
        /\ node[n] = "pending" /\ node' = [node EXCEPT ![n] = "queued"]
        /\ node \in [Nodes -> {"pending", "queued"} \cup Terminal]
    BY <1>2 DEF QueueNode, Visit, TypeOK
  <2>2. \A m \in Nodes : \A e \in Incoming(pipe, m) : Taken(e)' <=> Taken(e)
    BY <1>0, <2>1 DEF Taken
  <2>3. /\ \A e \in Incoming(pipe, n) : node[e.from] \in Terminal
        /\ Incoming(pipe, n) = {} \/ \E e \in Incoming(pipe, n) : Taken(e)
    BY <2>1, RunnableMeans DEF Runnable
  <2>4. \A m \in Nodes : node[m] \in Terminal => node'[m] = node[m]
    BY <2>1 DEF Terminal
  <2>5. \A m \in Nodes : Incoming(pipe', m) = Incoming(pipe, m)
    BY <2>1
  <2> QED
    BY <1>0, <2>1, <2>2, <2>3, <2>4, <2>5 DEF RouteOK
<1>3. ASSUME NEW n \in Nodes, SkipNode(n)
      PROVE  RouteOK'
  <2>1. /\ UNCHANGED <<pipe, decision>> /\ RoutedAround(n)
        /\ node[n] = "pending" /\ node' = [node EXCEPT ![n] = "skipped"]
        /\ node \in [Nodes -> {"pending", "queued"} \cup Terminal]
    BY <1>3 DEF SkipNode, Visit, TypeOK, wave
  <2>2. \A m \in Nodes : \A e \in Incoming(pipe, m) : Taken(e)' <=> Taken(e)
    BY <1>0, <2>1 DEF Taken
  <2>3. /\ \A e \in Incoming(pipe, n) : node[e.from] \in Terminal
        /\ Incoming(pipe, n) # {} /\ \A e \in Incoming(pipe, n) : ~Taken(e)
    BY <2>1, RunnableMeans DEF Runnable, RoutedAround
  <2>4. \A m \in Nodes : node[m] \in Terminal => node'[m] = node[m]
    BY <2>1 DEF Terminal
  <2>5. \A m \in Nodes : Incoming(pipe', m) = Incoming(pipe, m)
    BY <2>1
  <2> QED
    BY <1>0, <2>1, <2>2, <2>3, <2>4, <2>5 DEF RouteOK
<1>4. CASE Release
  <2>1. /\ UNCHANGED <<pipe, decision>> /\ node' = [n \in Nodes |-> IF n \in Wave THEN "executed" ELSE node[n]]
    BY <1>4, ReleaseMeans DEF Release, wave
  <2>2. \A m \in Nodes : node[m] \in Terminal => node'[m] = node[m]
    BY <2>1 DEF Terminal, Wave
  <2>3. \A m \in Nodes : \A e \in Incoming(pipe, m) : node[e.from] \in Terminal => (Taken(e)' <=> Taken(e))
    BY <1>0, <2>1, <2>2 DEF Taken
  <2>4. \A m \in Nodes : Incoming(pipe', m) = Incoming(pipe, m)
    BY <2>1
  <2>5. ASSUME NEW n \in Nodes, node'[n] # "pending"
        PROVE  /\ node[n] # "pending" /\ \A e \in Incoming(pipe, n) : node[e.from] \in Terminal
               /\ node'[n] = "executed" => node[n] \in {"queued", "executed"}
               /\ node'[n] = "skipped" => node[n] = "skipped"
               /\ node'[n] # "queued"
    BY <2>1, <2>5 DEF RouteOK, Wave
  <2> QED
    BY <1>0, <2>2, <2>3, <2>4, <2>5 DEF RouteOK
<1>5. ASSUME NEW k \in Runs, NEW reRun \in SUBSET Nodes, Again(k, reRun)
      PROVE  RouteOK'
  <2>1. \A n \in Nodes : node'[n] = "pending"
    BY <1>5 DEF Again, NewRunner, Pending
  <2> QED
    BY <2>1 DEF RouteOK
<1> QED
  BY <1>1, <1>2, <1>3, <1>4, <1>5, StepKinds

(* Every step keeps what a pass without progress knows of the nodes it     *)
(* went over.                                                              *)
LEMMA ScanStep ==
    ASSUME TypeOK, PhaseOK, ScanOK, [Next]_vars
    PROVE  ScanOK'
<1> USE SchedulerAssumption DEF scan, graph, wave, durable, reuse, history
<1>1. CASE LoopHead \/ NextPass
  <2>1. phase' = "scan" => pos' = 1
    BY <1>1 DEF LoopHead, NextPass, End
  <2>2. \A n \in Nodes : ~(n < 1)
    BY DEF Nodes
  <2> QED
    BY <2>1, <2>2 DEF ScanOK
<1>2. CASE StartWave \/ Launch \/ WaveFails
  BY <1>2 DEF StartWave, Launch, WaveFails, FailRun, Break, End, ScanOK
<1>3. CASE Release
  BY <1>3 DEF Release, Break, End, ScanOK
<1>4. ASSUME NEW n \in Nodes, QueueNode(n) \/ SkipNode(n) \/ JoinRefused(n) \/ SkipNotPersisted(n)
      PROVE  ScanOK'
  BY <1>4 DEF QueueNode, SkipNode, JoinRefused, SkipNotPersisted, FailRun, End, ScanOK
<1>5. ASSUME NEW n \in Nodes, PassOver(n)
      PROVE  ScanOK'
  <2>1. /\ phase = "scan" /\ pos = n /\ (node[n] = "pending" => ~Runnable(n) /\ ~RoutedAround(n)) /\ pos' = pos + 1
        /\ UNCHANGED <<pipe, phase, progress, node, unresolvedInputs, activeInputs>>
    BY <1>5 DEF PassOver
  <2>2. \A m \in Nodes : (Runnable(m)' <=> Runnable(m)) /\ (RoutedAround(m)' <=> RoutedAround(m))
    BY <2>1 DEF Runnable, RoutedAround, Incoming
  <2>3. \A m \in Nodes : m < pos' => m < pos \/ m = n
    BY <2>1 DEF Nodes
  <2> QED
    BY <2>1, <2>2, <2>3 DEF ScanOK
<1>6. ASSUME UNCHANGED <<pipe, scan, graph>>, phase' = phase \/ phase' # "scan"
      PROVE  ScanOK'
  BY <1>6 DEF ScanOK, Runnable, RoutedAround, Incoming
<1>7. ASSUME NEW n \in Nodes, Finish(n)
      PROVE  ScanOK'
  BY <1>6, <1>7 DEF Finish, NodeSucceeds, NodeFails, NodeParks, NodeNotStarted, ClaimRefused, Restore, RestoreFails
<1>8. CASE Cancel \/ UNCHANGED vars
  BY <1>6, <1>8 DEF Cancel, vars
<1>9. ASSUME NEW k, NEW reRun, NewRunner(k, run, reRun)
      PROVE  ScanOK'
  BY <1>9 DEF NewRunner, ScanOK
<1> QED
  BY <1>1, <1>2, <1>3, <1>4, <1>5, <1>7, <1>8, <1>9 DEF Next, Execute, Scan, Wake, Resume, ResumeFromNode
-----------------------------------------------------------------------------
(* What a lineage keeps                                                    *)

(* The part of the invariant that is about a lineage.                      *)
MemoryOK == RecordOK /\ ReuseOK /\ SkipOK /\ KeptOK /\ WorkIsNotRepeated

(* Which run counts for a node changes with its rows alone.                *)
LEMMA HolderStays ==
    ASSUME TypeOK, NEW n \in Nodes, run' = run, \A k \in Runs : rows'[k][n] = rows[k][n]
    PROVE  Holders(n, run)' = Holders(n, run) /\ Holder(n, run)' = Holder(n, run)
<1>1. \A j \in 1..run : j \in Runs
  BY SchedulerAssumption DEF TypeOK, Runs
<1>2. Holders(n, run)' = Holders(n, run)
  BY <1>1 DEF Holders
<1> QED
  BY <1>2 DEF Holder

(* A step that records nothing, and settles only nodes that are through.   *)
LEMMA QuietStep ==
    ASSUME TypeOK, MemoryOK,
           UNCHANGED <<pipe, rows, saved, run, settled, skipNodes, conditionResults, done, again, owed, decision>>,
           \A m \in Nodes : Finished(m) => Finished(m)',
           \A m \in Nodes : Finished(m)' /\ firstErr' = "none" => Finished(m) /\ firstErr = "none",
           \A m \in Nodes : node'[m] = "executed" => node[m] = "executed" \/ (Finished(m) /\ firstErr = "none"),
           \A m \in Nodes : node'[m] = "skipped" <=> node[m] = "skipped",
           \A m \in SkippedHere : node'[m] \in {"pending", "skipped"}
    PROVE  MemoryOK'
<1> USE DEF Here, IsGood
<1>1. RecordOK'
  BY DEF MemoryOK, RecordOK
<1>2. ReuseOK'
  BY DEF MemoryOK, ReuseOK, TypeOK
<1>3. SkipOK'
  BY DEF MemoryOK, SkipOK, SkippedHere, Incoming
<1>4. PICK K \in SUBSET Nodes : Kept(K)
  BY DEF MemoryOK, KeptOK
<1>5. \A n \in K : Holders(n, run)' = Holders(n, run) /\ Holder(n, run)' = Holder(n, run)
  BY HolderStays
<1>6. Kept(K)'
  BY <1>4, <1>5, SMTT(30) DEF Kept, Supported, Incoming, TypeOK
<1>7. WorkIsNotRepeated'
  BY DEF MemoryOK, WorkIsNotRepeated
<1> QED
  BY <1>1, <1>2, <1>3, <1>6, <1>7 DEF MemoryOK, KeptOK

(* An edge of a node, and what a valid pipeline says of it.                *)
LEMMA ValidEdge ==
    ASSUME TypeOK, NEW n \in Nodes, NEW e \in Incoming(pipe, n)
    PROVE  /\ e \in pipe.edges /\ e.from \in Nodes /\ e.to = n
           /\ e.branch = "any" \/ pipe.kind[e.from] = "condition"
  BY FiniteEdges DEF TypeOK, Edge, Incoming, Valid

(* A node that runs: the run has not routed around it, and what it did     *)
(* before is kept.                                                         *)
LEMMA RunningNode ==
    ASSUME TypeOK, PhaseOK, MemoryOK, NEW n \in running, NEW K \in SUBSET Nodes, Kept(K)
    PROVE  /\ n \in Nodes /\ node[n] = "queued" /\ ~Finished(n) /\ n \notin SkippedHere
           /\ IsGood(n) => n \in K
           /\ n \in done \ owed => n \in K
<1>1. n \in Nodes /\ node[n] = "queued" /\ ~Finished(n)
  BY DEF TypeOK, PhaseOK, Finished
<1>2. n \notin SkippedHere
  BY <1>1 DEF MemoryOK, SkipOK
<1> QED
  BY <1>1, <1>2 DEF Kept, TypeOK

\* The node n is through with its attempt.
Through(n) == running' = running \ {n} /\ UNCHANGED <<node, todo>>

(* The node, and no other, is through.                                     *)
LEMMA ThroughMeans ==
    ASSUME TypeOK, PhaseOK, NEW n \in running, Through(n)
    PROVE  \A m \in Nodes : Finished(m)' <=> Finished(m) \/ m = n
<1>1. node[n] = "queued" /\ n \notin Waiting
  BY DEF PhaseOK
<1>2. Waiting' = Waiting
  BY DEF Through, Waiting
<1> QED
  BY <1>1, <1>2 DEF Through, Finished

(* A node that fails, parks or is refused: the wave has met an error, so   *)
(* nothing is concluded from it, and a node that is kept gets no bad row   *)
(* unless it is a wait.                                                    *)
LEMMA BadRecord ==
    ASSUME TypeOK, PhaseOK, MemoryOK, NEW n \in running, NEW s \in {"failed", "waiting", "running"},
           Record(n, s), Through(n), firstErr' # "none",
           UNCHANGED <<pipe, saved, run, skipNodes, conditionResults, done, again, owed, decision>>,
           settled \subseteq settled', s \in {"failed", "running"} => n \in settled',
           IF s = "waiting" THEN pipe.kind[n] = "wait" ELSE n \notin skipNodes
    PROVE  MemoryOK'
<1> USE DEF Here, IsGood
<1>0. PICK K \in SUBSET Nodes : Kept(K)
  BY DEF MemoryOK, KeptOK
<1>1. /\ n \in Nodes /\ node[n] = "queued" /\ ~Finished(n) /\ n \notin SkippedHere
      /\ IsGood(n) => n \in K
  BY <1>0, RunningNode
<1>2. /\ \A k \in Runs, m \in Nodes : k # run \/ m # n => rows'[k][m] = rows[k][m]
      /\ rows'[run][n] = rows[run][n] \cup {s} /\ run \in Runs
  BY <1>1, RecordMeans DEF Record, RowStatus, TypeOK
<1>3. \A m \in Nodes : Finished(m)' <=> Finished(m) \/ m = n
  BY ThroughMeans
<1>4. UNCHANGED node
  BY DEF Through
<1>5. \A k \in Runs, m \in Nodes : rows'[k][m] \cap Good = rows[k][m] \cap Good
  BY <1>2 DEF Good
<1>6. pipe.kind[n] # "wait" => n \notin K /\ ~IsGood(n)
  BY <1>0, <1>1 DEF Kept
<1>7. RecordOK'
  <2>1. ASSUME NEW k \in Runs, NEW m \in Nodes
        PROVE  /\ k > run => rows'[k][m] = {}
               /\ rows'[k][m] \cap Good # {} => m \in done /\ (pipe.kind[m] = "condition" => saved[k][m] # "none")
    BY <1>2, <1>5, SchedulerAssumption DEF MemoryOK, RecordOK, Runs
  <2>2. ASSUME NEW m \in Nodes
        PROVE  /\ rows'[run][m] \cap {"success", "failed", "running"} # {} => m \in settled'
               /\ "waiting" \in rows'[run][m] => pipe.kind[m] = "wait"
               /\ pipe.kind[m] # "wait" /\ rows'[run][m] \cap Good # {} => rows'[run][m] \subseteq Good
    BY <1>2, <1>5, <1>6 DEF MemoryOK, RecordOK
  <2>3. ASSUME NEW m \in Nodes
        PROVE  /\ node[m] = "skipped" => "skipped" \in rows'[run][m]
               /\ node[m] = "executed" => rows'[run][m] \cap Good # {} /\ decision[m] = saved[run][m]
    BY <1>2, <1>5 DEF MemoryOK, RecordOK
  <2> QED
    BY <1>4, <2>1, <2>2, <2>3 DEF RecordOK
<1>8. ReuseOK'
  BY <1>1, <1>2, <1>4 DEF MemoryOK, ReuseOK, TypeOK
<1>9. SkipOK'
  <2>1. SkippedHere' = SkippedHere
    BY <1>2 DEF SkippedHere
  <2>2. \A m \in Nodes : IsGood(m)' <=> IsGood(m)
    BY <1>2, <1>5
  <2>3. \A m \in Nodes : \A e \in Incoming(pipe, m) : e.from \in Nodes
    BY ValidEdge
  <2>4. SkippedHere \subseteq Nodes
    BY DEF SkippedHere
  <2> HIDE DEF SkippedHere, IsGood
  <2> QED
    BY <1>4, <2>1, <2>2, <2>3, <2>4 DEF MemoryOK, SkipOK, Incoming
<1>10. Kept(K)'
  <2>1. \A m \in Nodes : IsGood(m)' <=> IsGood(m)
    BY <1>2, <1>5
  <2>2. \A m \in K \ {n} : Holders(m, run)' = Holders(m, run) /\ Holder(m, run)' = Holder(m, run)
    BY <1>2, HolderStays
  <2>3. \A m \in K \ {n} : Holder(m, run) \in Runs
    BY <1>0, <1>2, HolderExists DEF Kept
  <2>4. Holders(n, run)' # {}
    <3>1. run \in 1..run
      BY <1>2, SchedulerAssumption DEF Runs
    <3> QED
      BY <1>2, <3>1 DEF Holders
  <2>5. \A m \in Nodes : Supported(m, K)' <=> Supported(m, K)
    BY DEF Supported, Incoming
  <2> HIDE DEF IsGood
  <2>6. \A m \in done' \ owed' : m \in K \/ (Finished(m)' /\ IsGood(m)')
    BY <1>0, <1>3, <2>1 DEF Kept, TypeOK
  <2>7. \A m \in Nodes : IsGood(m)' => m \in K \/ Finished(m)'
    BY <1>0, <1>3, <2>1 DEF Kept
  <2>8. ASSUME NEW m \in K
        PROVE  /\ Holders(m, run)' # {} /\ node'[m] # "skipped" /\ Supported(m, K)'
               /\ pipe.kind[m] # "wait" => m \in skipNodes' /\ rows'[Holder(m, run)'][m] \subseteq Good
                                           /\ conditionResults'[m] = saved'[Holder(m, run)'][m]
    BY <1>0, <1>2, <1>4, <1>6, <2>2, <2>3, <2>4, <2>5 DEF Kept
  <2> QED
    BY <2>6, <2>7, <2>8 DEF Kept
<1>11. WorkIsNotRepeated'
  BY DEF MemoryOK, WorkIsNotRepeated
<1> QED
  BY <1>7, <1>8, <1>9, <1>10, <1>11 DEF MemoryOK, KeptOK

(* A node that succeeds or is reused: a kept node decides what it decided  *)
(* before.                                                                 *)
LEMMA GoodRecord ==
    ASSUME TypeOK, PhaseOK, MemoryOK, NEW n \in running, NEW s \in Good, NEW d \in Decision,
           Record(n, s), Decide(n, d), Through(n), firstErr' = firstErr,
           UNCHANGED <<pipe, run, skipNodes, conditionResults>>,
           settled \subseteq settled', s = "success" => n \in settled',
           done' = done \cup {n}, \A m \in done' \ owed' : m = n \/ m \in done \ owed,
           pipe.kind[n] = "condition" => d # "none",
           pipe.kind[n] # "wait" => Here(n) \subseteq Good,
           n \in skipNodes => d = conditionResults[n],
           WorkIsNotRepeated'
    PROVE  MemoryOK'
<1> USE DEF Here, IsGood
<1>0. PICK K \in SUBSET Nodes : Kept(K)
  BY DEF MemoryOK, KeptOK
<1>1. /\ n \in Nodes /\ node[n] = "queued" /\ ~Finished(n) /\ n \notin SkippedHere
      /\ IsGood(n) => n \in K
  BY <1>0, RunningNode
<1>2. /\ \A k \in Runs, m \in Nodes : k # run \/ m # n => rows'[k][m] = rows[k][m] /\ saved'[k][m] = saved[k][m]
      /\ rows'[run][n] = rows[run][n] \cup {s} /\ run \in Runs
      /\ saved'[run][n] = d /\ decision'[n] = d /\ \A m \in Nodes \ {n} : decision'[m] = decision[m]
  BY <1>1, RecordMeans, DecideMeans DEF Record, RowStatus, Good, TypeOK
<1>3. \A m \in Nodes : Finished(m)' <=> Finished(m) \/ m = n
  BY ThroughMeans
<1>4. UNCHANGED node
  BY DEF Through
<1>5. /\ \A m \in Nodes : IsGood(m) => IsGood(m)'
      /\ \A m \in Nodes \ {n} : IsGood(m)' <=> IsGood(m)
      /\ IsGood(n)'
  BY <1>1, <1>2
<1>6. n \in K /\ pipe.kind[n] # "wait" => d = conditionResults[n]
  BY <1>0 DEF Kept
<1>7. RecordOK'
  <2>1. ASSUME NEW k \in Runs, NEW m \in Nodes
        PROVE  /\ k > run => rows'[k][m] = {}
               /\ rows'[k][m] \cap Good # {} => m \in done' /\ (pipe.kind[m] = "condition" => saved'[k][m] # "none")
    <3>1. CASE k = run /\ m = n
      BY <1>1, <1>2, <3>1, SchedulerAssumption DEF Runs
    <3>2. CASE k # run \/ m # n
      BY <1>2, <3>2 DEF MemoryOK, RecordOK
    <3> QED
      BY <3>1, <3>2
  <2>2. ASSUME NEW m \in Nodes
        PROVE  /\ rows'[run][m] \cap {"success", "failed", "running"} # {} => m \in settled'
               /\ "waiting" \in rows'[run][m] => pipe.kind[m] = "wait"
               /\ pipe.kind[m] # "wait" /\ rows'[run][m] \cap Good # {} => rows'[run][m] \subseteq Good
    BY <1>2 DEF MemoryOK, RecordOK, Good
  <2>3. ASSUME NEW m \in Nodes
        PROVE  /\ node[m] = "skipped" => "skipped" \in rows'[run][m]
               /\ node[m] = "executed" => rows'[run][m] \cap Good # {} /\ decision'[m] = saved'[run][m]
               /\ Finished(m)' /\ firstErr = "none" => rows'[run][m] \cap Good # {} /\ decision'[m] = saved'[run][m]
    BY <1>1, <1>2, <1>3, <1>5 DEF MemoryOK, RecordOK
  <2> QED
    BY <1>4, <2>1, <2>2, <2>3 DEF RecordOK
<1>8. ReuseOK'
  BY <1>1, <1>2, <1>4 DEF MemoryOK, ReuseOK, TypeOK
<1>9. SkipOK'
  <2>1. SkippedHere' = SkippedHere /\ SkippedHere \subseteq Nodes
    BY <1>2 DEF SkippedHere, Good
  <2>2. ASSUME NEW m \in SkippedHere, NEW e \in Incoming(pipe, m), IsGood(e.from),
               e.branch \notin {"any", saved[run][e.from]}
        PROVE  IsGood(e.from)' /\ e.branch \notin {"any", saved'[run][e.from]}
    <3>1. e.from \in Nodes /\ pipe.kind[e.from] = "condition"
      BY <2>1, <2>2, ValidEdge
    <3>2. CASE e.from # n
      BY <1>2, <1>5, <2>2, <3>1, <3>2
    <3>3. CASE e.from = n
      <4>1. n \in K /\ d = conditionResults[n] /\ conditionResults[n] = saved[Holder(n, run)][n]
        BY <1>0, <1>1, <1>6, <2>2, <3>1, <3>3 DEF Kept
      <4>2. Holder(n, run) = run
        <5>1. Holders(n, run) # {} /\ rows[run][n] # {}
          BY <1>0, <2>2, <3>3, <4>1 DEF Kept
        <5> QED
          BY <1>1, <1>2, <5>1, HolderExists
      <4> QED
        BY <1>2, <1>5, <2>2, <3>3, <4>1, <4>2
    <3> QED
      BY <3>2, <3>3
  <2> HIDE DEF SkippedHere, IsGood
  <2> QED
    BY <1>4, <2>1, <2>2 DEF MemoryOK, SkipOK, Incoming
<1>10. Kept(K)'
  <2>1. run \in 1..run /\ run \in Nat
    BY <1>2, SchedulerAssumption DEF Runs
  <2>2. \A m \in K \ {n} : Holders(m, run)' = Holders(m, run) /\ Holder(m, run)' = Holder(m, run)
    BY <1>2, HolderStays
  <2>3. \A m \in K \ {n} : Holder(m, run) \in Runs
    BY <1>0, <1>2, HolderExists DEF Kept
  <2>4. Holders(n, run)' # {} /\ Holder(n, run)' = run
    <3>1. run \in Holders(n, run)' /\ \A j \in Holders(n, run)' : j \in 1..run
      BY <1>2, <2>1 DEF Holders
    <3>2. \A j \in Holders(n, run)' : j <= run
      BY <2>1, <3>1
    <3>3. \A j \in Holders(n, run)' : (\A i \in Holders(n, run)' : i <= j) => j = run
      <4>1. \A j \in 1..run : run <= j => j = run
        BY <2>1
      <4> QED
        BY <3>1, <4>1
    <3> QED
      BY <3>1, <3>2, <3>3 DEF Holder
  <2>5. \A m \in Nodes : Supported(m, K)' <=> Supported(m, K)
    BY DEF Supported, Incoming
  <2>6. \A m \in done' \ owed' : m \in K \/ (Finished(m)' /\ IsGood(m)')
    BY <1>0, <1>1, <1>3, <1>5 DEF Kept, TypeOK
  <2>7. \A m \in Nodes : IsGood(m)' => m \in K \/ Finished(m)'
    BY <1>0, <1>3, <1>5 DEF Kept
  <2>8. ASSUME NEW m \in K
        PROVE  /\ Holders(m, run)' # {} /\ node'[m] # "skipped" /\ Supported(m, K)'
               /\ pipe.kind[m] # "wait" => m \in skipNodes' /\ rows'[Holder(m, run)'][m] \subseteq Good
                                           /\ conditionResults'[m] = saved'[Holder(m, run)'][m]
    <3>1. CASE m = n
      BY <1>0, <1>2, <1>4, <1>6, <2>4, <2>5, <3>1 DEF Kept
    <3>2. CASE m # n
      <4>1. rows'[Holder(m, run)][m] = rows[Holder(m, run)][m] /\ saved'[Holder(m, run)][m] = saved[Holder(m, run)][m]
        BY <1>2, <2>3, <3>2
      <4> QED
        BY <1>0, <1>4, <2>2, <2>5, <3>2, <4>1 DEF Kept
    <3> QED
      BY <3>1, <3>2
  <2> QED
    BY <2>6, <2>7, <2>8 DEF Kept
<1> QED
  BY <1>7, <1>8, <1>9, <1>10 DEF MemoryOK, KeptOK

(* What is kept is never routed around: something kept leads to it, with   *)
(* the decision it had.                                                    *)
LEMMA KeptIsNotSkipped ==
    ASSUME TypeOK, GraphOK, RouteOK, MemoryOK, NEW K \in SUBSET Nodes, Kept(K),
           NEW n \in Nodes, node[n] = "pending", RoutedAround(n)
    PROVE  n \notin K /\ ~IsGood(n)
<1>1. /\ \A e \in Incoming(pipe, n) : node[e.from] \in Terminal /\ ~Taken(e)
      /\ Incoming(pipe, n) # {}
  BY RunnableMeans DEF Runnable, RoutedAround
<1>2. SUFFICES ASSUME n \in K
               PROVE  FALSE
  BY DEF Kept, Finished
<1>3. PICK e \in Incoming(pipe, n) : e.from \in K /\ e.branch \in {"any", conditionResults[e.from]}
  BY <1>1, <1>2 DEF Kept, Supported
<1>4. e.from \in Nodes /\ node[e.from] = "executed" /\ (e.branch = "any" \/ pipe.kind[e.from] = "condition")
  BY <1>1, <1>3, ValidEdge DEF Kept, Terminal
<1>5. IsGood(e.from) /\ decision[e.from] = saved[run][e.from]
  BY <1>4 DEF MemoryOK, RecordOK
<1>6. run \in Runs /\ rows[run][e.from] # {} /\ Holders(e.from, run) # {}
  BY <1>3, <1>5 DEF TypeOK, IsGood, Here, Kept
<1>7. Holder(e.from, run) = run
  BY <1>4, <1>6, HolderExists
<1>8. pipe.kind[e.from] = "condition" => conditionResults[e.from] = decision[e.from]
  BY <1>3, <1>5, <1>7 DEF Kept
<1> QED
  BY <1>1, <1>3, <1>4, <1>8 DEF Taken

(* A node is skipped, and no kept one.                                     *)
LEMMA SkipRecord ==
    ASSUME TypeOK, PhaseOK, GraphOK, RouteOK, MemoryOK, NEW n \in Nodes, SkipNode(n)
    PROVE  MemoryOK'
<1> USE DEF Here, IsGood
<1>0. PICK K \in SUBSET Nodes : Kept(K)
  BY DEF MemoryOK, KeptOK
<1>1. /\ node[n] = "pending" /\ RoutedAround(n) /\ node' = [node EXCEPT ![n] = "skipped"]
      /\ node \in [Nodes -> {"pending", "queued"} \cup Terminal]
      /\ UNCHANGED <<pipe, todo, running, firstErr, decision, run, saved, settled, skipNodes, conditionResults>>
      /\ UNCHANGED <<done, again, owed>>
  BY DEF SkipNode, Visit, TypeOK, wave, reuse, history
<1>2. /\ \A k \in Runs, m \in Nodes : k # run \/ m # n => rows'[k][m] = rows[k][m]
      /\ rows'[run][n] = rows[run][n] \cup {"skipped"} /\ run \in Runs
  BY RecordMeans DEF SkipNode, RowStatus, TypeOK
<1>3. n \notin K /\ ~IsGood(n)
  BY <1>0, <1>1, KeptIsNotSkipped
<1>4. \A m \in Nodes : Finished(m)' <=> Finished(m)
  BY <1>1 DEF Finished, Waiting
<1>5. \A k \in Runs, m \in Nodes : rows'[k][m] \cap Good = rows[k][m] \cap Good
  BY <1>2 DEF Good
<1>6. \A m \in Nodes : IsGood(m)' <=> IsGood(m)
  BY <1>1, <1>2, <1>5
<1>7. RecordOK'
  <2>1. ASSUME NEW k \in Runs, NEW m \in Nodes
        PROVE  /\ k > run => rows'[k][m] = {}
               /\ rows'[k][m] \cap Good # {} => m \in done /\ (pipe.kind[m] = "condition" => saved[k][m] # "none")
    BY <1>2, <1>5, SchedulerAssumption DEF MemoryOK, RecordOK, Runs
  <2>2. ASSUME NEW m \in Nodes
        PROVE  /\ rows'[run][m] \cap {"success", "failed", "running"} # {} => m \in settled
               /\ "waiting" \in rows'[run][m] => pipe.kind[m] = "wait"
               /\ pipe.kind[m] # "wait" /\ rows'[run][m] \cap Good # {} => rows'[run][m] \subseteq Good
    BY <1>2, <1>3, <1>5 DEF MemoryOK, RecordOK
  <2>3. ASSUME NEW m \in Nodes
        PROVE  /\ node'[m] = "skipped" => "skipped" \in rows'[run][m]
               /\ node'[m] = "executed" => rows'[run][m] \cap Good # {} /\ decision[m] = saved[run][m]
               /\ Finished(m) /\ firstErr = "none" => rows'[run][m] \cap Good # {} /\ decision[m] = saved[run][m]
    BY <1>1, <1>2, <1>5 DEF MemoryOK, RecordOK
  <2> QED
    BY <1>1, <1>4, <2>1, <2>2, <2>3 DEF RecordOK
<1>8. ReuseOK'
  BY <1>1, <1>2 DEF MemoryOK, ReuseOK, TypeOK
<1>9. SkipOK'
  <2>1. SkippedHere' = SkippedHere \cup {n} /\ SkippedHere \subseteq Nodes
    BY <1>1, <1>2 DEF SkippedHere
  <2>2. /\ Incoming(pipe, n) # {}
        /\ \A e \in Incoming(pipe, n) :
              e.from \in SkippedHere \/ (IsGood(e.from) /\ e.branch \notin {"any", saved[run][e.from]})
    <3>1. /\ \A e \in Incoming(pipe, n) : node[e.from] \in Terminal /\ ~Taken(e)
          /\ Incoming(pipe, n) # {}
      BY <1>1, RunnableMeans DEF Runnable, RoutedAround
    <3>2. ASSUME NEW e \in Incoming(pipe, n)
          PROVE  e.from \in SkippedHere \/ (IsGood(e.from) /\ e.branch \notin {"any", saved[run][e.from]})
      <4>1. e.from \in Nodes
        BY ValidEdge
      <4> QED
        BY <3>1, <4>1 DEF MemoryOK, RecordOK, Taken, Terminal, SkippedHere
    <3> QED
      BY <3>1, <3>2
  <2>3. \A m \in Nodes : \A e \in Incoming(pipe, m) : e.from \in Nodes
    BY ValidEdge
  <2> HIDE DEF SkippedHere, IsGood
  <2> QED
    BY <1>1, <1>6, <2>1, <2>2, <2>3 DEF MemoryOK, SkipOK, Incoming
<1>10. Kept(K)'
  <2>1. \A m \in K : m # n /\ m \in Nodes
    BY <1>3
  <2>2. \A m \in K : Holders(m, run)' = Holders(m, run) /\ Holder(m, run)' = Holder(m, run)
    BY <1>1, <1>2, <2>1, HolderStays
  <2>3. \A m \in K : Holder(m, run) \in Runs
    BY <1>0, <1>2, HolderExists DEF Kept
  <2>4. \A m \in Nodes : Supported(m, K)' <=> Supported(m, K)
    BY <1>1 DEF Supported, Incoming
  <2>5. ASSUME NEW m \in K
        PROVE  /\ Holders(m, run)' # {} /\ node'[m] # "skipped" /\ Supported(m, K)'
               /\ pipe.kind[m] # "wait" => m \in skipNodes' /\ rows'[Holder(m, run)'][m] \subseteq Good
                                           /\ conditionResults'[m] = saved'[Holder(m, run)'][m]
    BY <1>0, <1>1, <1>2, <2>1, <2>2, <2>3, <2>4 DEF Kept
  <2> HIDE DEF IsGood
  <2> QED
    BY <1>0, <1>1, <1>4, <1>6, <2>5 DEF Kept, TypeOK
<1>11. WorkIsNotRepeated'
  BY <1>1 DEF MemoryOK, WorkIsNotRepeated
<1> QED
  BY <1>7, <1>8, <1>9, <1>10, <1>11 DEF MemoryOK, KeptOK

(* A wake or a resume: what was kept and what this execution has finished  *)
(* is kept by the next one, but for what is to run again.                  *)
LEMMA AgainStep ==
    ASSUME TypeOK, PhaseOK, GraphOK, RouteOK, MemoryOK,
           NEW k \in Runs, NEW reRun \in SUBSET Nodes, Again(k, reRun)
    PROVE  MemoryOK'
<1> USE DEF Here, IsGood
<1>0. PICK K \in SUBSET Nodes : Kept(K)
  BY DEF MemoryOK, KeptOK
<1>1. /\ run' = k /\ UNCHANGED <<pipe, rows, saved, done, again>> /\ owed' = owed \cup reRun
      /\ run \in Runs /\ run \in Nat /\ NewRunner(k, run, reRun)
      /\ \/ k = run /\ reRun = {} /\ settled' = settled
         \/ k = run + 1
      /\ \A e \in pipe.edges : e.from \in reRun => e.to \in reRun
  BY SchedulerAssumption DEF Again, NewRunner, TypeOK, Runs
<1>2. \A n \in Nodes : node'[n] = "pending" /\ ~Finished(n)'
  BY <1>1 DEF NewRunner, Pending, Finished
<1>3. /\ \A n \in skipNodes' :
            /\ n \in Nodes /\ Holders(n, run) # {} /\ n \notin reRun
            /\ rows[Holder(n, run)][n] \cap Good # {}
            /\ conditionResults'[n] = saved[Holder(n, run)][n]
      /\ \A n \in Nodes \ reRun : Holders(n, run) # {} /\ rows[Holder(n, run)][n] \subseteq Good => n \in skipNodes'
  BY <1>1, NewRunnerMeans
<1>4. \A n \in Nodes : k = run + 1 => rows[k][n] = {}
  BY <1>1 DEF MemoryOK, RecordOK
<1>5. ASSUME NEW n \in Nodes
      PROVE  Holders(n, run)' = Holders(n, run) /\ Holder(n, run)' = Holder(n, run)
  <2>1. {j \in 1..k : rows[j][n] # {}} = {j \in 1..run : rows[j][n] # {}}
    <3>1. CASE k = run
      BY <3>1
    <3>2. CASE k = run + 1
      <4>1. \A j \in 1..k : j \in 1..run \/ j = k
        BY <1>1, <3>2
      <4>2. \A j \in 1..run : j \in 1..k
        BY <1>1, <3>2
      <4> QED
        BY <1>4, <3>2, <4>1, <4>2
    <3> QED
      BY <1>1, <3>1, <3>2
  <2>2. Holders(n, run)' = Holders(n, run)
    BY <1>1, <2>1 DEF Holders
  <2> QED
    BY <2>2 DEF Holder
<1>6. \A n \in Nodes : rows[run][n] # {} => Holders(n, run) # {} /\ Holder(n, run) = run
  <2>1. \A n \in Nodes : rows[run][n] # {} => run \in Holders(n, run)
    BY <1>1, SchedulerAssumption DEF Holders, Runs
  <2> QED
    BY <1>1, <2>1, HolderExists
<1>7. RecordOK'
  <2>1. ASSUME NEW j \in Runs, NEW n \in Nodes
        PROVE  /\ j > k => rows[j][n] = {}
               /\ rows[j][n] \cap Good # {} => n \in done /\ (pipe.kind[n] = "condition" => saved[j][n] # "none")
    <3>1. j > k => j > run
      BY <1>1 DEF Runs
    <3> QED
      BY <3>1 DEF MemoryOK, RecordOK
  <2>2. ASSUME NEW n \in Nodes
        PROVE  /\ rows[k][n] \cap {"success", "failed", "running"} # {} => n \in settled'
               /\ "waiting" \in rows[k][n] => pipe.kind[n] = "wait"
               /\ pipe.kind[n] # "wait" /\ rows[k][n] \cap Good # {} => rows[k][n] \subseteq Good
    BY <1>1, <1>4 DEF MemoryOK, RecordOK
  <2> QED
    BY <1>1, <1>2, <2>1, <2>2 DEF RecordOK
<1>8. ReuseOK'
  <2>1. ASSUME NEW n \in skipNodes'
        PROVE  /\ n \in done /\ (pipe.kind[n] = "condition" => conditionResults'[n] # "none")
               /\ pipe.kind[n] # "wait" => rows[k][n] \subseteq Good
    <3>1. n \in Nodes /\ Holder(n, run) \in Runs
      BY <1>1, <1>3, HolderExists
    <3>2. n \in done /\ (pipe.kind[n] = "condition" => conditionResults'[n] # "none")
      BY <1>3, <3>1 DEF MemoryOK, RecordOK
    <3>3. pipe.kind[n] # "wait" => rows[k][n] \subseteq Good
      BY <1>1, <1>3, <1>4, <1>6, <3>1 DEF MemoryOK, RecordOK
    <3> QED
      BY <3>2, <3>3
  <2> QED
    BY <1>1, <2>1 DEF ReuseOK
<1>9. SkipOK'
  <2>1. CASE k = run
    <3>1. SkippedHere' = SkippedHere /\ SkippedHere \subseteq Nodes
      BY <1>1, <2>1 DEF SkippedHere
    <3> HIDE DEF SkippedHere
    <3> QED
      BY <1>1, <1>2, <2>1, <3>1 DEF MemoryOK, SkipOK, Incoming
  <2>2. CASE k = run + 1
    <3>1. SkippedHere' = {}
      BY <1>1, <1>4, <2>2 DEF SkippedHere
    <3> QED
      BY <3>1 DEF SkipOK
  <2> QED
    BY <1>1, <2>1, <2>2
<1> DEFINE E == {n \in Nodes : Finished(n) /\ IsGood(n)}
<1>10. PICK L \in SUBSET Nodes : L = (K \cup E) \ reRun
  OBVIOUS
<1>11. Kept(L)'
  <2>1. ASSUME NEW n \in K \cup E
        PROVE  /\ n \in Nodes /\ Holders(n, run) # {}
               /\ pipe.kind[n] # "wait" => rows[Holder(n, run)][n] \subseteq Good
    BY <1>0, <1>6 DEF Kept, MemoryOK, RecordOK
  <2>2. ASSUME NEW n \in L, pipe.kind[n] # "wait"
        PROVE  n \in skipNodes' /\ conditionResults'[n] = saved[Holder(n, run)][n]
    BY <1>3, <1>10, <2>1, <2>2
  <2>3. ASSUME NEW n \in L, Incoming(pipe, n) # {}
        PROVE  \E e \in Incoming(pipe, n) : e.from \in L /\ e.branch \in {"any", conditionResults'[e.from]}
    <3>0. n \in Nodes /\ n \in K \cup E /\ n \notin reRun
      BY <1>10
    <3>1. \A e \in Incoming(pipe, n) : e.from \notin reRun
      BY <1>1, <3>0, ValidEdge
    <3>2. CASE n \in K
      <4>1. PICK e \in Incoming(pipe, n) : e.from \in K /\ e.branch \in {"any", conditionResults[e.from]}
        BY <1>0, <2>3, <3>2 DEF Kept, Supported
      <4>2. e.from \in L
        BY <1>10, <3>1, <4>1
      <4>3. e.branch # "any" => pipe.kind[e.from] = "condition"
        BY <3>0, <4>1, ValidEdge
      <4>4. e.branch # "any" => conditionResults'[e.from] = conditionResults[e.from]
        BY <1>0, <2>2, <4>1, <4>2, <4>3 DEF Kept
      <4> QED
        BY <4>1, <4>2, <4>4
    <3>3. CASE n \in E
      <4>1. node[n] \in {"queued", "executed"}
        BY <3>3 DEF Finished
      <4>2. PICK e \in Incoming(pipe, n) : Taken(e)
        BY <2>3, <3>0, <4>1 DEF RouteOK
      <4>3. /\ e.from \in Nodes /\ node[e.from] = "executed" /\ e.branch \in {"any", decision[e.from]}
            /\ e.branch # "any" => pipe.kind[e.from] = "condition"
        BY <3>0, <4>2, ValidEdge DEF Taken
      <4>4. e.from \in E /\ decision[e.from] = saved[run][e.from]
        BY <4>3 DEF MemoryOK, RecordOK, Finished
      <4>5. e.from \in L
        BY <1>10, <3>1, <4>2, <4>4
      <4>6. Holder(e.from, run) = run
        BY <1>6, <4>3, <4>4
      <4>7. e.branch # "any" => conditionResults'[e.from] = decision[e.from]
        BY <2>2, <4>3, <4>4, <4>5, <4>6
      <4> QED
        BY <4>2, <4>3, <4>5, <4>7
    <3> QED
      BY <3>0, <3>2, <3>3
  <2>4. \A n \in done' \ owed' : n \in L
    BY <1>0, <1>1, <1>10 DEF Kept, TypeOK
  <2>5. \A n \in Nodes : rows[k][n] \cap Good # {} => n \in L
    BY <1>0, <1>1, <1>4, <1>10 DEF Kept
  <2>6. ASSUME NEW n \in L
        PROVE  /\ Holders(n, run)' # {} /\ node'[n] # "skipped" /\ Supported(n, L)'
               /\ pipe.kind[n] # "wait" => /\ n \in skipNodes' /\ rows[Holder(n, run)'][n] \subseteq Good
                                           /\ conditionResults'[n] = saved[Holder(n, run)'][n]
    <3>1. Supported(n, L)'
      BY <1>1, <2>3 DEF Supported, Incoming
    <3> QED
      BY <1>2, <1>5, <1>10, <2>1, <2>2, <3>1
  <2> QED
    BY <1>1, <2>4, <2>5, <2>6 DEF Kept
<1>12. WorkIsNotRepeated'
  BY <1>1 DEF MemoryOK, WorkIsNotRepeated
<1> QED
  BY <1>7, <1>8, <1>9, <1>11, <1>12 DEF MemoryOK, KeptOK

\* What the rows, the reuse and the history of the lineage are.
memory == <<pipe, rows, saved, run, settled, skipNodes, conditionResults, done, again, owed, decision>>

(* A node is queued, and none that the run has routed around before a      *)
(* park.                                                                   *)
LEMMA QueueRecord ==
    ASSUME TypeOK, PhaseOK, GraphOK, RouteOK, MemoryOK, NEW n \in Nodes, QueueNode(n)
    PROVE  MemoryOK'
<1>1. /\ node[n] = "pending" /\ node' = [node EXCEPT ![n] = "queued"] /\ todo' = Append(todo, n)
      /\ todo \in Seq(Nodes) /\ Runnable(n) /\ UNCHANGED <<running, firstErr>> /\ UNCHANGED memory
      /\ node \in [Nodes -> {"pending", "queued"} \cup Terminal]
  BY DEF QueueNode, Visit, TypeOK, memory, durable, reuse, history
<1>2. Waiting' = Waiting \cup {n}
  BY <1>1 DEF Waiting
<1>3. \A m \in Nodes : Finished(m)' <=> Finished(m)
  BY <1>1, <1>2 DEF Finished
<1>4. n \notin SkippedHere
  <2>1. SUFFICES ASSUME n \in SkippedHere
                 PROVE  FALSE
    OBVIOUS
  <2>2. Incoming(pipe, n) # {}
    BY <2>1 DEF MemoryOK, SkipOK
  <2>3. PICK e \in Incoming(pipe, n) : Taken(e)
    BY <1>1, <2>2, RunnableMeans DEF Runnable
  <2>4. e.from \in Nodes /\ node[e.from] = "executed" /\ e.branch \in {"any", decision[e.from]}
    BY <2>3, ValidEdge DEF Taken
  <2>5. decision[e.from] = saved[run][e.from]
    BY <2>4 DEF MemoryOK, RecordOK
  <2> QED
    BY <2>1, <2>4, <2>5 DEF MemoryOK, SkipOK
<1>5. \A m \in Nodes \ {n} : node'[m] = node[m]
  BY <1>1
<1>6. node'[n] = "queued"
  BY <1>1
<1>7. \A m \in SkippedHere : m \in Nodes /\ m # n /\ node'[m] \in {"pending", "skipped"}
  BY <1>4, <1>5 DEF MemoryOK, SkipOK, SkippedHere
<1>8. \A m \in Nodes : /\ node'[m] = "executed" => node[m] = "executed"
                       /\ node'[m] = "skipped" <=> node[m] = "skipped"
  BY <1>1, <1>5, <1>6
<1> QED
  BY <1>1, <1>3, <1>7, <1>8, QuietStep DEF memory

(* A wave is released.                                                     *)
LEMMA ReleaseRecord ==
    ASSUME TypeOK, PhaseOK, GraphOK, RouteOK, MemoryOK, Release
    PROVE  MemoryOK'
<1>1. /\ node' = [n \in Nodes |-> IF n \in Wave THEN "executed" ELSE node[n]]
      /\ todo = <<>> /\ running = {} /\ firstErr = "none" /\ UNCHANGED <<todo, running, firstErr>> /\ UNCHANGED memory
  BY ReleaseMeans DEF Release, WaveDone, MemoryOK, memory, wave, durable, reuse, history
<1>2. Waiting = {} /\ Waiting' = {}
  BY <1>1 DEF Waiting
<1>3. \A m \in Nodes : Finished(m) <=> node[m] \in {"queued", "executed"}
  BY <1>1, <1>2 DEF Finished
<1>4. \A m \in Nodes : node'[m] = IF node[m] = "queued" THEN "executed" ELSE node[m]
  BY <1>1 DEF Wave
<1>5. \A m \in Nodes : Finished(m)' <=> node'[m] \in {"queued", "executed"}
  BY <1>1, <1>2 DEF Finished
<1>6. \A m \in Nodes : Finished(m)' <=> Finished(m)
  BY <1>3, <1>4, <1>5
<1>7. \A m \in SkippedHere : node'[m] \in {"pending", "skipped"}
  BY <1>4 DEF MemoryOK, SkipOK, SkippedHere
<1> QED
  BY <1>1, <1>3, <1>4, <1>6, <1>7, QuietStep DEF memory

(* A step that leaves the nodes and what the lineage knows alone.          *)
LEMMA StillRecord ==
    ASSUME TypeOK, PhaseOK, MemoryOK, UNCHANGED node, UNCHANGED memory,
           \A m \in Nodes : Finished(m) => Finished(m)',
           \A m \in Nodes : Finished(m)' /\ firstErr' = "none" => Finished(m) /\ firstErr = "none"
    PROVE  MemoryOK'
<1>1. \A m \in SkippedHere : node'[m] \in {"pending", "skipped"}
  BY DEF MemoryOK, SkipOK
<1> QED
  BY <1>1, QuietStep DEF memory

(* A goroutine of a wave comes to its end, in any way.                     *)
LEMMA FinishRecord ==
    ASSUME TypeOK, PhaseOK, GraphOK, RouteOK, MemoryOK, NEW n \in Nodes, Finish(n)
    PROVE  MemoryOK'
<1> USE DEF durable, reuse, history, graph, scan
<1>1. n \in running /\ Through(n) /\ UNCHANGED <<pipe, run, skipNodes, conditionResults>>
  BY DEF Finish, NodeSucceeds, NodeFails, NodeParks, NodeNotStarted, ClaimRefused, Restore, RestoreFails, Complete,
     Through
<1>2. ASSUME NEW err \in {"fail", "park"}, Complete(n, err)
      PROVE  firstErr' # "none"
  BY <1>2 DEF Complete
<1>3. CASE NodeFails(n)
  BY <1>1, <1>2, <1>3, BadRecord DEF NodeFails, Executes
<1>4. CASE NodeParks(n)
  BY <1>1, <1>2, <1>4, BadRecord DEF NodeParks
<1>5. CASE ClaimRefused(n)
  BY <1>1, <1>2, <1>5, BadRecord DEF ClaimRefused
<1>6. CASE NodeNotStarted(n) \/ RestoreFails(n)
  <2>1. UNCHANGED node /\ UNCHANGED memory /\ firstErr' # "none"
    BY <1>2, <1>6 DEF NodeNotStarted, RestoreFails, memory
  <2>2. \A m \in Nodes : Finished(m) => Finished(m)'
    BY <1>1, ThroughMeans
  <2> QED
    BY <2>1, <2>2, StillRecord
<1>7. PICK K \in SUBSET Nodes : Kept(K)
  BY DEF MemoryOK, KeptOK
<1>8. n \notin SkippedHere /\ (n \in done \ owed => n \in K)
  BY <1>1, <1>7, RunningNode
<1>9. ASSUME NEW d \in Decision, NodeSucceeds(n, d)
      PROVE  MemoryOK'
  <2>1. /\ Record(n, "success") /\ Decide(n, d) /\ firstErr' = firstErr /\ n \notin skipNodes /\ n \notin settled
        /\ pipe.kind[n] = "condition" => d # "none"
        /\ settled' = settled \cup {n} /\ done' = done \cup {n} /\ owed' = owed \ {n}
        /\ again' = IF n \in done \ owed THEN again \cup {n} ELSE again
    BY <1>9 DEF NodeSucceeds, Executes, Complete, TypeOK
  <2>2. pipe.kind[n] # "wait" => Here(n) \subseteq Good
    <3>1. Here(n) \in SUBSET {"success", "failed", "waiting", "running", "skipped", "reused"}
      BY DEF TypeOK, Here
    <3>2. Here(n) \cap {"success", "failed", "running"} = {}
      BY <2>1 DEF MemoryOK, RecordOK
    <3>3. "skipped" \notin Here(n)
      BY <1>8 DEF SkippedHere
    <3>4. "waiting" \in Here(n) => pipe.kind[n] = "wait"
      BY DEF MemoryOK, RecordOK
    <3> QED
      BY <3>1, <3>2, <3>3, <3>4 DEF Good
  <2>3. WorkIsNotRepeated'
    BY <1>1, <1>7, <1>8, <2>1 DEF MemoryOK, WorkIsNotRepeated, Kept
  <2>4. \A m \in done' \ owed' : m = n \/ m \in done \ owed
    BY <2>1
  <2> QED
    BY <1>1, <2>1, <2>2, <2>3, <2>4, GoodRecord DEF Good
<1>10. CASE Restore(n)
  <2>1. /\ Record(n, "reused") /\ Decide(n, conditionResults[n]) /\ firstErr' = firstErr /\ n \in skipNodes
        /\ UNCHANGED <<settled, done, again, owed>> /\ conditionResults[n] \in Decision
    BY <1>10 DEF Restore, Complete, TypeOK
  <2>2. /\ n \in done /\ (pipe.kind[n] = "condition" => conditionResults[n] # "none")
        /\ pipe.kind[n] # "wait" => Here(n) \subseteq Good
    <3>1. node[n] # "skipped"
      BY <1>1 DEF PhaseOK
    <3> QED
      BY <2>1, <3>1 DEF MemoryOK, ReuseOK
  <2>3. WorkIsNotRepeated'
    BY <1>1, <2>1 DEF MemoryOK, WorkIsNotRepeated
  <2> QED
    BY <1>1, <2>1, <2>2, <2>3, GoodRecord DEF Good
<1> QED
  BY <1>3, <1>4, <1>5, <1>6, <1>9, <1>10 DEF Finish

(* Every step keeps what the invariant says of a lineage.                  *)
LEMMA MemoryStep ==
    ASSUME TypeOK, PhaseOK, GraphOK, RouteOK, MemoryOK, [Next]_vars
    PROVE  MemoryOK'
<1> USE DEF scan, graph, wave, durable, reuse, history
<1>1. CASE LoopHead \/ NextPass \/ StartWave \/ WaveFails \/ Cancel \/ UNCHANGED vars
  <2>1. UNCHANGED node /\ UNCHANGED memory /\ UNCHANGED <<todo, running, firstErr>>
    BY <1>1 DEF LoopHead, NextPass, StartWave, WaveFails, Cancel, vars, memory
  <2> QED
    BY <2>1, StillRecord DEF Finished, Waiting
<1>2. CASE Launch
  <2>1. /\ UNCHANGED node /\ UNCHANGED memory /\ UNCHANGED firstErr
        /\ todo \in Seq(Nodes) /\ todo # <<>> /\ todo' = Tail(todo) /\ running' = running \cup {Head(todo)}
    BY <1>2 DEF Launch, memory, TypeOK
  <2>2. \A i \in DOMAIN todo : todo[i] = Head(todo) \/ (i - 1 \in DOMAIN todo' /\ todo[i] = todo'[i - 1])
    BY <2>1
  <2>3. \A i \in DOMAIN todo' : i + 1 \in DOMAIN todo /\ todo'[i] = todo[i + 1]
    BY <2>1
  <2>4. Head(todo) \in Waiting
    BY <2>1 DEF Waiting
  <2>5. Waiting \subseteq Waiting' \cup {Head(todo)} /\ Waiting' \subseteq Waiting
    BY <2>2, <2>3 DEF Waiting
  <2>6. \A m \in Nodes : Finished(m)' <=> Finished(m)
    <3> HIDE DEF Waiting
    <3> QED
      BY <2>1, <2>4, <2>5 DEF Finished
  <2> QED
    BY <2>1, <2>6, StillRecord
<1>3. ASSUME NEW n \in Nodes, JoinRefused(n) \/ SkipNotPersisted(n) \/ PassOver(n)
      PROVE  MemoryOK'
  <2>1. UNCHANGED node /\ UNCHANGED memory /\ UNCHANGED <<todo, running, firstErr>>
    BY <1>3 DEF JoinRefused, SkipNotPersisted, PassOver, memory
  <2> QED
    BY <2>1, StillRecord DEF Finished, Waiting
<1>4. ASSUME Wake \/ Resume \/ \E n \in Nodes : ResumeFromNode(n)
      PROVE  MemoryOK'
  BY <1>4, AgainIsNew, AgainStep
<1> QED
  BY <1>1, <1>2, <1>3, <1>4, QueueRecord, SkipRecord, ReleaseRecord, FinishRecord DEF Next, Execute, Scan

-----------------------------------------------------------------------------
(* The theorems                                                            *)

(* The invariant holds at the start of Execute.                            *)
LEMMA InvInit ==
    ASSUME Init
    PROVE  DagInv
<1>1. pipe \in Pipelines /\ pipe \in [edges: SUBSET Edge, kind: [Nodes -> Kind]]
  BY FiniteEdges DEF Init
<1>2. \A n \in Nodes : Cardinality(Incoming(pipe, n)) \in Nat
  <2>1. ASSUME NEW n \in Nodes
        PROVE  Cardinality(Incoming(pipe, n)) \in Nat
    <3>1. IsFiniteSet(Incoming(pipe, n))
      BY <1>1, FiniteEdges, FS_Subset DEF Incoming
    <3> QED
      BY <3>1, FS_CardinalityType
  <2> QED
    BY <2>1
<1>3. TypeOK
  <2>1. 1 \in 1..(N + 1) /\ 1 \in Runs
    BY SchedulerAssumption DEF Runs
  <2>2. todo \in Seq(Nodes)
    BY DEF Init
  <2>3. rows \in [Runs -> [Nodes -> SUBSET {"success", "failed", "waiting", "running", "skipped", "reused"}]]
    BY DEF Init
  <2> QED
    BY <1>1, <1>2, <2>1, <2>2, <2>3 DEF Init, TypeOK, Pending, NoDecision, Decision, Terminal
<1>4. Waiting = {} /\ running = {} /\ todo = <<>> /\ \A n \in Nodes : node[n] = "pending" /\ ~Finished(n)
  BY DEF Init, Waiting, Pending, Finished
<1>5. PhaseOK
  BY <1>4 DEF Init, PhaseOK
<1>6. GraphOK
  <2>1. \A e \in pipe.edges : e.from \in Nodes /\ edge[e] = "unresolved" /\ node[e.from] \notin Terminal
    BY <1>1, <1>4 DEF Init, Edge, Terminal
  <2>2. ASSUME NEW n \in Nodes
        PROVE  Unresolved(n) = Incoming(pipe, n) /\ Active(n) = {}
    BY <2>1 DEF Unresolved, Active, Incoming
  <2>3. {n \in Nodes : node[n] \in Terminal} = {}
    BY <1>4 DEF Terminal
  <2>4. /\ \A n \in Nodes : unresolvedInputs[n] = Cardinality(Incoming(pipe, n)) /\ activeInputs[n] = 0
        /\ terminalNodes = 0
    BY DEF Init
  <2>5. Cardinality({}) = 0
    BY FS_EmptySet
  <2> QED
    BY <2>1, <2>2, <2>3, <2>4, <2>5 DEF GraphOK
<1>7. RouteOK /\ ScanOK
  BY <1>4 DEF Init, RouteOK, ScanOK
<1>8. \A k \in Runs, n \in Nodes : rows[k][n] = {}
  BY DEF Init
<1>9. \A n \in Nodes : Here(n) = {} /\ ~IsGood(n)
  BY <1>3, <1>8 DEF TypeOK, Here, IsGood
<1>10. RecordOK
  BY <1>4, <1>8, <1>9 DEF RecordOK
<1>11. ReuseOK /\ WorkIsNotRepeated
  BY DEF Init, ReuseOK, WorkIsNotRepeated
<1>12. SkipOK
  BY <1>9 DEF SkipOK, SkippedHere
<1>13. KeptOK
  <2>1. Kept({})
    BY <1>9 DEF Init, Kept
  <2> QED
    BY <2>1 DEF KeptOK
<1> QED
  BY <1>3, <1>5, <1>6, <1>7, <1>10, <1>11, <1>12, <1>13 DEF DagInv

(* The invariant holds in every reachable state, for any set of valid      *)
(* pipelines, any parallelism and any number of wakes and resumes.         *)
THEOREM DagInvariant == Spec => []DagInv
<1>1. Init => DagInv
  BY InvInit
<1>2. DagInv /\ [Next]_vars => DagInv'
  <2> SUFFICES ASSUME DagInv, [Next]_vars
               PROVE  DagInv'
    OBVIOUS
  <2>1. TypeOK /\ PhaseOK /\ GraphOK /\ RouteOK /\ ScanOK /\ RecordOK /\ MemoryOK
    BY DEF DagInv, MemoryOK
  <2>2. TypeOK' /\ PhaseOK'
    BY <2>1, TypeStep, PhaseStep
  <2>3. GraphOK' /\ RouteOK' /\ ScanOK'
    BY <2>1, GraphStep, RouteStep, ScanStep
  <2>4. MemoryOK'
    BY <2>1, MemoryStep
  <2> QED
    BY <2>2, <2>3, <2>4 DEF DagInv, MemoryOK
<1> QED
  BY <1>1, <1>2, PTL DEF Spec

(* The state of Execute and of a lineage stays within its types.           *)
THEOREM SchedulerTypes == Spec => []TypeOK
<1>1. DagInv => TypeOK
  BY DEF DagInv
<1> QED
  BY <1>1, DagInvariant, PTL

(* For any valid pipeline: resolveEdge never refuses an edge, every        *)
(* condition node that was executed or reused has a decision, and the      *)
(* scheduler does not stall while a node is unresolved.                    *)
THEOREM RoutingNeverBreaks == Spec => []NeverBroken
<1>1. DagInv => NeverBroken
  BY DEF DagInv, PhaseOK, NeverBroken
<1> QED
  BY <1>1, DagInvariant, PTL

(* For any valid pipeline: a node is in a wave only when everything        *)
(* upstream of it is executed or skipped.                                  *)
THEOREM RunsAfterUpstream == Spec => []UpstreamFirst
<1>1. DagInv => UpstreamFirst
  <2> SUFFICES ASSUME DagInv, NEW n \in Waiting \cup running
               PROVE  \A e \in Incoming(pipe, n) : node[e.from] \in Terminal
    BY DEF UpstreamFirst, Waiting
  <2>1. node[n] = "queued"
    BY DEF DagInv, PhaseOK
  <2>2. n \in Nodes
    BY DEF DagInv, TypeOK, Waiting
  <2> QED
    BY <2>1, <2>2 DEF DagInv, RouteOK
<1> QED
  BY <1>1, DagInvariant, PTL

(* For any valid pipeline: a run that succeeds has executed exactly the    *)
(* nodes its decisions lead to, whether they were made by this execution   *)
(* or reused.                                                              *)
THEOREM SuccessFollowsRouting == Spec => []EndsAsRouted
<1>1. DagInv => EndsAsRouted
  <2> SUFFICES ASSUME DagInv, result = "success", NEW n \in Nodes
               PROVE  IF Incoming(pipe, n) = {} \/ \E e \in Incoming(pipe, n) : Taken(e)
                      THEN node[n] = "executed" ELSE node[n] = "skipped"
    BY DEF EndsAsRouted
  <2>1. node[n] \in Terminal
    BY DEF DagInv, PhaseOK
  <2> QED
    BY <2>1 DEF DagInv, RouteOK, Terminal
<1> QED
  BY <1>1, DagInvariant, PTL

(* For any pipeline, any failures and cancellations, and any sequence of   *)
(* wakes and resumes, with the rows of a node read in any order: a node    *)
(* that has run is not routed around later, unless a resume asked for it   *)
(* to be decided again.                                                    *)
THEOREM LineageKeepsBranch == Spec => []BranchIsKept
<1>1. DagInv => BranchIsKept
  <2> SUFFICES ASSUME DagInv, NEW n \in done \ owed
               PROVE  node[n] # "skipped"
    BY DEF BranchIsKept
  <2>1. PICK K \in SUBSET Nodes : Kept(K)
    BY DEF DagInv, KeptOK
  <2> QED
    BY <2>1 DEF Kept, Finished
<1> QED
  BY <1>1, DagInvariant, PTL

(* Under the same conditions: the handler of a node that is not a wait     *)
(* does not succeed a second time unless a resume asked for it.            *)
THEOREM LineageRepeatsNothing == Spec => []WorkIsNotRepeated
<1>1. DagInv => WorkIsNotRepeated
  BY DEF DagInv
<1> QED
  BY <1>1, DagInvariant, PTL

(* Under the same conditions: a run that succeeds has a handler's success, *)
(* its own or an earlier run's, behind every node it counts as executed.   *)
THEOREM SuccessWasEarned == Spec => []SuccessIsEarned
<1>1. DagInv => SuccessIsEarned
  <2> SUFFICES ASSUME DagInv, NEW n \in Nodes, node[n] = "executed"
               PROVE  n \in done
    BY DEF SuccessIsEarned
  <2>1. IsGood(n) /\ run \in Runs
    BY DEF DagInv, RecordOK, TypeOK
  <2> QED
    BY <2>1 DEF DagInv, RecordOK, IsGood, Here
<1> QED
  BY <1>1, DagInvariant, PTL
=============================================================================

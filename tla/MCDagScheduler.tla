--------------------------- MODULE MCDagScheduler ---------------------------
(* The pipelines that the scheduler is checked on.                         *)
EXTENDS DagScheduler

E(a, b, br) == [from |-> a, to |-> b, branch |-> br]

\* Every valid pipeline of N nodes without waits and without parallel edges.
Shapes ==
    {S \in SUBSET {x \in Nodes \X Nodes : x[1] # x[2]} :
        Acyclic([edges |-> {E(x[1], x[2], "any") : x \in S}])}
Fits(S, k) ==
    \A n \in Nodes :
        /\ k[n] = "condition" => Cardinality({x \in S : x[2] = n}) = 1
        /\ k[n] = "join" => Cardinality({x \in S : x[2] = n}) = 2
Branched(S, k) ==
    LET C == {x \in S : k[x[1]] = "condition"}
    IN  {[edges |-> {E(x[1], x[2], IF x \in C THEN b[x] ELSE "any") : x \in S}, kind |-> k] :
            b \in [C -> {"true", "false"}]}
AllPipelines ==
    UNION {UNION {Branched(S, k) : k \in {f \in [Nodes -> {"plain", "condition", "join"}] : Fits(S, f)}} :
           S \in Shapes}

P(es, k1, k2, k3, k4) == [edges |-> es, kind |-> <<k1, k2, k3, k4>>]

(* Four nodes with waits, branches and joins, listed in and against the    *)
(* order of execution.                                                     *)
ReusePipelines ==
    { \* a source, a condition, and a node on either branch
      P({E(1, 2, "any"), E(2, 3, "true"), E(2, 4, "false")}, "plain", "condition", "plain", "plain"),
      \* a branch with a wait on it, and a node where the branches meet
      P({E(4, 3, "any"), E(3, 2, "true"), E(3, 1, "false"), E(2, 1, "any")}, "plain", "wait", "condition", "plain"),
      \* a wait beside a sibling, both feeding a join
      P({E(1, 2, "any"), E(1, 3, "any"), E(2, 4, "any"), E(3, 4, "any")}, "plain", "wait", "plain", "join"),
      \* both branches of a condition lead to the same node
      P({E(1, 2, "any"), E(2, 3, "true"), E(2, 3, "false"), E(3, 4, "any")}, "plain", "condition", "plain", "wait") }

\* A chain.
Chain == {P({E(1, 2, "any"), E(2, 3, "any"), E(3, 4, "any")}, "plain", "plain", "plain", "plain")}

\* A condition with nothing on its false branch.
OneBranch == {P({E(1, 2, "any"), E(2, 3, "true"), E(3, 4, "any")}, "plain", "condition", "plain", "plain")}

\* Two waits, one after the other.
TwoWaits == {P({E(1, 2, "any"), E(2, 3, "any"), E(3, 4, "any")}, "plain", "wait", "wait", "plain")}
=============================================================================

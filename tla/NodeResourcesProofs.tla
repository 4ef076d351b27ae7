------------------------- MODULE NodeResourcesProofs -------------------------
(***************************************************************************)
(* Theorems about what the handler of a node draws on, the slots of its    *)
(* connection, the workers for its code and the checkpoints of its fetch,  *)
(* for any number of each: the counts are exact, the attempts of a node do *)
(* not overlap, and a resumed fetch has every record once.                 *)
(***************************************************************************)
EXTENDS MCNodeResources, FiniteSetTheorems, SequenceTheorems, TLAPS

(* Each part counts with the one Cardinality.                              *)
LEMMA ConnCardinality == \A S : Conn!Cardinality(S) = Cardinality(S)
  BY DEF Conn!Cardinality, Cardinality

LEMMA CodeCardinality == \A S : Code!Cardinality(S) = Cardinality(S)
  BY DEF Code!Cardinality, Cardinality
-----------------------------------------------------------------------------
(* The connection pool                                                     *)

(* Where a node is tells what its attempts have: none runs before its      *)
(* attempt has come to the select, a later attempt has nothing yet, and an *)
(* attempt is retried only when its handler has returned.                  *)
AttemptOK(n) ==
    /\ \A a \in Conn!Attempts : a > attempt[n] => handler[n][a] = "none"
    /\ \A a \in Conn!Attempts : a < attempt[n] => handler[n][a] # "running"
    /\ \A a \in Conn!Attempts : handler[n][a] = "none" => ~slot[n][a]
    /\ pc[n] \in Conn!Waiting \cup {"begin"} => handler[n][attempt[n]] = "none"
    /\ pc[n] \in {"backoff", "success"} => handler[n][attempt[n]] # "running"
    /\ pc[n] = "backoff" => attempt[n] < MaxRetries

(* The slots in use are those that are held, as ConnectionPool counts      *)
(* them.                                                                   *)
SlotsCounted == inUse = Cardinality(Conn!Held) /\ inUse <= highest

(* The inductive invariant of the connection pool.                         *)
ConnInv ==
    /\ limit \in Nat /\ highest \in Nat /\ limit <= highest
    /\ inUse \in Nat
    /\ pc \in [Nodes -> Conn!Waiting \cup Conn!Done \cup {"begin", "select", "grace", "backoff"}]
    /\ attempt \in [Nodes -> Conn!Attempts]
    /\ lim \in [Nodes -> Nat] /\ \A n \in Nodes : lim[n] <= highest
    /\ handler \in [Nodes -> [Conn!Attempts -> {"none", "running", "ok", "error"}]]
    /\ slot \in [Nodes -> [Conn!Attempts -> BOOLEAN]]
    /\ \A n \in Nodes : AttemptOK(n)
    /\ SlotsCounted
-----------------------------------------------------------------------------
(* The code pool                                                           *)

(* A channel in the list belongs to one caller, who waits on it.           *)
WaitersOK ==
    /\ \A i \in DOMAIN waiters : waiters[i] \in Execs => tpc[waiters[i]] = "waiting"
    /\ \A i, j \in DOMAIN waiters : waiters[i] \in Execs /\ waiters[i] = waiters[j] => i = j

\* The workers that lie idle, by their places.
Idle == UNION {{<<k, i>> : i \in 1..Len(idle[k])} : k \in Keys}

(* The count of an open pool is the workers there are, as CodePool counts  *)
(* them.                                                                   *)
WorkersCounted ==
    ~closed => total = Cardinality(Idle) + Cardinality(Code!Busy) + Cardinality(Code!Spawning) /\ total <= MaxWorkers

(* The inductive invariant of the code pool.                               *)
CodeInv ==
    /\ total \in Int /\ closed \in BOOLEAN
    /\ subPool \in [Execs -> Keys]
    /\ idle \in [Keys -> Seq(Nat)]
    /\ waiters \in Seq(Execs \cup {Gone})
    /\ tpc \in [Execs -> {"out", "acquire", "spawning", "waiting", "woken", "busy", "oneshot"}]
    /\ worker \in [Execs -> Nat]
    /\ WaitersOK
    /\ closed => waiters = <<>> /\ \A k \in Keys : idle[k] = <<>>
    /\ IsFiniteSet(Idle)
    /\ WorkersCounted

(* The slots that are held can be counted.                                 *)
LEMMA HeldIsFinite ==
    ASSUME slot \in [Nodes -> [Conn!Attempts -> BOOLEAN]]
    PROVE  IsFiniteSet(Conn!Held) /\ Cardinality(Conn!Held) \in Nat
<1>1. IsFiniteSet(Conn!Attempts)
  BY ResourcesAssumption, FS_Interval DEF Conn!Attempts
<1>2. IsFiniteSet(Nodes \X Conn!Attempts)
  BY <1>1, ResourcesAssumption, FS_Product
<1>3. Conn!Held \in SUBSET (Nodes \X Conn!Attempts)
  BY DEF Conn!Held
<1> QED
  BY <1>2, <1>3, FS_Subset, FS_CardinalityType

\* The slots and the handlers of other attempts stay as they are.
LEMMA StartMeans ==
    ASSUME ConnInv, NEW n \in Nodes, NEW b \in BOOLEAN, Conn!StartHandler(n, b),
           handler[n][attempt[n]] = "none"
    PROVE  /\ handler' \in [Nodes -> [Conn!Attempts -> {"none", "running", "ok", "error"}]]
           /\ slot' \in [Nodes -> [Conn!Attempts -> BOOLEAN]]
           /\ pc' \in [Nodes -> Conn!Waiting \cup Conn!Done \cup {"begin", "select", "grace", "backoff"}]
           /\ handler'[n][attempt[n]] = "running" /\ pc'[n] = "select"
           /\ \A m \in Nodes, a \in Conn!Attempts :
                 m # n \/ a # attempt[n] => handler'[m][a] = handler[m][a] /\ slot'[m][a] = slot[m][a]
           /\ \A m \in Nodes \ {n} : pc'[m] = pc[m]
           /\ Conn!Held' = Conn!Held \cup (IF b THEN {<<n, attempt[n]>>} ELSE {})
           /\ <<n, attempt[n]>> \notin Conn!Held
<1>1. /\ handler' = [handler EXCEPT ![n][attempt[n]] = "running"]
      /\ slot' = [slot EXCEPT ![n][attempt[n]] = b]
      /\ pc' = [pc EXCEPT ![n] = "select"]
  BY DEF Conn!StartHandler, Conn!At
<1>2. /\ handler \in [Nodes -> [Conn!Attempts -> {"none", "running", "ok", "error"}]]
      /\ slot \in [Nodes -> [Conn!Attempts -> BOOLEAN]] /\ attempt[n] \in Conn!Attempts
      /\ pc \in [Nodes -> Conn!Waiting \cup Conn!Done \cup {"begin", "select", "grace", "backoff"}]
      /\ ~slot[n][attempt[n]]
  BY DEF ConnInv, AttemptOK
<1>3. /\ handler' \in [Nodes -> [Conn!Attempts -> {"none", "running", "ok", "error"}]]
      /\ slot' \in [Nodes -> [Conn!Attempts -> BOOLEAN]]
      /\ pc' \in [Nodes -> Conn!Waiting \cup Conn!Done \cup {"begin", "select", "grace", "backoff"}]
      /\ handler'[n][attempt[n]] = "running" /\ pc'[n] = "select" /\ slot'[n][attempt[n]] = b
      /\ \A m \in Nodes \ {n} : pc'[m] = pc[m]
  BY <1>1, <1>2
<1>4. \A m \in Nodes, a \in Conn!Attempts :
         m # n \/ a # attempt[n] => handler'[m][a] = handler[m][a] /\ slot'[m][a] = slot[m][a]
  BY <1>1, <1>2
<1>5. Conn!Held' = Conn!Held \cup (IF b THEN {<<n, attempt[n]>>} ELSE {}) /\ <<n, attempt[n]>> \notin Conn!Held
  BY <1>2, <1>3, <1>4 DEF Conn!Held
<1> QED
  BY <1>3, <1>4, <1>5

\* A node that only goes to another place, and what it must know there.
LEMMA MoveStep ==
    ASSUME ConnInv, UNCHANGED <<limit, highest, inUse, attempt, handler, slot>>,
           pc' \in [Nodes -> Conn!Waiting \cup Conn!Done \cup {"begin", "select", "grace", "backoff"}],
           lim' \in [Nodes -> Nat], \A n \in Nodes : lim'[n] <= highest,
           \A n \in Nodes :
              \/ pc'[n] = pc[n]
              \/ pc'[n] \in {"grace", "failed", "select"}
              \/ pc'[n] \in Conn!Waiting \cup {"begin"} /\ handler[n][attempt[n]] = "none"
              \/ pc'[n] = "success" /\ handler[n][attempt[n]] # "running"
              \/ pc'[n] = "backoff" /\ handler[n][attempt[n]] # "running" /\ attempt[n] < MaxRetries
    PROVE  ConnInv'
<1>1. SlotsCounted'
  BY DEF ConnInv, SlotsCounted, Conn!Held
<1>2. ASSUME NEW n \in Nodes
      PROVE  AttemptOK(n)'
  BY DEF ConnInv, AttemptOK, Conn!Waiting
<1> QED
  BY <1>1, <1>2 DEF ConnInv

(* A slot is taken, or the node has no pool: the handler of the attempt    *)
(* starts, which had none. The limit that the node read is one that the    *)
(* pool has had, so the slots stay under the highest.                      *)
LEMMA StartStep ==
    ASSUME ConnInv, NEW n \in Nodes, pc[n] \in Conn!Waiting \cup {"begin"}, NEW b \in BOOLEAN,
           Conn!StartHandler(n, b), UNCHANGED <<limit, highest, attempt>>,
           lim' \in [Nodes -> Nat], \A m \in Nodes : lim'[m] <= highest,
           IF b THEN inUse < highest /\ inUse' = inUse + 1 ELSE inUse' = inUse
    PROVE  ConnInv'
<1>1. handler[n][attempt[n]] = "none" /\ attempt[n] \in Conn!Attempts
  BY DEF ConnInv, AttemptOK
<1>2. /\ handler' \in [Nodes -> [Conn!Attempts -> {"none", "running", "ok", "error"}]]
      /\ slot' \in [Nodes -> [Conn!Attempts -> BOOLEAN]]
      /\ pc' \in [Nodes -> Conn!Waiting \cup Conn!Done \cup {"begin", "select", "grace", "backoff"}]
      /\ handler'[n][attempt[n]] = "running" /\ pc'[n] = "select"
      /\ \A m \in Nodes, a \in Conn!Attempts :
            m # n \/ a # attempt[n] => handler'[m][a] = handler[m][a] /\ slot'[m][a] = slot[m][a]
      /\ \A m \in Nodes \ {n} : pc'[m] = pc[m]
      /\ Conn!Held' = Conn!Held \cup (IF b THEN {<<n, attempt[n]>>} ELSE {})
      /\ <<n, attempt[n]>> \notin Conn!Held
  BY <1>1, StartMeans
<1>3. inUse' = Cardinality(Conn!Held') /\ inUse' \in Nat /\ inUse' <= highest
  <2>1. inUse = Cardinality(Conn!Held) /\ inUse <= highest /\ inUse \in Nat /\ highest \in Nat
    BY DEF ConnInv, SlotsCounted
  <2>2. IsFiniteSet(Conn!Held)
    BY HeldIsFinite DEF ConnInv
  <2>3. CASE b = TRUE
    <3>1. Conn!Held' = Conn!Held \cup {<<n, attempt[n]>>}
      BY <1>2, <2>3
    <3>2. Cardinality(Conn!Held') = Cardinality(Conn!Held) + 1
      BY <1>2, <2>2, <3>1, FS_AddElement, ZenonT(60)
    <3> QED
      BY <2>1, <2>3, <3>2
  <2>4. CASE b = FALSE
    <3>1. Conn!Held' = Conn!Held
      BY <1>2, <2>4
    <3> QED
      BY <2>1, <2>4, <3>1
  <2> QED
    BY <2>3, <2>4
<1>4. ASSUME NEW m \in Nodes
      PROVE  AttemptOK(m)'
  <2>1. CASE m = n
    <3>1. \A a \in Conn!Attempts : a # attempt[n] => handler'[n][a] = handler[n][a] /\ slot'[n][a] = slot[n][a]
      BY <1>2
    <3>2. attempt[n] \in Nat /\ \A a \in Conn!Attempts : a \in Nat
      BY <1>1, ResourcesAssumption DEF Conn!Attempts
    <3> QED
      <4>1. AttemptOK(n) /\ attempt' = attempt /\ pc'[n] = "select" /\ handler'[n][attempt[n]] = "running"
        BY <1>2 DEF ConnInv
      <4>2. \A a \in Conn!Attempts : /\ a > attempt[n] => handler'[n][a] = "none"
                                     /\ a < attempt[n] => handler'[n][a] # "running"
        BY <3>1, <3>2, <4>1 DEF AttemptOK
      <4>3. \A a \in Conn!Attempts : handler'[n][a] = "none" => ~slot'[n][a]
        BY <3>1, <4>1 DEF AttemptOK
      <4> QED
        BY <2>1, <4>1, <4>2, <4>3 DEF AttemptOK, Conn!Waiting
  <2>2. CASE m # n
    <3>1. \A a \in Conn!Attempts : handler'[m][a] = handler[m][a] /\ slot'[m][a] = slot[m][a]
      BY <1>2, <2>2
    <3>2. attempt[m] \in Conn!Attempts /\ pc'[m] = pc[m] /\ attempt'[m] = attempt[m]
      BY <1>2, <2>2 DEF ConnInv
    <3> QED
      BY <3>1, <3>2 DEF ConnInv, AttemptOK
  <2> QED
    BY <2>1, <2>2
<1>5. SlotsCounted'
  BY <1>3 DEF SlotsCounted
<1> QED
  BY <1>2, <1>3, <1>4, <1>5 DEF ConnInv

(* A handler returns and gives its slot back.                              *)
LEMMA ReleaseStep ==
    ASSUME ConnInv, NEW n \in Nodes, NEW a \in Conn!Attempts, Conn!Release(n, a)
    PROVE  ConnInv'
<1>1. /\ slot[n][a] /\ slot' = [slot EXCEPT ![n][a] = FALSE]
      /\ inUse' = IF inUse > 0 THEN inUse - 1 ELSE 0
      /\ pc' = Conn!Broadcast
      /\ UNCHANGED <<limit, highest, attempt, lim, handler>>
  BY DEF Conn!Release
<1>2. /\ slot \in [Nodes -> [Conn!Attempts -> BOOLEAN]]
      /\ pc \in [Nodes -> Conn!Waiting \cup Conn!Done \cup {"begin", "select", "grace", "backoff"}]
      /\ inUse = Cardinality(Conn!Held) /\ inUse <= highest /\ inUse \in Nat /\ highest \in Nat
  BY DEF ConnInv, SlotsCounted
<1>3. /\ slot' \in [Nodes -> [Conn!Attempts -> BOOLEAN]] /\ ~slot'[n][a]
      /\ \A m \in Nodes, b \in Conn!Attempts : m # n \/ b # a => slot'[m][b] = slot[m][b]
  BY <1>1, <1>2
<1>4. Conn!Held' = Conn!Held \ {<<n, a>>} /\ <<n, a>> \in Conn!Held
  BY <1>1, <1>3 DEF Conn!Held
<1>5. inUse' = Cardinality(Conn!Held') /\ inUse' \in Nat /\ inUse' <= highest
  <2>1. IsFiniteSet(Conn!Held)
    BY <1>2, HeldIsFinite
  <2>2. Cardinality(Conn!Held') = inUse - 1
    BY <1>2, <1>4, <2>1, FS_RemoveElement
  <2>3. IsFiniteSet(Conn!Held') /\ Cardinality(Conn!Held') \in Nat
    BY <1>4, <2>1, FS_RemoveElement, FS_CardinalityType
  <2> QED
    BY <1>1, <1>2, <2>2, <2>3
<1>6. /\ pc' \in [Nodes -> Conn!Waiting \cup Conn!Done \cup {"begin", "select", "grace", "backoff"}]
      /\ \A m \in Nodes : pc'[m] = pc[m] \/ (pc[m] \in Conn!Waiting /\ pc'[m] \in Conn!Waiting)
  BY <1>1, <1>2 DEF Conn!Broadcast, Conn!Waiting
<1>7. ASSUME NEW m \in Nodes
      PROVE  AttemptOK(m)'
  <2>1. \A b \in Conn!Attempts : slot'[m][b] => slot[m][b]
    BY <1>3
  <2> QED
    BY <1>1, <1>6, <2>1 DEF ConnInv, AttemptOK, Conn!Waiting
<1>8. SlotsCounted'
  BY <1>1, <1>5 DEF SlotsCounted
<1> QED
  BY <1>1, <1>3, <1>5, <1>6, <1>7, <1>8 DEF ConnInv

(* A handler that has no slot returns.                                     *)
LEMMA ReturnStep ==
    ASSUME ConnInv, NEW n \in Nodes, NEW a \in Conn!Attempts, Conn!HandlerReturns(n, a)
    PROVE  ConnInv'
<1>1. PICK out \in {"ok", "error"} : handler' = [handler EXCEPT ![n][a] = out]
  BY DEF Conn!HandlerReturns
<1>2. handler[n][a] = "running" /\ UNCHANGED <<limit, highest, inUse, pc, attempt, lim, slot>>
  BY DEF Conn!HandlerReturns, Conn!nodeVars
<1>3. handler \in [Nodes -> [Conn!Attempts -> {"none", "running", "ok", "error"}]]
  BY DEF ConnInv
<1>4. /\ handler' \in [Nodes -> [Conn!Attempts -> {"none", "running", "ok", "error"}]] /\ handler'[n][a] = out
      /\ \A m \in Nodes, b \in Conn!Attempts : m # n \/ b # a => handler'[m][b] = handler[m][b]
  BY <1>1, <1>3
<1>5. ASSUME NEW m \in Nodes
      PROVE  AttemptOK(m)'
  <2>1. \A b \in Conn!Attempts : \/ handler'[m][b] = handler[m][b]
                                 \/ handler[m][b] = "running" /\ handler'[m][b] \in {"ok", "error"}
    BY <1>2, <1>4
  <2>2. attempt[m] \in Conn!Attempts
    BY DEF ConnInv
  <2>3. AttemptOK(m) /\ attempt'[m] = attempt[m] /\ pc'[m] = pc[m]
    BY <1>2 DEF ConnInv
  <2>4. \A b \in Conn!Attempts : /\ b > attempt[m] => handler'[m][b] = "none"
                                 /\ b < attempt[m] => handler'[m][b] # "running"
                                 /\ handler'[m][b] = "none" => ~slot'[m][b]
    BY <1>2, <2>1, <2>3 DEF AttemptOK
  <2>5. /\ pc[m] \in Conn!Waiting \cup {"begin"} => handler'[m][attempt[m]] = "none"
        /\ pc[m] \in {"backoff", "success"} => handler'[m][attempt[m]] # "running"
    BY <2>1, <2>2, <2>3 DEF AttemptOK
  <2> QED
    BY <2>3, <2>4, <2>5 DEF AttemptOK
<1>6. SlotsCounted'
  BY <1>2 DEF ConnInv, SlotsCounted, Conn!Held
<1> QED
  BY <1>2, <1>4, <1>5, <1>6 DEF ConnInv

(* The next attempt begins, and the handler of the one before has          *)
(* returned.                                                               *)
LEMMA RetryStep ==
    ASSUME ConnInv, NEW n \in Nodes, Conn!Retry(n)
    PROVE  ConnInv'
<1>1. /\ pc[n] = "backoff" /\ attempt' = [attempt EXCEPT ![n] = @ + 1] /\ pc' = [pc EXCEPT ![n] = "begin"]
      /\ UNCHANGED <<limit, highest, inUse, lim, handler, slot>>
  BY DEF Conn!Retry, Conn!At
<1>2. /\ attempt \in [Nodes -> Conn!Attempts]
      /\ pc \in [Nodes -> Conn!Waiting \cup Conn!Done \cup {"begin", "select", "grace", "backoff"}]
      /\ attempt[n] < MaxRetries /\ AttemptOK(n)
  BY <1>1 DEF ConnInv, AttemptOK
<1>3. /\ attempt[n] \in Nat /\ attempt[n] + 1 \in Conn!Attempts
      /\ \A a \in Conn!Attempts : a \in Nat
  BY <1>2, ResourcesAssumption DEF Conn!Attempts
<1>4. /\ attempt' \in [Nodes -> Conn!Attempts] /\ attempt'[n] = attempt[n] + 1 /\ pc'[n] = "begin"
      /\ pc' \in [Nodes -> Conn!Waiting \cup Conn!Done \cup {"begin", "select", "grace", "backoff"}]
      /\ \A m \in Nodes \ {n} : attempt'[m] = attempt[m] /\ pc'[m] = pc[m]
  BY <1>1, <1>2, <1>3
<1>5. ASSUME NEW m \in Nodes
      PROVE  AttemptOK(m)'
  <2>1. CASE m = n
    <3>1. handler[n][attempt[n] + 1] = "none"
      BY <1>2, <1>3 DEF AttemptOK
    <3>2. \A a \in Conn!Attempts : a < attempt[n] + 1 => a < attempt[n] \/ a = attempt[n]
      BY <1>3
    <3>3. \A a \in Conn!Attempts : a < attempt[n] + 1 => handler[n][a] # "running"
      BY <1>1, <1>2, <3>2 DEF AttemptOK
    <3>4. \A a \in Conn!Attempts : a > attempt[n] + 1 => handler[n][a] = "none"
      BY <1>2, <1>3 DEF AttemptOK
    <3> QED
      BY <1>1, <1>2, <1>4, <2>1, <3>1, <3>3, <3>4 DEF AttemptOK
  <2>2. CASE m # n
    BY <1>1, <1>4, <2>2 DEF ConnInv, AttemptOK
  <2> QED
    BY <2>1, <2>2
<1>6. SlotsCounted'
  BY <1>1 DEF ConnInv, SlotsCounted, Conn!Held
<1> QED
  BY <1>1, <1>4, <1>5, <1>6 DEF ConnInv

(* Every step of the connection pool keeps its invariant.                  *)
LEMMA ConnStep ==
    ASSUME ConnInv, [Conn!Next]_connVars
    PROVE  ConnInv'
<1> USE DEF Conn!At, Conn!nodeVars
<1>0. /\ pc \in [Nodes -> Conn!Waiting \cup Conn!Done \cup {"begin", "select", "grace", "backoff"}]
      /\ lim \in [Nodes -> Nat] /\ (\A m \in Nodes : lim[m] <= highest) /\ limit \in Nat /\ highest \in Nat
      /\ limit <= highest /\ inUse \in Nat
  BY DEF ConnInv
<1>1. CASE UNCHANGED connVars
  BY <1>0, <1>1, MoveStep DEF connVars
<1>2. ASSUME NEW n \in Nodes, Conn!Lookup(n)
      PROVE  ConnInv'
  <2>1. lim' \in [Nodes -> Nat] /\ (\A m \in Nodes : lim'[m] <= highest) /\ pc[n] = "begin"
    BY <1>0, <1>2 DEF Conn!Lookup
  <2>2. CASE limit = 0
    BY <1>2, <2>1, <2>2, StartStep DEF Conn!Lookup
  <2>3. CASE limit # 0
    <3>1. pc' = [pc EXCEPT ![n] = "enter"] /\ UNCHANGED <<limit, highest, inUse, attempt, handler, slot>>
      BY <1>2, <2>3 DEF Conn!Lookup
    <3>2. handler[n][attempt[n]] = "none"
      BY <2>1 DEF ConnInv, AttemptOK
    <3> QED
      BY <1>0, <2>1, <3>1, <3>2, MoveStep DEF Conn!Waiting
  <2> QED
    BY <2>2, <2>3
<1>3. ASSUME NEW n \in Nodes, Conn!TakeSlot(n)
      PROVE  ConnInv'
  <2>1. /\ lim' \in [Nodes -> Nat] /\ (\A m \in Nodes : lim'[m] <= highest) /\ pc[n] \in Conn!Waiting
        /\ inUse < highest /\ inUse' = inUse + 1
    BY <1>0, <1>3 DEF Conn!TakeSlot, Conn!Returns, Conn!Waiting
  <2> QED
    BY <1>3, <2>1, StartStep DEF Conn!TakeSlot
<1>4. ASSUME NEW n \in Nodes, Conn!AbandonWait(n) \/ Conn!WaitForSlot(n) \/ Conn!Logged(n)
      PROVE  ConnInv'
  <2>1. pc[n] \in Conn!Waiting
    BY <1>4 DEF Conn!AbandonWait, Conn!WaitForSlot, Conn!Logged, Conn!Waiting
  <2>2. handler[n][attempt[n]] = "none"
    BY <2>1 DEF ConnInv, AttemptOK
  <2>3. lim' \in [Nodes -> Nat] /\ \A m \in Nodes : lim'[m] <= highest
    BY <1>0, <1>4 DEF Conn!AbandonWait, Conn!WaitForSlot, Conn!Logged, Conn!Returns
  <2>4. /\ UNCHANGED <<limit, highest, inUse, attempt, handler, slot>>
        /\ \E where \in Conn!Waiting \cup {"failed"} : pc' = [pc EXCEPT ![n] = where]
    BY <1>4 DEF Conn!AbandonWait, Conn!WaitForSlot, Conn!Logged, Conn!Waiting
  <2> QED
    BY <1>0, <2>2, <2>3, <2>4, MoveStep DEF Conn!Done
<1>5. ASSUME NEW n \in Nodes, Conn!AlarmRings(n)
      PROVE  ConnInv'
  <2>1. pc' = Conn!Broadcast /\ UNCHANGED <<limit, highest, inUse, attempt, lim, handler, slot>>
    BY <1>5 DEF Conn!AlarmRings
  <2>2. \A m \in Nodes : pc[m] = "asleep" => handler[m][attempt[m]] = "none"
    BY DEF ConnInv, AttemptOK, Conn!Waiting
  <2> QED
    BY <1>0, <2>1, <2>2, MoveStep DEF Conn!Broadcast, Conn!Waiting
<1>6. ASSUME NEW n \in Nodes, Conn!AttemptEnds(n) \/ Conn!BackoffCancelled(n)
      PROVE  ConnInv'
  <2>1. /\ UNCHANGED <<limit, highest, inUse, attempt, lim, handler, slot>>
        /\ \E where \in {"grace", "failed", "success", "backoff"} :
              /\ pc' = [pc EXCEPT ![n] = where]
              /\ where \in {"success", "backoff"} => handler[n][attempt[n]] \in {"ok", "error"}
              /\ where = "backoff" => attempt[n] < MaxRetries
    BY <1>6 DEF Conn!AttemptEnds, Conn!TakeResult, Conn!Timeout, Conn!Interrupted, Conn!Stopped, Conn!StillRunning,
       Conn!BackoffCancelled, Conn!AfterFailure
  <2> QED
    BY <1>0, <2>1, MoveStep DEF Conn!Done
<1>7. ASSUME NEW n \in Nodes, Conn!Expire(n) \/ Conn!Cancel(n)
      PROVE  ConnInv'
  BY <1>0, <1>7, MoveStep DEF Conn!Expire, Conn!Cancel
<1>8. CASE Conn!EditLimit
  <2>1. PICK l \in Limits : limit' = l /\ highest' = (IF l > highest THEN l ELSE highest)
    BY <1>8 DEF Conn!EditLimit
  <2>2. limit' \in Nat /\ highest' \in Nat /\ limit' <= highest' /\ highest <= highest'
    BY <1>0, <2>1, ResourcesAssumption
  <2>3. UNCHANGED <<inUse, pc, attempt, lim, handler, slot>>
    BY <1>8 DEF Conn!EditLimit
  <2>4. \A m \in Nodes : lim'[m] <= highest'
    BY <1>0, <2>2, <2>3
  <2>5. SlotsCounted'
    BY <1>0, <2>2, <2>3 DEF ConnInv, SlotsCounted, Conn!Held
  <2>6. \A m \in Nodes : AttemptOK(m)'
    BY <2>3 DEF ConnInv, AttemptOK
  <2> QED
    BY <2>2, <2>3, <2>4, <2>5, <2>6 DEF ConnInv
<1> QED
  BY <1>1, <1>2, <1>3, <1>4, <1>5, <1>6, <1>7, <1>8, RetryStep, ReleaseStep, ReturnStep
     DEF Conn!Next, Conn!Runner, Conn!Acquire

(* The invariant holds at the start.                                       *)
LEMMA ConnInit == ASSUME Conn!Init PROVE ConnInv
<1>1. Conn!Held = {}
  BY DEF Conn!Init, Conn!Held
<1>2. Cardinality({}) = 0
  BY FS_EmptySet
<1>3. 0 \in Conn!Attempts
  BY ResourcesAssumption DEF Conn!Attempts
<1>4. limit \in Nat /\ highest = limit
  BY ResourcesAssumption DEF Conn!Init
<1>5. \A n \in Nodes : AttemptOK(n)
  BY <1>3 DEF Conn!Init, AttemptOK
<1>6. SlotsCounted
  BY <1>1, <1>2, <1>4 DEF Conn!Init, SlotsCounted
<1> QED
  BY <1>3, <1>4, <1>5, <1>6 DEF Conn!Init, ConnInv
-----------------------------------------------------------------------------
(* Where a caller of Exec can be.                                          *)
TpcValues == {"out", "acquire", "spawning", "waiting", "woken", "busy", "oneshot"}

(* The callers with a worker, and those that spawn one, can be counted.    *)
LEMMA CallersFinite ==
    /\ IsFiniteSet(Code!Busy) /\ IsFiniteSet(Code!Spawning)
    /\ Cardinality(Code!Busy) \in Nat /\ Cardinality(Code!Spawning) \in Nat
<1>1. Code!Busy \in SUBSET Execs /\ Code!Spawning \in SUBSET Execs
  BY DEF Code!Busy, Code!Spawning
<1> QED
  BY <1>1, ResourcesAssumption, FS_Subset, FS_CardinalityType

(* A place in a list of idle workers.                                      *)
LEMMA IdleMeans ==
    ASSUME NEW k, NEW i
    PROVE  <<k, i>> \in Idle <=> k \in Keys /\ i \in 1..Len(idle[k])
  BY DEF Idle

\* A caller that goes on by itself leaves the list alone.
LEMMA GoMeans ==
    ASSUME CodeInv, NEW e \in Execs, tpc[e] # "waiting", NEW to \in TpcValues \ {"waiting"}, Code!Go(e, to),
           waiters' = waiters
    PROVE  /\ tpc' \in [Execs -> TpcValues] /\ WaitersOK'
           /\ Code!Busy' = IF to = "busy" THEN Code!Busy \cup {e} ELSE Code!Busy \ {e}
           /\ Code!Spawning' = IF to = "spawning" THEN Code!Spawning \cup {e} ELSE Code!Spawning \ {e}
<1>1. tpc \in [Execs -> TpcValues] /\ tpc' = [tpc EXCEPT ![e] = to] /\ to \in TpcValues
  BY DEF CodeInv, Code!Go, TpcValues
<1>2. /\ tpc' \in [Execs -> TpcValues] /\ tpc'[e] = to /\ \A x \in Execs \ {e} : tpc'[x] = tpc[x]
  BY <1>1
<1>3. WaitersOK'
  BY <1>2 DEF CodeInv, WaitersOK
<1> QED
  BY <1>2, <1>3 DEF Code!Busy, Code!Spawning

(* A caller leaves and the first of the list is woken: its entry is taken  *)
(* off, and it had no other.                                               *)
LEMMA NotifyMeans ==
    ASSUME CodeInv, NEW e \in Execs, tpc[e] # "waiting", Code!Notify(e, "out")
    PROVE  /\ tpc' \in [Execs -> TpcValues] /\ waiters' \in Seq(Execs \cup {Gone}) /\ WaitersOK'
           /\ closed => waiters' = <<>>
           /\ Code!Busy' = Code!Busy \ {e} /\ Code!Spawning' = Code!Spawning \ {e}
<1>1. /\ waiters' = IF waiters = <<>> THEN waiters ELSE Tail(waiters)
      /\ tpc' = [x \in Execs |->
                    IF x = e THEN "out"
                    ELSE IF waiters # <<>> /\ waiters[1] = x THEN "woken" ELSE tpc[x]]
      /\ tpc \in [Execs -> TpcValues] /\ waiters \in Seq(Execs \cup {Gone})
  BY DEF Code!Notify, CodeInv, TpcValues
<1>2. /\ tpc' \in [Execs -> TpcValues] /\ tpc'[e] = "out"
      /\ \A x \in Execs \ {e} : tpc'[x] = IF waiters # <<>> /\ waiters[1] = x THEN "woken" ELSE tpc[x]
  BY <1>1 DEF TpcValues
<1>3. waiters # <<>> => 1 \in DOMAIN waiters
  BY <1>1
<1>4. \A x \in Execs \ {e} : tpc'[x] = tpc[x] \/ (tpc[x] = "waiting" /\ tpc'[x] = "woken")
  BY <1>2, <1>3 DEF CodeInv, WaitersOK
<1>5. waiters' \in Seq(Execs \cup {Gone})
  BY <1>1
<1>6. \A i \in DOMAIN waiters' : waiters # <<>> /\ i + 1 \in DOMAIN waiters /\ waiters'[i] = waiters[i + 1] /\ i \in Nat /\ i > 0
  BY <1>1
<1>7. \A i \in DOMAIN waiters' : waiters'[i] \in Execs => tpc'[waiters'[i]] = "waiting"
  <2>1. SUFFICES ASSUME NEW i \in DOMAIN waiters', waiters'[i] \in Execs
                 PROVE  tpc'[waiters'[i]] = "waiting"
    OBVIOUS
  <2>2. tpc[waiters[i + 1]] = "waiting" /\ waiters[i + 1] \in Execs /\ waiters[i + 1] # e
    BY <1>6, <2>1 DEF CodeInv, WaitersOK
  <2>3. waiters[1] # waiters[i + 1]
    BY <1>3, <1>6, <2>2 DEF CodeInv, WaitersOK
  <2> QED
    BY <1>2, <1>6, <2>2, <2>3
<1>8. WaitersOK'
  <2>1. \A i, j \in DOMAIN waiters' : waiters'[i] \in Execs /\ waiters'[i] = waiters'[j] => i = j
    BY <1>6 DEF CodeInv, WaitersOK
  <2> QED
    BY <1>7, <2>1 DEF WaitersOK
<1>9. closed => waiters' = <<>>
  BY <1>1 DEF CodeInv
<1>10. Code!Busy' = Code!Busy \ {e} /\ Code!Spawning' = Code!Spawning \ {e}
  BY <1>2, <1>4 DEF Code!Busy, Code!Spawning
<1> QED
  BY <1>2, <1>5, <1>8, <1>9, <1>10

\* A step that neither makes nor ends a worker.
LEMMA CallerStep ==
    ASSUME CodeInv, UNCHANGED <<subPool, total, idle, closed>>,
           tpc' \in [Execs -> TpcValues], worker' \in [Execs -> Nat],
           waiters' \in Seq(Execs \cup {Gone}), WaitersOK', closed => waiters' = <<>>,
           Cardinality(Code!Busy') + Cardinality(Code!Spawning') = Cardinality(Code!Busy) + Cardinality(Code!Spawning)
    PROVE  CodeInv'
<1>1. Idle' = Idle
  BY DEF Idle
<1>3. WorkersCounted'
  <2>1. Cardinality(Idle) \in Nat
    BY FS_CardinalityType DEF CodeInv
  <2>2. /\ Cardinality(Code!Busy) \in Nat /\ Cardinality(Code!Spawning) \in Nat
        /\ Cardinality(Code!Busy') \in Nat /\ Cardinality(Code!Spawning') \in Nat
    <3>1. Code!Busy' \in SUBSET Execs /\ Code!Spawning' \in SUBSET Execs
      BY DEF Code!Busy, Code!Spawning
    <3> QED
      BY <3>1, CallersFinite, ResourcesAssumption, FS_Subset, FS_CardinalityType
  <2>3. WorkersCounted /\ total' = total /\ closed' = closed
    BY DEF CodeInv
  <2>0. Cardinality(Code!Busy') + Cardinality(Code!Spawning') = Cardinality(Code!Busy) + Cardinality(Code!Spawning)
    OBVIOUS
  <2>5. Cardinality(Idle) + Cardinality(Code!Busy') + Cardinality(Code!Spawning')
           = Cardinality(Idle) + Cardinality(Code!Busy) + Cardinality(Code!Spawning)
    BY ONLY <2>0, <2>1, <2>2
  <2> QED
    BY <1>1, <2>3, <2>5 DEF WorkersCounted
<1> QED
  BY <1>1, <1>3 DEF CodeInv, TpcValues

(* A caller that has no worker, and that is in no list, goes on.           *)
LEMMA GoStep ==
    ASSUME CodeInv, NEW e \in Execs, tpc[e] \notin {"waiting", "busy", "spawning"},
           NEW to \in TpcValues \ {"waiting", "busy", "spawning"},
           Code!Go(e, to), UNCHANGED <<subPool, total, idle, waiters, closed, worker>>
    PROVE  CodeInv'
<1>1. /\ tpc' \in [Execs -> TpcValues] /\ WaitersOK'
      /\ Code!Busy' = Code!Busy \ {e} /\ Code!Spawning' = Code!Spawning \ {e}
  BY GoMeans
<1>2. e \notin Code!Busy /\ e \notin Code!Spawning
  BY DEF Code!Busy, Code!Spawning
<1>3. Code!Busy' = Code!Busy /\ Code!Spawning' = Code!Spawning
  BY <1>1, <1>2
<1> QED
  BY <1>1, <1>3, CallerStep DEF CodeInv

\* The caller e leaves, and its worker, or the place of one, with it.
LEMMA LeaveCount ==
    ASSUME CodeInv, NEW e \in Execs, tpc[e] \in {"busy", "spawning"},
           Code!Busy' = Code!Busy \ {e}, Code!Spawning' = Code!Spawning \ {e}
    PROVE  /\ Cardinality(Code!Busy') \in Nat /\ Cardinality(Code!Spawning') \in Nat
           /\ Cardinality(Code!Busy') + Cardinality(Code!Spawning')
                 = Cardinality(Code!Busy) + Cardinality(Code!Spawning) - 1
<1>1. /\ IsFiniteSet(Code!Busy) /\ IsFiniteSet(Code!Spawning)
      /\ Cardinality(Code!Busy) \in Nat /\ Cardinality(Code!Spawning) \in Nat
  BY CallersFinite
<1>2. /\ Cardinality(Code!Busy') = IF e \in Code!Busy THEN Cardinality(Code!Busy) - 1 ELSE Cardinality(Code!Busy)
      /\ Cardinality(Code!Spawning') =
            IF e \in Code!Spawning THEN Cardinality(Code!Spawning) - 1 ELSE Cardinality(Code!Spawning)
      /\ IsFiniteSet(Code!Busy') /\ IsFiniteSet(Code!Spawning')
  BY <1>1, FS_RemoveElement
<1>3. (e \in Code!Busy /\ e \notin Code!Spawning) \/ (e \notin Code!Busy /\ e \in Code!Spawning)
  BY DEF Code!Busy, Code!Spawning
<1>4. Cardinality(Code!Busy') \in Nat /\ Cardinality(Code!Spawning') \in Nat
  BY <1>2, FS_CardinalityType
<1> QED
  BY <1>1, <1>2, <1>3, <1>4

(* A worker is retired, or its spawn fails: its place is given back.       *)
LEMMA RetireStep ==
    ASSUME CodeInv, NEW e \in Execs, Code!Retire(e) \/ Code!SpawnFails(e)
    PROVE  CodeInv'
<1>1. /\ tpc[e] \in {"busy", "spawning"} /\ total' = total - 1 /\ Code!Notify(e, "out")
      /\ UNCHANGED <<subPool, idle, closed, worker>>
  BY DEF Code!Retire, Code!SpawnFails
<1>2. /\ tpc' \in [Execs -> TpcValues] /\ waiters' \in Seq(Execs \cup {Gone}) /\ WaitersOK'
      /\ closed => waiters' = <<>>
      /\ Code!Busy' = Code!Busy \ {e} /\ Code!Spawning' = Code!Spawning \ {e}
  BY <1>1, NotifyMeans
<1>3. WorkersCounted'
  <2>1. Idle' = Idle /\ Cardinality(Idle) \in Nat
    BY <1>1, FS_CardinalityType DEF Idle, CodeInv
  <2>2. /\ Cardinality(Code!Busy') \in Nat /\ Cardinality(Code!Spawning') \in Nat
        /\ Cardinality(Code!Busy') + Cardinality(Code!Spawning')
              = Cardinality(Code!Busy) + Cardinality(Code!Spawning) - 1
    BY <1>1, <1>2, LeaveCount
  <2>3. Cardinality(Code!Busy) \in Nat /\ Cardinality(Code!Spawning) \in Nat /\ MaxWorkers \in Nat /\ total \in Int
    BY CallersFinite, ResourcesAssumption DEF CodeInv
  <2>4. WorkersCounted
    BY DEF CodeInv
  <2> QED
    BY <1>1, <2>1, <2>2, <2>3, <2>4 DEF WorkersCounted
<1>4. total' \in Int /\ Idle' = Idle
  BY <1>1 DEF CodeInv, Idle
<1> QED
  BY <1>1, <1>2, <1>3, <1>4 DEF CodeInv, TpcValues

(* A place is reserved under the cap.                                      *)
LEMMA ReserveStep ==
    ASSUME CodeInv, NEW e \in Execs, Code!Reserve(e)
    PROVE  CodeInv'
<1>1. /\ tpc[e] = "acquire" /\ ~closed /\ total < MaxWorkers /\ total' = total + 1 /\ Code!Go(e, "spawning")
      /\ UNCHANGED <<subPool, idle, waiters, closed, worker>>
  BY DEF Code!Reserve
<1>2. /\ tpc' \in [Execs -> TpcValues] /\ WaitersOK'
      /\ Code!Busy' = Code!Busy \ {e} /\ Code!Spawning' = Code!Spawning \cup {e}
  BY <1>1, GoMeans DEF TpcValues
<1>3. e \notin Code!Busy /\ e \notin Code!Spawning
  BY <1>1 DEF Code!Busy, Code!Spawning
<1>4. WorkersCounted'
  <2>1. Idle' = Idle /\ Cardinality(Idle) \in Nat
    BY <1>1, FS_CardinalityType DEF Idle, CodeInv
  <2>2. Code!Busy' = Code!Busy /\ Cardinality(Code!Spawning') = Cardinality(Code!Spawning) + 1
    <3>1. Code!Busy' = Code!Busy
      BY <1>2, <1>3
    <3>2. Cardinality(Code!Spawning \cup {e}) = Cardinality(Code!Spawning) + 1
      BY <1>3, CallersFinite, FS_AddElement
    <3> QED
      BY <1>2, <3>1, <3>2
  <2>3. Cardinality(Code!Busy) \in Nat /\ Cardinality(Code!Spawning) \in Nat /\ MaxWorkers \in Nat /\ total \in Int
    BY CallersFinite, ResourcesAssumption DEF CodeInv
  <2>4. WorkersCounted
    BY DEF CodeInv
  <2> QED
    BY <1>1, <2>1, <2>2, <2>3, <2>4 DEF WorkersCounted
<1>5. total' \in Int /\ Idle' = Idle
  BY <1>1 DEF CodeInv, Idle
<1> QED
  BY <1>1, <1>2, <1>4, <1>5 DEF CodeInv, TpcValues

(* An idle worker is taken: one less is idle, and one more is at work.     *)
LEMMA TakeStep ==
    ASSUME CodeInv, NEW e \in Execs, Code!TakeIdle(e)
    PROVE  CodeInv'
<1> DEFINE k == subPool[e]
<1>1. /\ tpc[e] = "acquire" /\ ~closed /\ idle[k] # <<>> /\ k \in Keys
      /\ worker' = [worker EXCEPT ![e] = idle[k][Len(idle[k])]]
      /\ idle' = [idle EXCEPT ![k] = SubSeq(idle[k], 1, Len(idle[k]) - 1)]
      /\ Code!Go(e, "busy") /\ UNCHANGED <<subPool, total, waiters, closed>>
  BY DEF Code!TakeIdle, CodeInv
<1>2. /\ idle \in [Keys -> Seq(Nat)] /\ idle[k] \in Seq(Nat) /\ Len(idle[k]) \in Nat /\ Len(idle[k]) > 0
      /\ worker \in [Execs -> Nat]
  BY <1>1 DEF CodeInv
<1>3. /\ SubSeq(idle[k], 1, Len(idle[k]) - 1) \in Seq(Nat)
      /\ Len(SubSeq(idle[k], 1, Len(idle[k]) - 1)) = Len(idle[k]) - 1
      /\ idle[k][Len(idle[k])] \in Nat
  BY <1>2, SMTT(30)
<1>4. /\ idle' \in [Keys -> Seq(Nat)] /\ worker' \in [Execs -> Nat]
      /\ Len(idle'[k]) = Len(idle[k]) - 1 /\ \A x \in Keys \ {k} : idle'[x] = idle[x]
  BY <1>1, <1>2, <1>3
<1>5. /\ tpc' \in [Execs -> TpcValues] /\ WaitersOK'
      /\ Code!Busy' = Code!Busy \cup {e} /\ Code!Spawning' = Code!Spawning \ {e}
  BY <1>1, GoMeans DEF TpcValues
<1>6. e \notin Code!Busy /\ e \notin Code!Spawning
  BY <1>1 DEF Code!Busy, Code!Spawning
<1>7. Idle' = Idle \ {<<k, Len(idle[k])>>} /\ <<k, Len(idle[k])>> \in Idle
  <2>1. 1..(Len(idle[k]) - 1) = 1..Len(idle[k]) \ {Len(idle[k])} /\ Len(idle[k]) \in 1..Len(idle[k])
    BY <1>2
  <2> HIDE DEF k
  <2>2. Idle' \subseteq Idle \ {<<k, Len(idle[k])>>}
    BY <1>1, <1>4, <2>1 DEF Idle
  <2>3. Idle \ {<<k, Len(idle[k])>>} \subseteq Idle'
    BY <1>1, <1>4, <2>1 DEF Idle
  <2> QED
    BY <1>1, <2>1, <2>2, <2>3 DEF Idle
<1>8. IsFiniteSet(Idle') /\ WorkersCounted'
  <2>1. IsFiniteSet(Idle) /\ Cardinality(Idle) \in Nat
    BY FS_CardinalityType DEF CodeInv
  <2>2. IsFiniteSet(Idle') /\ Cardinality(Idle') = Cardinality(Idle) - 1
    BY <1>7, <2>1, FS_RemoveElement
  <2>3. Code!Spawning' = Code!Spawning /\ Cardinality(Code!Busy') = Cardinality(Code!Busy) + 1
    <3>1. Code!Spawning' = Code!Spawning
      BY <1>5, <1>6
    <3>2. Cardinality(Code!Busy \cup {e}) = Cardinality(Code!Busy) + 1
      BY <1>6, CallersFinite, FS_AddElement
    <3> QED
      BY <1>5, <3>1, <3>2
  <2>4. Cardinality(Code!Busy) \in Nat /\ Cardinality(Code!Spawning) \in Nat
    BY CallersFinite
  <2> QED
    BY <1>1, <2>1, <2>2, <2>3, <2>4 DEF CodeInv, WorkersCounted
<1> QED
  BY <1>1, <1>4, <1>5, <1>8 DEF CodeInv, TpcValues

\* A worker is put back, into the pool or, once that is closed, to nobody.
LEMMA PutBackStep ==
    ASSUME CodeInv, NEW e \in Execs, Code!PutBack(e)
    PROVE  CodeInv'
<1>1. /\ tpc[e] = "busy" /\ UNCHANGED <<subPool, total, closed, worker>>
      /\ subPool[e] \in Keys /\ worker[e] \in Nat
  BY DEF Code!PutBack, CodeInv
<1>2. CASE closed
  <2>1. Code!Go(e, "out") /\ UNCHANGED <<idle, waiters>>
    BY <1>2 DEF Code!PutBack
  <2>2. tpc' \in [Execs -> TpcValues] /\ WaitersOK'
    BY <1>1, <2>1, GoMeans DEF TpcValues
  <2>3. Idle' = Idle /\ WorkersCounted'
    BY <1>1, <1>2, <2>1 DEF Idle, WorkersCounted
  <2> QED
    BY <1>1, <2>1, <2>2, <2>3 DEF CodeInv, TpcValues
<1>3. CASE ~closed
  <2> DEFINE k == subPool[e]
             at == <<k, Len(idle[k]) + 1>>
  <2>1. Code!Notify(e, "out") /\ idle' = [idle EXCEPT ![k] = Append(@, worker[e] + 1)]
    BY <1>3 DEF Code!PutBack
  <2>2. idle \in [Keys -> Seq(Nat)] /\ idle[k] \in Seq(Nat) /\ Len(idle[k]) \in Nat /\ k \in Keys
    BY <1>1 DEF CodeInv
  <2>3. Append(idle[k], worker[e] + 1) \in Seq(Nat) /\ Len(Append(idle[k], worker[e] + 1)) = Len(idle[k]) + 1
    BY <1>1, <2>2
  <2>4. /\ idle' \in [Keys -> Seq(Nat)] /\ Len(idle'[k]) = Len(idle[k]) + 1
        /\ \A x \in Keys \ {k} : idle'[x] = idle[x]
    BY <2>1, <2>2, <2>3
  <2>5. /\ tpc' \in [Execs -> TpcValues] /\ waiters' \in Seq(Execs \cup {Gone}) /\ WaitersOK'
        /\ closed => waiters' = <<>>
        /\ Code!Busy' = Code!Busy \ {e} /\ Code!Spawning' = Code!Spawning \ {e}
    BY <1>1, <2>1, NotifyMeans
  <2>6. Idle' = Idle \cup {at} /\ at \notin Idle
    <3>1. /\ 1..(Len(idle[k]) + 1) = 1..Len(idle[k]) \cup {Len(idle[k]) + 1}
          /\ Len(idle[k]) + 1 \notin 1..Len(idle[k])
      BY <2>2
    <3> HIDE DEF k
    <3>2. Idle' \subseteq Idle \cup {at}
      BY <2>2, <2>4, <3>1 DEF Idle
    <3>3. Idle \cup {at} \subseteq Idle'
      BY <2>2, <2>4, <3>1 DEF Idle
    <3> QED
      BY <3>1, <3>2, <3>3 DEF Idle
  <2>7. IsFiniteSet(Idle') /\ Cardinality(Idle') = Cardinality(Idle) + 1 /\ Cardinality(Idle) \in Nat
    BY <2>6, FS_AddElement, FS_CardinalityType DEF CodeInv
  <2>8. /\ Cardinality(Code!Busy') \in Nat /\ Cardinality(Code!Spawning') \in Nat
        /\ Cardinality(Code!Busy') + Cardinality(Code!Spawning')
              = Cardinality(Code!Busy) + Cardinality(Code!Spawning) - 1
    BY <1>1, <2>5, LeaveCount
  <2>9. Cardinality(Code!Busy) \in Nat /\ Cardinality(Code!Spawning) \in Nat /\ WorkersCounted
    BY CallersFinite DEF CodeInv
  <2>10. WorkersCounted'
    BY <1>1, <2>7, <2>8, <2>9 DEF WorkersCounted
  <2> QED
    BY <1>1, <1>3, <2>4, <2>5, <2>7, <2>10 DEF CodeInv, TpcValues
<1> QED
  BY <1>2, <1>3

(* The worker that was being spawned is at work.                           *)
LEMMA SpawnStep ==
    ASSUME CodeInv, NEW e \in Execs, Code!SpawnOk(e)
    PROVE  CodeInv'
<1>1. /\ tpc[e] = "spawning" /\ worker' = [worker EXCEPT ![e] = 0] /\ Code!Go(e, "busy")
      /\ UNCHANGED <<subPool, total, idle, waiters, closed>>
  BY DEF Code!SpawnOk
<1>2. /\ tpc' \in [Execs -> TpcValues] /\ WaitersOK'
      /\ Code!Busy' = Code!Busy \cup {e} /\ Code!Spawning' = Code!Spawning \ {e}
  BY <1>1, GoMeans DEF TpcValues
<1>3. e \notin Code!Busy /\ e \in Code!Spawning
  BY <1>1 DEF Code!Busy, Code!Spawning
<1>4. Cardinality(Code!Busy \cup {e}) = Cardinality(Code!Busy) + 1
  BY <1>3, CallersFinite, FS_AddElement
<1>5. Cardinality(Code!Spawning \ {e}) = Cardinality(Code!Spawning) - 1
  BY <1>3, CallersFinite, FS_RemoveElement
<1>6. Cardinality(Code!Busy') + Cardinality(Code!Spawning') = Cardinality(Code!Busy) + Cardinality(Code!Spawning)
  BY <1>2, <1>4, <1>5, CallersFinite
<1>7. worker' \in [Execs -> Nat] /\ waiters' \in Seq(Execs \cup {Gone}) /\ (closed => waiters' = <<>>)
  BY <1>1 DEF CodeInv
<1> QED
  BY <1>1, <1>2, <1>6, <1>7, CallerStep

\* A caller that enters the list, or leaves it, has no worker.
LEMMA QueueStep ==
    ASSUME CodeInv, NEW e \in Execs, Code!WaitAtCap(e) \/ Code!GiveUp(e)
    PROVE  CodeInv'
<1>1. /\ tpc[e] \in {"acquire", "waiting", "woken"} /\ UNCHANGED <<subPool, total, idle, closed, worker>>
      /\ \E to \in {"waiting", "out"} : tpc' = [tpc EXCEPT ![e] = to]
  BY DEF Code!WaitAtCap, Code!GiveUp, Code!AtCap, Code!Go
<1>2. /\ tpc \in [Execs -> TpcValues] /\ waiters \in Seq(Execs \cup {Gone})
  BY DEF CodeInv, TpcValues
<1>3. tpc' \in [Execs -> TpcValues] /\ \A x \in Execs \ {e} : tpc'[x] = tpc[x]
  BY <1>1, <1>2 DEF TpcValues
<1>4. Code!Busy' = Code!Busy /\ Code!Spawning' = Code!Spawning
  BY <1>1, <1>2 DEF Code!Busy, Code!Spawning
<1>5. CASE Code!WaitAtCap(e)
  <2>1. tpc[e] = "acquire" /\ ~closed /\ waiters' = Append(waiters, e) /\ tpc' = [tpc EXCEPT ![e] = "waiting"]
    BY <1>5 DEF Code!WaitAtCap, Code!AtCap, Code!Go
  <2>2. \A i \in DOMAIN waiters : waiters[i] # e
    BY <2>1 DEF CodeInv, WaitersOK
  <2>3. /\ waiters' \in Seq(Execs \cup {Gone})
        /\ \A i \in DOMAIN waiters' : (i \in DOMAIN waiters /\ waiters'[i] = waiters[i]) \/ (i = Len(waiters) + 1 /\ waiters'[i] = e)
    BY <1>2, <2>1
  <2>4. WaitersOK'
    <3>1. tpc'[e] = "waiting"
      BY <1>2, <2>1
    <3>2. \A i \in DOMAIN waiters' : waiters'[i] \in Execs => tpc'[waiters'[i]] = "waiting"
      BY <1>3, <2>2, <2>3, <3>1 DEF CodeInv, WaitersOK
    <3>3. \A i, j \in DOMAIN waiters' : waiters'[i] \in Execs /\ waiters'[i] = waiters'[j] => i = j
      BY <2>2, <2>3 DEF CodeInv, WaitersOK
    <3> QED
      BY <3>2, <3>3 DEF WaitersOK
  <2> QED
    BY <1>1, <1>3, <1>4, <2>1, <2>3, <2>4, CallerStep DEF CodeInv
<1>6. CASE Code!GiveUp(e)
  <2>1. /\ waiters' = [i \in DOMAIN waiters |-> IF waiters[i] = e THEN Gone ELSE waiters[i]]
        /\ tpc' = [tpc EXCEPT ![e] = "out"]
    BY <1>6 DEF Code!GiveUp, Code!Go
  <2>2. /\ waiters' \in Seq(Execs \cup {Gone}) /\ DOMAIN waiters' = DOMAIN waiters
        /\ \A i \in DOMAIN waiters : waiters'[i] # e /\ (waiters'[i] \in Execs => waiters'[i] = waiters[i])
    BY <1>2, <2>1, ResourcesAssumption
  <2>3. WaitersOK'
    <3>2. \A i \in DOMAIN waiters' : waiters'[i] \in Execs => tpc'[waiters'[i]] = "waiting"
      BY <1>3, <2>2 DEF CodeInv, WaitersOK
    <3>3. \A i, j \in DOMAIN waiters' : waiters'[i] \in Execs /\ waiters'[i] = waiters'[j] => i = j
      BY <2>2 DEF CodeInv, WaitersOK
    <3> QED
      BY <3>2, <3>3 DEF WaitersOK
  <2>4. closed => waiters' = <<>>
    BY <1>2, <2>1 DEF CodeInv
  <2> QED
    BY <1>1, <1>3, <1>4, <2>2, <2>3, <2>4, CallerStep DEF CodeInv
<1> QED
  BY <1>5, <1>6

\* The reaper takes from every key the workers at the front.
LEMMA ReapStep ==
    ASSUME CodeInv, Code!Reap
    PROVE  CodeInv'
<1>1. PICK n \in [Keys -> 0..MaxWorkers] :
         /\ \A k \in Keys : n[k] <= Len(idle[k])
         /\ idle' = [k \in Keys |-> SubSeq(idle[k], n[k] + 1, Len(idle[k]))]
         /\ total' = total - Code!Cardinality(UNION {{<<k, m>> : m \in 1..n[k]} : k \in Keys})
  BY DEF Code!Reap
<1> DEFINE Taken == UNION {{<<k, m>> : m \in 1..n[k]} : k \in Keys}
           Left == Idle \ Taken
           Moved == [p \in Left |-> <<p[1], p[2] - n[p[1]]>>]
<1>2. ~closed /\ UNCHANGED <<subPool, waiters, closed, tpc, worker>> /\ idle \in [Keys -> Seq(Nat)]
  BY DEF Code!Reap, Code!callVars, CodeInv
<1>3. \A k \in Keys : n[k] \in Nat /\ Len(idle[k]) \in Nat /\ idle[k] \in Seq(Nat)
  BY <1>2, ResourcesAssumption
<1>4. \A k \in Keys : SubSeq(idle[k], n[k] + 1, Len(idle[k])) \in Seq(Nat)
                         /\ Len(SubSeq(idle[k], n[k] + 1, Len(idle[k]))) = Len(idle[k]) - n[k]
  BY <1>1, <1>3, SMTT(30)
<1>5. idle' \in [Keys -> Seq(Nat)] /\ \A k \in Keys : Len(idle'[k]) = Len(idle[k]) - n[k]
  BY <1>1, <1>4
<1>6. /\ \A k, m : <<k, m>> \in Idle' <=> k \in Keys /\ m \in 1..(Len(idle[k]) - n[k])
      /\ \A k, m : <<k, m>> \in Left <=> k \in Keys /\ m \in (n[k] + 1)..Len(idle[k])
  <2>1. \A k, m : <<k, m>> \in Idle' <=> k \in Keys /\ m \in 1..Len(idle'[k])
    BY DEF Idle
  <2>2. \A k, m : <<k, m>> \in Idle <=> k \in Keys /\ m \in 1..Len(idle[k])
    BY DEF Idle
  <2>3. \A k, m : <<k, m>> \in Taken <=> k \in Keys /\ m \in 1..n[k]
    OBVIOUS
  <2>4. \A k \in Keys : \A m : (m \in 1..Len(idle[k]) /\ ~(m \in 1..n[k])) <=> m \in (n[k] + 1)..Len(idle[k])
    BY <1>3
  <2> QED
    BY <1>5, <2>1, <2>2, <2>3, <2>4
<1>7. Taken \subseteq Idle
  BY <1>1, <1>3 DEF Idle
<1>8. /\ \A p \in Idle' : p = <<p[1], p[2]>>
      /\ \A p \in Left : p = <<p[1], p[2]>>
  BY DEF Idle
<1>9. Moved \in Bijection(Left, Idle')
  <2> HIDE DEF Taken, Left
  <2>1. ASSUME NEW p \in Left
        PROVE  p[1] \in Keys /\ p[2] \in (n[p[1]] + 1)..Len(idle[p[1]])
    BY <1>6, <1>8
  <2>2. ASSUME NEW p \in Left
        PROVE  Moved[p] \in Idle'
    <3>1. p[2] - n[p[1]] \in 1..(Len(idle[p[1]]) - n[p[1]])
      BY <1>3, <2>1, SMTT(30)
    <3> QED
      BY <1>6, <2>1, <3>1
  <2>3. ASSUME NEW p \in Left, NEW q \in Left, Moved[p] = Moved[q]
        PROVE  p = q
    <3>1. p[1] = q[1] /\ p[2] - n[p[1]] = q[2] - n[q[1]]
      BY <2>3
    <3>2. p[2] = q[2]
      BY <1>3, <2>1, <3>1
    <3> QED
      BY <1>8, <3>1, <3>2
  <2>4. ASSUME NEW q \in Idle'
        PROVE  \E p \in Left : Moved[p] = q
    <3>1. q = <<q[1], q[2]>> /\ q[1] \in Keys /\ q[2] \in 1..(Len(idle[q[1]]) - n[q[1]])
      BY <1>6, <1>8
    <3>2. q[2] + n[q[1]] \in (n[q[1]] + 1)..Len(idle[q[1]]) /\ q[2] + n[q[1]] - n[q[1]] = q[2]
      BY <1>3, <3>1
    <3>3. <<q[1], q[2] + n[q[1]]>> \in Left
      BY <1>6, <3>1, <3>2
    <3> QED
      BY <3>1, <3>2, <3>3
  <2> QED
    BY <2>2, <2>3, <2>4 DEF Bijection, Injection, Surjection, IsInjective
<1>10. /\ IsFiniteSet(Idle) /\ Cardinality(Idle) \in Nat
       /\ IsFiniteSet(Taken) /\ Cardinality(Taken) \in Nat
       /\ IsFiniteSet(Left) /\ Cardinality(Left) = Cardinality(Idle) - Cardinality(Taken)
  <2>1. IsFiniteSet(Idle)
    BY DEF CodeInv
  <2>2. IsFiniteSet(Taken)
    BY <1>7, <2>1, FS_Subset
  <2>3. Idle \cap Taken = Taken
    BY <1>7
  <2> QED
    BY <2>1, <2>2, <2>3, FS_Difference, FS_CardinalityType, ZenonT(60)
<1>11. IsFiniteSet(Idle') /\ Cardinality(Idle') = Cardinality(Left)
  BY <1>9, <1>10, FS_Bijection DEF ExistsBijection
<1>12. total' = total - Cardinality(Taken) /\ total' \in Int
  BY <1>1, <1>10, CodeCardinality DEF CodeInv
<1>13. Code!Busy' = Code!Busy /\ Code!Spawning' = Code!Spawning
  BY <1>2 DEF Code!Busy, Code!Spawning
<1>14. WorkersCounted'
  <2>1. Cardinality(Code!Busy) \in Nat /\ Cardinality(Code!Spawning) \in Nat /\ WorkersCounted /\ MaxWorkers \in Nat
    BY CallersFinite, ResourcesAssumption DEF CodeInv
  <2> HIDE DEF Taken, Left
  <2>2. Cardinality(Idle') = Cardinality(Idle) - Cardinality(Taken)
    BY <1>10, <1>11
  <2> QED
    BY <1>2, <1>10, <1>12, <1>13, <2>1, <2>2 DEF WorkersCounted
<1>15. WaitersOK'
  BY <1>2 DEF CodeInv, WaitersOK
<1> QED
  BY <1>2, <1>5, <1>11, <1>12, <1>14, <1>15 DEF CodeInv

(* Close empties the pool.                                                 *)
LEMMA CloseStep ==
    ASSUME CodeInv, Code!Close
    PROVE  CodeInv'
<1>1. /\ closed' = TRUE /\ idle' = [k \in Keys |-> <<>>] /\ waiters' = <<>>
      /\ tpc' = [e \in Execs |-> IF tpc[e] = "waiting" THEN "woken" ELSE tpc[e]]
      /\ UNCHANGED <<subPool, total, worker>>
  BY DEF Code!Close
<1>2. Idle' = {}
  BY <1>1 DEF Idle
<1>3. IsFiniteSet(Idle')
  BY <1>2, FS_EmptySet
<1> QED
  BY <1>1, <1>3 DEF CodeInv, WaitersOK, WorkersCounted

(* Every step of the code pool keeps its invariant.                        *)
LEMMA CodeStep ==
    ASSUME CodeInv, [Code!Next]_codeVars
    PROVE  CodeInv'
<1>1. ASSUME UNCHANGED codeVars
      PROVE  CodeInv'
  <2>1. UNCHANGED <<subPool, total, idle, waiters, closed, tpc, worker>>
    BY <1>1 DEF codeVars
  <2> QED
    BY <2>1 DEF CodeInv, WaitersOK, WorkersCounted, Idle, Code!Busy, Code!Spawning
<1>2. ASSUME NEW e \in Execs,
             Code!Begin(e) \/ Code!RefuseClosed(e) \/ Code!TryAgain(e) \/ Code!Overflow(e) \/ Code!FinishOneShot(e)
      PROVE  CodeInv'
  <2>1. /\ tpc[e] \notin {"waiting", "busy", "spawning"} /\ UNCHANGED <<subPool, total, idle, waiters, closed, worker>>
        /\ \E to \in TpcValues \ {"waiting", "busy", "spawning"} : Code!Go(e, to)
    BY <1>2 DEF Code!Begin, Code!RefuseClosed, Code!TryAgain, Code!Overflow, Code!FinishOneShot, Code!AtCap, TpcValues
  <2> QED
    BY <2>1, GoStep
<1> QED
  BY <1>1, <1>2, RetireStep, ReserveStep, TakeStep, PutBackStep, SpawnStep, QueueStep, ReapStep, CloseStep
     DEF Code!Next, Code!Acquire, Code!Finish

(* The invariant holds at the start.                                       *)
LEMMA CodeInit == ASSUME Code!Init PROVE CodeInv
<1>1. Idle = {} /\ Code!Busy = {} /\ Code!Spawning = {}
  BY DEF Code!Init, Idle, Code!Busy, Code!Spawning
<1>2. IsFiniteSet({}) /\ Cardinality({}) = 0
  BY FS_EmptySet
<1>3. WorkersCounted /\ IsFiniteSet(Idle)
  BY <1>1, <1>2, ResourcesAssumption DEF Code!Init, WorkersCounted
<1>4. idle \in [Keys -> Seq(Nat)] /\ waiters \in Seq(Execs \cup {Gone}) /\ WaitersOK
  BY DEF Code!Init, WaitersOK
<1>5. tpc \in [Execs -> TpcValues] /\ worker \in [Execs -> Nat]
  BY DEF Code!Init, TpcValues
<1>6. /\ total = 0 /\ closed = FALSE /\ waiters = <<>> /\ subPool \in [Execs -> Keys]
      /\ \A k \in Keys : idle[k] = <<>>
  BY DEF Code!Init
<1>7. total \in Int
  BY <1>6
<1>8. closed \in BOOLEAN
  BY <1>6
<1>9. closed => waiters = <<>> /\ \A k \in Keys : idle[k] = <<>>
  BY <1>6
<1> QED
  BY ONLY <1>3, <1>4, <1>5, <1>6, <1>7, <1>8, <1>9 DEF CodeInv, TpcValues
-----------------------------------------------------------------------------
(* The checkpoints                                                         *)

\* The pages up to the m-th.
First(m) == [i \in 1..m |-> i]

(* No two runs work on the files of the key k.                             *)
OneAtWork(k) == \A r, s \in Runs : Working(r) /\ Working(s) /\ key[r] = k /\ key[s] = k => r = s

\* Records that were never left ahead of their position, but for a save or a clear that is under way.
CleanFile(k) ==
    /\ records[k] = First(Len(records[k]))
    /\ position[k] # NoPosition =>
          /\ position[k].next = position[k].count + 1 /\ position[k].next <= Pages
          /\ Len(records[k]) = position[k].count \/ \E r \in Runs : key[r] = k /\ fpc[r] = "rename"
    /\ position[k] = NoPosition =>
          Len(records[k]) = 0 \/ \E r \in Runs : key[r] = k /\ fpc[r] \in {"rename", "clearRecords"}

\* The file of the key k has n rows, if it can be read at all.
Holds(k, n) == Readable(k) => Len(records[k]) >= n

(* The files of a key: a position is covered by rows as long as one run at *)
(* a time has worked on them, and describes them exactly while they are    *)
(* clean.                                                                  *)
FileOK(k) ==
    /\ position[k] # NoPosition => position[k].count \in Nat
    /\ k \notin shared => Holds(k, position[k].count) /\ OneAtWork(k)
    /\ k \notin unclean \cup shared => CleanFile(k)

\* What a run that works on a clean file has fetched and knows to be saved.
CleanFetch(r) ==
    /\ next[r] >= 1 /\ all[r] = First(next[r] - 1)
    /\ IF fpc[r] \in {"clear", "clearRecords"} THEN next[r] = Pages + 1 ELSE next[r] <= Pages
    /\ fpc[r] # "clearRecords" => saved[r] = IF position[key[r]] = NoPosition THEN 0 ELSE position[key[r]].count
    /\ fpc[r] = "rename" => Len(records[key[r]]) = Len(all[r])

(* A run and the files of its key: it knows of no more saved rows than     *)
(* there are, and on a clean file it has every page up to the next one.    *)
FetchOK(r) ==
    /\ saved[r] <= Len(all[r])
    /\ Working(r) /\ key[r] \notin shared =>
          /\ Holds(key[r], saved[r])
          /\ fpc[r] = "rename" => Holds(key[r], Len(all[r]))
          /\ fpc[r] = "clearRecords" => position[key[r]] = NoPosition
    /\ key[r] \notin unclean \cup shared =>
          /\ Working(r) => CleanFetch(r)
          /\ fpc[r] = "success" => all[r] = Dataset

(* The types that the proofs need.                                         *)
FetchTypes ==
    /\ records \in [Runs -> Seq(Int)] /\ position \in [Runs -> [next : Nat, count : Int]]
    /\ fpc \in [Runs -> {"idle", "fetch", "append", "rename", "clear", "clearRecords", "success", "failed"}]
    /\ key \in [Runs -> Runs] /\ all \in [Runs -> Seq(Int)]
    /\ saved \in [Runs -> Nat] /\ next \in [Runs -> Nat]

(* The inductive invariant of the checkpoints.                             *)
FetchInv ==
    /\ FetchTypes
    /\ \A k \in Runs : FileOK(k)
    /\ \A r \in Runs : FetchOK(r)

(* The pages up to the m-th are a sequence of that length.                 *)
LEMMA FirstIs ==
    ASSUME NEW m \in Nat
    PROVE  First(m) \in Seq(Int) /\ Len(First(m)) = m /\ \A i \in 1..m : First(m)[i] = i
  BY DEF First

(* The next page continues them.                                           *)
LEMMA FirstAppend ==
    ASSUME NEW m \in Nat
    PROVE  Append(First(m), m + 1) = First(m + 1)
<1>1. /\ First(m) \in Seq(Int) /\ Len(First(m)) = m /\ \A i \in 1..m : First(m)[i] = i
      /\ First(m + 1) \in Seq(Int) /\ Len(First(m + 1)) = m + 1 /\ \A i \in 1..(m + 1) : First(m + 1)[i] = i
  BY FirstIs
<1>2. /\ Append(First(m), m + 1) \in Seq(Int) /\ Len(Append(First(m), m + 1)) = m + 1
      /\ \A i \in 1..(m + 1) : Append(First(m), m + 1)[i] = i
  BY <1>1
<1> QED
  BY <1>1, <1>2, SeqEqual

(* What a resumed fetch takes of them.                                     *)
LEMMA FirstPart ==
    ASSUME NEW m \in Nat, NEW c \in 0..m
    PROVE  SubSeq(First(m), 1, c) = First(c)
  BY FirstIs DEF First

(* A save appends exactly the pages that were not yet saved.               *)
LEMMA FirstJoin ==
    ASSUME NEW m \in Nat, NEW c \in 0..m
    PROVE  First(c) \o SubSeq(First(m), c + 1, m) = First(m)
<1>1. First(m) \in Seq(Int) /\ Len(First(m)) = m
  BY FirstIs
<1>2. SubSeq(First(m), 1, c) \o SubSeq(First(m), c + 1, m) = SubSeq(First(m), 1, m)
  BY <1>1, ConcatAdjacentSubSeq
<1>3. SubSeq(First(m), 1, c) = First(c) /\ SubSeq(First(m), 1, m) = First(m)
  BY FirstPart
<1> QED
  BY <1>2, <1>3

(* The rows behind the n-th.                                               *)
LEMMA RestIs ==
    ASSUME NEW s \in Seq(Int), NEW n \in 0..Len(s)
    PROVE  SubSeq(s, n + 1, Len(s)) \in Seq(Int) /\ Len(SubSeq(s, n + 1, Len(s))) = Len(s) - n
<1>1. \A i \in (n + 1)..Len(s) : s[i] \in Int
  OBVIOUS
<1> QED
  BY <1>1, SubSeqProperties

(* The rows but the last.                                                  *)
LEMMA PartIs ==
    ASSUME NEW s \in Seq(Int), Len(s) > 0
    PROVE  SubSeq(s, 1, Len(s) - 1) \in Seq(Int) /\ Len(SubSeq(s, 1, Len(s) - 1)) = Len(s) - 1
<1>1. PICK n \in Nat : n = Len(s) - 1 /\ \A i \in 1..n : s[i] \in Int
  OBVIOUS
<1>2. SubSeq(s, 1, n) \in Seq(Int) /\ Len(SubSeq(s, 1, n)) = IF 1 <= n THEN n - 1 + 1 ELSE 0
  BY <1>1, SubSeqProperties
<1> QED
  BY <1>1, <1>2

(* Rows appended to rows.                                                  *)
LEMMA JoinIs ==
    ASSUME NEW s \in Seq(Int), NEW t \in Seq(Int)
    PROVE  s \o t \in Seq(Int) /\ Len(s \o t) = Len(s) + Len(t)
  BY ConcatProperties

(* Rows appended to a file: one that cannot be read stays so, and none is  *)
(* lost at the end of one that can.                                        *)
LEMMA GluedIs ==
    ASSUME NEW s \in Seq(Int), NEW t \in Seq(Int)
    PROVE  /\ Glued(s, t) \in Seq(Int)
           /\ Decodes(s) => Glued(s, t) = s \o t
           /\ Decodes(Glued(s, t)) => Decodes(s)
<1> DEFINE head == SubSeq(s, 1, Len(s) - 1)
           tail == [t EXCEPT ![1] = IF @ = Torn THEN Torn ELSE Garbled]
<1>1. CASE s # <<>> /\ t # <<>> /\ s[Len(s)] = Torn
  <2>1. Glued(s, t) = head \o tail
    BY <1>1 DEF Glued
  <2>2. Len(s) \in Nat /\ Len(s) > 0 /\ Len(t) \in Nat /\ Len(t) > 0 /\ Torn \in Int /\ Garbled \in Int
    BY <1>1 DEF Torn, Garbled
  <2>3. head \in Seq(Int) /\ Len(head) = Len(s) - 1
    BY <2>2, PartIs
  <2>4. tail \in Seq(Int) /\ Len(tail) = Len(t) /\ tail[1] <= 0
    BY <2>2 DEF Torn, Garbled
  <2>5. head \o tail \in Seq(Int) /\ Len(s) \in DOMAIN (head \o tail) /\ (head \o tail)[Len(s)] = tail[1]
    <3>1. PICK h \in Seq(Int), t2 \in Seq(Int) : h = head /\ t2 = tail
      BY <2>3, <2>4
    <3>2. h \o t2 \in Seq(Int) /\ Len(s) \in DOMAIN (h \o t2) /\ (h \o t2)[Len(s)] = t2[1]
      <4>1. Len(h) = Len(s) - 1 /\ Len(t2) > 0 /\ Len(t2) \in Nat /\ Len(s) \in Nat /\ Len(s) > 0
        BY <2>2, <2>3, <2>4, <3>1
      <4> HIDE DEF head, tail
      <4> QED
        BY <4>1
    <3> QED
      BY <3>1, <3>2
  <2>6. ~Decodes(Glued(s, t))
    <3>1. PICK g \in Seq(Int) : g = head \o tail /\ Len(s) \in DOMAIN g /\ g[Len(s)] = tail[1]
      BY <2>5
    <3>2. ~(g[Len(s)] > 0)
      BY <2>4, <3>1
    <3>3. ~Decodes(g)
      BY ONLY <3>1, <3>2 DEF Decodes
    <3> QED
      BY <2>1, <3>1, <3>3
  <2>7. ~Decodes(s)
    BY <1>1, <2>2 DEF Decodes, Torn
  <2> QED
    BY <2>1, <2>5, <2>6, <2>7
<1>2. CASE ~(s # <<>> /\ t # <<>> /\ s[Len(s)] = Torn)
  <2>1. Glued(s, t) = s \o t
    BY <1>2 DEF Glued
  <2>2. s \o t \in Seq(Int)
    BY JoinIs
  <2>3. \A n \in DOMAIN s : n \in DOMAIN (s \o t) /\ (s \o t)[n] = s[n]
    OBVIOUS
  <2> QED
    BY <2>1, <2>2, <2>3 DEF Decodes
<1> QED
  BY <1>1, <1>2

(* The pages that a clean file holds can be read.                          *)
LEMMA FirstDecodes ==
    ASSUME NEW m \in Nat
    PROVE  Decodes(First(m))
  BY DEF First, Decodes
-----------------------------------------------------------------------------
(* Where a run that works can be.                                          *)
WorkPcs == {"fetch", "append", "rename", "clear", "clearRecords"}

(* A run that works changes its own state and the files of its key only.   *)
LEMMA FetchFrame ==
    ASSUME FetchInv, NEW r \in Runs, NEW f \in Runs, f = key[r], Working(r), FetchTypes', key' = key, shared' = shared,
           unclean \subseteq unclean', unclean' \subseteq unclean \cup {f},
           \A s \in Runs \ {r} : fpc'[s] = fpc[s] /\ all'[s] = all[s] /\ saved'[s] = saved[s] /\ next'[s] = next[s],
           \A k \in Runs \ {f} : records'[k] = records[k] /\ position'[k] = position[k],
           FileOK(f)', FetchOK(r)'
    PROVE  FetchInv'
<1>1. ASSUME NEW k \in Runs PROVE FileOK(k)'
  <2>1. CASE k = f
    BY <2>1
  <2>2. CASE k # f
    <3>1. FileOK(k)
      BY DEF FetchInv
    <3>2. \A s \in Runs : key[s] = k => fpc'[s] = fpc[s]
      BY <2>2
    <3>3. OneAtWork(k) => OneAtWork(k)'
      BY <3>2 DEF OneAtWork, Working
    <3>4. CleanFile(k) => CleanFile(k)'
      BY <2>2, <3>2 DEF CleanFile
    <3>5. k \notin unclean => k \notin unclean'
      BY <2>2
    <3> QED
      BY <2>2, <3>1, <3>3, <3>4, <3>5 DEF FileOK, Holds, Readable
  <2> QED
    BY <2>1, <2>2
<1>2. ASSUME NEW s \in Runs PROVE FetchOK(s)'
  <2>1. CASE s = r
    BY <2>1
  <2>2. CASE s # r
    <3>1. FetchOK(s) /\ key[s] \in Runs /\ FileOK(key[s])
      BY DEF FetchInv, FetchTypes
    <3>2. /\ fpc'[s] = fpc[s] /\ all'[s] = all[s] /\ saved'[s] = saved[s] /\ next'[s] = next[s]
          /\ Working(s)' = Working(s)
      BY <2>2 DEF Working
    <3>3. CASE key[s] # f
      <4>1. records'[key[s]] = records[key[s]] /\ position'[key[s]] = position[key[s]]
        BY <3>1, <3>3
      <4>2. CleanFetch(s) => CleanFetch(s)'
        BY <3>2, <4>1 DEF CleanFetch
      <4> QED
        BY <3>1, <3>2, <3>3, <4>1, <4>2 DEF FetchOK, Holds, Readable
    <3>4. CASE key[s] = f
      <4>1. Working(s) => key[s] \in shared
        BY <2>2, <3>1, <3>4 DEF FileOK, OneAtWork
      <4> QED
        BY <3>1, <3>2, <4>1 DEF FetchOK
    <3> QED
      BY <3>3, <3>4
  <2> QED
    BY <2>1, <2>2
<1> QED
  BY <1>1, <1>2 DEF FetchInv

\* What the run r, which works on the file f, may rely on.
LEMMA AtWork ==
    ASSUME FetchInv, NEW r \in Runs, Working(r)
    PROVE  /\ key[r] \in Runs /\ FileOK(key[r]) /\ FetchOK(r)
           /\ all[r] \in Seq(Int) /\ saved[r] \in Nat /\ next[r] \in Nat /\ Len(all[r]) \in Nat
           /\ records[key[r]] \in Seq(Int) /\ Len(records[key[r]]) \in Nat
           /\ position[key[r]] \in [next : Nat, count : Int]
           /\ fpc \in [Runs -> WorkPcs \cup {"idle", "success", "failed"}] /\ fpc[r] \in WorkPcs
           /\ key[r] \notin shared => \A s \in Runs : Working(s) /\ key[s] = key[r] => s = r
  BY SMTT(30) DEF FetchInv, FetchTypes, FileOK, OneAtWork, WorkPcs, Working

(* A page comes.                                                           *)
LEMMA NextPageStep ==
    ASSUME FetchInv, NEW r \in Runs, NextPage(r)
    PROVE  FetchInv'
<1>1. /\ fpc[r] = "fetch" /\ all' = [all EXCEPT ![r] = Append(@, next[r])] /\ next' = [next EXCEPT ![r] = @ + 1]
      /\ \E to \in {"clear", "append", "fetch"} :
            fpc' = [fpc EXCEPT ![r] = to] /\ (to = "clear" <=> next[r] = Pages)
      /\ UNCHANGED <<records, position, key, saved, unclean, shared>>
  BY DEF NextPage, Go, history
<1>2. Working(r)
  BY <1>1 DEF Working
<1>3. PICK f \in Runs : f = key[r]
  BY <1>2, AtWork
<1>4. FetchTypes
  BY DEF FetchInv
<1>5. FetchTypes' /\ all'[r] = Append(all[r], next[r]) /\ next'[r] = next[r] + 1 /\ fpc'[r] \in {"clear", "append", "fetch"}
      /\ (fpc'[r] = "clear" <=> next[r] = Pages)
  <2>1. Append(all[r], next[r]) \in Seq(Int) /\ next[r] + 1 \in Nat
    BY <1>4 DEF FetchTypes
  <2> QED
    BY <1>1, <1>4, <2>1 DEF FetchTypes
<1>6. FileOK(f)'
  <2>1. FileOK(f)
    BY <1>3 DEF FetchInv
  <2>2. \A s \in Runs : fpc[s] \in {"rename", "clearRecords"} => fpc'[s] = fpc[s]
    BY <1>1, <1>4 DEF FetchTypes
  <2>3. \A s \in Runs : Working(s)' => Working(s)
    BY <1>1, <1>4 DEF FetchTypes, Working
  <2>4. OneAtWork(f) => OneAtWork(f)'
    BY <1>1, <2>3 DEF OneAtWork
  <2>5. CleanFile(f) => CleanFile(f)'
    BY <1>1, <2>2 DEF CleanFile
  <2> QED
    BY <1>1, <2>1, <2>4, <2>5 DEF FileOK, Holds, Readable
<1>7. FetchOK(r)'
  <2>1. FetchOK(r) /\ next[r] \in Nat /\ all[r] \in Seq(Int) /\ saved[r] \in Nat /\ Len(Append(all[r], next[r])) = Len(all[r]) + 1
        /\ Len(all[r]) \in Nat
    BY <1>2, AtWork
  <2>2. CleanFetch(r) => CleanFetch(r)'
    <3>1. SUFFICES ASSUME CleanFetch(r) PROVE CleanFetch(r)'
      OBVIOUS
    <3>2. all[r] = First(next[r] - 1) /\ next[r] - 1 \in Nat /\ next[r] <= Pages
      BY <1>1, <2>1, <3>1 DEF CleanFetch
    <3>3. all'[r] = First(next[r])
      <4>1. PICK m \in Nat : m = next[r] - 1
        BY <3>2
      <4>2. next[r] = m + 1 /\ all[r] = First(m)
        BY <2>1, <3>2, <4>1
      <4>3. Append(First(m), m + 1) = First(m + 1)
        BY FirstAppend
      <4> QED
        BY <1>5, <4>2, <4>3
    <3>4. next'[r] >= 1 /\ next'[r] - 1 = next[r]
      <4>1. next'[r] = next[r] + 1 /\ next[r] \in Nat
        BY <1>5, <2>1
      <4> QED
        BY ONLY <4>1
    <3>5. IF fpc'[r] \in {"clear", "clearRecords"} THEN next'[r] = Pages + 1 ELSE next'[r] <= Pages
      <4>1. next'[r] = next[r] + 1 /\ next[r] \in Nat /\ next[r] <= Pages /\ Pages \in Nat
        BY <1>5, <2>1, <3>2, CheckpointAssumption
      <4>2. fpc'[r] \in {"clear", "append", "fetch"} /\ (fpc'[r] = "clear" <=> next[r] = Pages)
        BY <1>5
      <4> QED
        BY ONLY <4>1, <4>2, SMTT(30)
    <3> QED
      BY <1>1, <1>5, <3>1, <3>3, <3>4, <3>5 DEF CleanFetch
  <2> QED
    BY <1>1, <1>2, <1>5, <2>1, <2>2 DEF FetchOK, Holds, Readable
<1>8. \A s \in Runs \ {r} : fpc'[s] = fpc[s] /\ all'[s] = all[s] /\ saved'[s] = saved[s] /\ next'[s] = next[s]
  BY <1>1, <1>4 DEF FetchTypes
<1> QED
  BY <1>1, <1>2, <1>3, <1>5, <1>6, <1>7, <1>8, FetchFrame

(* First half of a save: on a clean file the rows are then all pages so    *)
(* far.                                                                    *)
LEMMA AppendStep ==
    ASSUME FetchInv, NEW r \in Runs, AppendRecords(r)
    PROVE  FetchInv'
<1>1. /\ fpc[r] = "append" /\ records' = [records EXCEPT ![key[r]] = Glued(@, Delta(r))] /\ fpc' = [fpc EXCEPT ![r] = "rename"]
      /\ UNCHANGED <<position, key, all, saved, next, unclean, shared>>
  BY DEF AppendRecords, Go, history
<1>2. Working(r)
  BY <1>1 DEF Working
<1>3. PICK f \in Runs : f = key[r]
  BY <1>2, AtWork
<1>4. FetchTypes /\ FetchOK(r) /\ FileOK(f) /\ saved[r] <= Len(all[r]) /\ saved[r] \in Nat /\ Len(all[r]) \in Nat
      /\ all[r] \in Seq(Int) /\ records[f] \in Seq(Int) /\ Len(records[f]) \in Nat /\ position[f].count \in Int
  BY <1>2, <1>3, AtWork DEF FetchInv, FetchOK
<1>5. Delta(r) \in Seq(Int) /\ Len(Delta(r)) = Len(all[r]) - saved[r]
  <2>1. saved[r] \in 0..Len(all[r])
    BY <1>4
  <2> QED
    BY <1>4, <2>1, RestIs DEF Delta
<1>6. PICK j \in Seq(Int) : j = Glued(records[f], Delta(r))
  BY <1>4, <1>5, GluedIs
<1>7. FetchTypes' /\ records'[f] = j /\ fpc'[r] = "rename"
  <2>1. records' = [records EXCEPT ![f] = j]
    BY <1>1, <1>3, <1>6
  <2>2. fpc' = [fpc EXCEPT ![r] = "rename"] /\ UNCHANGED <<position, key, all, saved, next>>
    BY <1>1
  <2>3. FetchTypes
    BY <1>4
  <2>4. records' \in [Runs -> Seq(Int)] /\ records'[f] = j
    BY ONLY <1>6, <2>1, <2>3 DEF FetchTypes
  <2>5. fpc' \in [Runs -> {"idle", "fetch", "append", "rename", "clear", "clearRecords", "success", "failed"}] /\ fpc'[r] = "rename"
    BY ONLY <2>2, <2>3, r \in Runs DEF FetchTypes
  <2>6. FetchTypes'
    BY ONLY <2>2, <2>3, <2>4, <2>5 DEF FetchTypes
  <2> QED
    BY <2>4, <2>5, <2>6
<1>13. /\ Readable(f)' => Readable(f)
       /\ Readable(f) => records'[f] = records[f] \o Delta(r) /\ Len(records'[f]) = Len(records[f]) + Len(all[r]) - saved[r]
  <2>1. /\ Decodes(j) => Decodes(records[f])
        /\ Decodes(records[f]) => j = records[f] \o Delta(r)
    BY <1>4, <1>5, <1>6, GluedIs
  <2>2. Len(records[f] \o Delta(r)) = Len(records[f]) + Len(Delta(r))
    BY <1>4, <1>5, JoinIs
  <2> QED
    BY <1>4, <1>5, <1>7, <2>1, <2>2 DEF Readable
<1>8. \A s \in Runs : Working(s)' => Working(s)
  BY <1>1, <1>2, <1>4 DEF FetchTypes, Working
<1>9. ASSUME f \notin unclean \cup shared
      PROVE  records'[f] = First(Len(all[r])) /\ Len(records'[f]) = Len(all[r])
  <2>1. CleanFile(f) /\ CleanFetch(r) /\ \A s \in Runs : Working(s) /\ key[s] = f => s = r
    BY <1>2, <1>3, <1>4, <1>9, AtWork DEF FileOK, FetchOK
  <2>2. ~ \E s \in Runs : key[s] = f /\ fpc[s] \in {"rename", "clearRecords"}
    BY <1>1, <2>1 DEF Working
  <2>3. Len(records[f]) = saved[r]
    BY <1>1, <1>3, <2>1, <2>2 DEF CleanFile, CleanFetch
  <2>4. all[r] = First(Len(all[r]))
    <3>1. all[r] = First(next[r] - 1) /\ next[r] - 1 \in Nat
      BY <1>2, <2>1, AtWork DEF CleanFetch
    <3> QED
      BY <3>1, FirstIs
  <2>5. records[f] = First(saved[r]) /\ Delta(r) = SubSeq(First(Len(all[r])), saved[r] + 1, Len(all[r]))
    BY <2>1, <2>3, <2>4 DEF CleanFile, Delta
  <2>6. First(saved[r]) \o SubSeq(First(Len(all[r])), saved[r] + 1, Len(all[r])) = First(Len(all[r]))
    <3>1. saved[r] \in 0..Len(all[r])
      BY <1>4
    <3> QED
      BY <1>4, <3>1, FirstJoin
  <2>7. Readable(f)
    BY <1>4, <2>5, FirstDecodes DEF Readable
  <2> QED
    BY <1>4, <1>13, <2>5, <2>6, <2>7, FirstIs
<1>10. FileOK(f)'
  <2>1. OneAtWork(f) => OneAtWork(f)'
    BY <1>1, <1>8 DEF OneAtWork
  <2>2. f \notin shared => Holds(f, position[f].count)'
    BY <1>1, <1>4, <1>13, SMTT(30) DEF FileOK, Holds
  <2>3. f \notin unclean \cup shared => CleanFile(f)'
    <3>1. SUFFICES ASSUME f \notin unclean \cup shared PROVE CleanFile(f)'
      OBVIOUS
    <3>2. CleanFile(f) /\ records'[f] = First(Len(records'[f]))
      BY <1>4, <1>9, <3>1 DEF FileOK
    <3>3. key'[r] = f /\ fpc'[r] = "rename"
      BY <1>1, <1>3, <1>7
    <3> QED
      BY <1>1, <3>2, <3>3 DEF CleanFile
  <2> QED
    BY <1>1, <1>4, <2>1, <2>2, <2>3 DEF FileOK
<1>11. FetchOK(r)'
  <2>1. f \notin shared => Holds(f, saved[r])
    BY <1>2, <1>3, <1>4 DEF FetchOK
  <2>2. f \notin shared => Holds(f, saved[r])' /\ Holds(f, Len(all[r]))'
    BY <1>1, <1>4, <1>13, <2>1 DEF Holds
  <2>3. f \notin unclean \cup shared => CleanFetch(r)'
    BY <1>1, <1>2, <1>3, <1>4, <1>7, <1>9 DEF FetchOK, CleanFetch
  <2> QED
    BY <1>1, <1>3, <1>4, <1>7, <2>2, <2>3 DEF FetchOK
<1>12. /\ \A s \in Runs \ {r} : fpc'[s] = fpc[s] /\ all'[s] = all[s] /\ saved'[s] = saved[s] /\ next'[s] = next[s]
       /\ \A k \in Runs \ {f} : records'[k] = records[k] /\ position'[k] = position[k]
  BY <1>1, <1>3, <1>4 DEF FetchTypes
<1> QED
  BY <1>1, <1>2, <1>3, <1>7, <1>10, <1>11, <1>12, FetchFrame

(* Second half of a save: the position counts the rows that are there.     *)
LEMMA RenameStep ==
    ASSUME FetchInv, NEW r \in Runs, RenamePosition(r)
    PROVE  FetchInv'
<1>1. /\ fpc[r] = "rename" /\ position' = [position EXCEPT ![key[r]] = [next |-> next[r], count |-> Len(all[r])]]
      /\ saved' = [saved EXCEPT ![r] = Len(all[r])] /\ fpc' = [fpc EXCEPT ![r] = "fetch"]
      /\ UNCHANGED <<records, key, all, next, unclean, shared>>
  BY DEF RenamePosition, Go, history
<1>2. Working(r)
  BY <1>1 DEF Working
<1>3. PICK f \in Runs : f = key[r]
  BY <1>2, AtWork
<1>4. FetchTypes /\ FetchOK(r) /\ FileOK(f) /\ Len(all[r]) \in Nat /\ next[r] \in Nat
      /\ all[r] \in Seq(Int) /\ records[f] \in Seq(Int) /\ Len(records[f]) \in Nat
  BY <1>2, <1>3, AtWork DEF FetchInv
<1>5. /\ position'[f] = [next |-> next[r], count |-> Len(all[r])] /\ position'[f] # NoPosition
      /\ saved'[r] = Len(all[r]) /\ fpc'[r] = "fetch"
  BY <1>1, <1>3, <1>4 DEF FetchTypes, NoPosition
<1>6. FetchTypes'
  <2>1. [next |-> next[r], count |-> Len(all[r])] \in [next : Nat, count : Int]
    BY <1>4
  <2> QED
    BY <1>1, <1>3, <1>4, <2>1 DEF FetchTypes
<1>7. \A s \in Runs : Working(s)' => Working(s)
  BY <1>1, <1>2, <1>4 DEF FetchTypes, Working
<1>8. ASSUME f \notin unclean \cup shared
      PROVE  CleanFetch(r) /\ Len(records[f]) = Len(all[r]) /\ next[r] = Len(all[r]) + 1 /\ next[r] <= Pages
  <2>1. CleanFetch(r)
    BY <1>2, <1>3, <1>4, <1>8 DEF FetchOK
  <2>2. next[r] - 1 \in Nat /\ all[r] = First(next[r] - 1)
    BY <1>4, <2>1 DEF CleanFetch
  <2>3. Len(all[r]) = next[r] - 1
    BY <2>2, FirstIs
  <2> QED
    BY <1>1, <1>3, <1>4, <2>1, <2>3 DEF CleanFetch
<1>9. FileOK(f)'
  <2>1. OneAtWork(f) => OneAtWork(f)'
    BY <1>1, <1>7 DEF OneAtWork
  <2>2. f \notin shared => Holds(f, position[f].count)'
    BY <1>1, <1>2, <1>3, <1>4, <1>5 DEF FetchOK, Holds, Readable
  <2>3. f \notin unclean \cup shared => CleanFile(f)'
    <3>1. SUFFICES ASSUME f \notin unclean \cup shared PROVE CleanFile(f)'
      OBVIOUS
    <3>2. records[f] = First(Len(records[f]))
      BY <1>4, <3>1 DEF FileOK, CleanFile
    <3> QED
      BY <1>1, <1>5, <1>8, <3>1, <3>2 DEF CleanFile
  <2> QED
    BY <1>1, <1>4, <1>5, <2>1, <2>2, <2>3 DEF FileOK
<1>10. FetchOK(r)'
  <2>1. f \notin shared => Holds(f, saved[r])'
    BY <1>1, <1>2, <1>3, <1>4, <1>5 DEF FetchOK, Holds, Readable
  <2>2. f \notin unclean \cup shared => CleanFetch(r)'
    BY <1>1, <1>3, <1>5, <1>8 DEF CleanFetch
  <2> QED
    BY <1>1, <1>3, <1>4, <1>5, <2>1, <2>2 DEF FetchOK
<1>11. /\ \A s \in Runs \ {r} : fpc'[s] = fpc[s] /\ all'[s] = all[s] /\ saved'[s] = saved[s] /\ next'[s] = next[s]
       /\ \A k \in Runs \ {f} : records'[k] = records[k] /\ position'[k] = position[k]
  BY <1>1, <1>3, <1>4 DEF FetchTypes
<1> QED
  BY <1>1, <1>2, <1>3, <1>6, <1>9, <1>10, <1>11, FetchFrame

(* First half of the delete.                                               *)
LEMMA ClearPositionStep ==
    ASSUME FetchInv, NEW r \in Runs, ClearPosition(r)
    PROVE  FetchInv'
<1>1. /\ fpc[r] = "clear" /\ position' = [position EXCEPT ![key[r]] = NoPosition] /\ fpc' = [fpc EXCEPT ![r] = "clearRecords"]
      /\ UNCHANGED <<records, key, all, saved, next, unclean, shared>>
  BY DEF ClearPosition, Go, history
<1>2. Working(r)
  BY <1>1 DEF Working
<1>3. PICK f \in Runs : f = key[r]
  BY <1>2, AtWork
<1>4. FetchTypes /\ FetchOK(r) /\ FileOK(f) /\ Len(records[f]) \in Nat
  BY <1>2, <1>3, AtWork DEF FetchInv
<1>5. position'[f] = NoPosition /\ position'[f].count = -1 /\ fpc'[r] = "clearRecords" /\ key'[r] = f
  BY <1>1, <1>3, <1>4 DEF FetchTypes, NoPosition
<1>6. FetchTypes'
  <2>1. NoPosition \in [next : Nat, count : Int]
    BY DEF NoPosition
  <2> QED
    BY <1>1, <1>3, <1>4, <2>1 DEF FetchTypes
<1>7. \A s \in Runs : Working(s)' => Working(s)
  BY <1>1, <1>2, <1>4 DEF FetchTypes, Working
<1>8. FileOK(f)'
  <2>1. OneAtWork(f) => OneAtWork(f)'
    BY <1>1, <1>7 DEF OneAtWork
  <2>2. CleanFile(f) => CleanFile(f)'
    BY <1>1, <1>5 DEF CleanFile
  <2> QED
    BY <1>1, <1>4, <1>5, <2>1, <2>2 DEF FileOK, Holds, Readable
<1>9. FetchOK(r)'
  <2>1. CleanFetch(r) => CleanFetch(r)'
    BY <1>1, <1>5 DEF CleanFetch
  <2> QED
    BY <1>1, <1>2, <1>3, <1>4, <1>5, <2>1 DEF FetchOK, Holds, Readable
<1>10. /\ \A s \in Runs \ {r} : fpc'[s] = fpc[s] /\ all'[s] = all[s] /\ saved'[s] = saved[s] /\ next'[s] = next[s]
       /\ \A k \in Runs \ {f} : records'[k] = records[k] /\ position'[k] = position[k]
  BY <1>1, <1>3, <1>4 DEF FetchTypes
<1> QED
  BY <1>1, <1>2, <1>3, <1>6, <1>8, <1>9, <1>10, FetchFrame

(* Second half of the delete: the position is gone already, and the fetch  *)
(* has every page.                                                         *)
LEMMA ClearRecordsStep ==
    ASSUME FetchInv, NEW r \in Runs, ClearRecords(r)
    PROVE  FetchInv'
<1>1. /\ fpc[r] = "clearRecords" /\ records' = [records EXCEPT ![key[r]] = <<>>] /\ fpc' = [fpc EXCEPT ![r] = "success"]
      /\ UNCHANGED <<position, key, all, saved, next, unclean, shared>>
  BY DEF ClearRecords, Go, history
<1>2. Working(r)
  BY <1>1 DEF Working
<1>3. PICK f \in Runs : f = key[r]
  BY <1>2, AtWork
<1>4. FetchTypes /\ FetchOK(r) /\ FileOK(f)
  BY <1>2, <1>3, AtWork DEF FetchInv
<1>5. records'[f] = <<>> /\ Len(records'[f]) = 0 /\ fpc'[r] = "success" /\ ~Working(r)'
  BY <1>1, <1>3, <1>4 DEF FetchTypes, Working
<1>6. FetchTypes'
  <2>1. <<>> \in Seq(Int)
    OBVIOUS
  <2> QED
    BY <1>1, <1>3, <1>4, <2>1, SMTT(30) DEF FetchTypes
<1>7. \A s \in Runs : Working(s)' => Working(s)
  BY <1>1, <1>2, <1>4 DEF FetchTypes, Working
<1>8. f \notin shared => position[f] = NoPosition
  BY <1>1, <1>2, <1>3, <1>4 DEF FetchOK
<1>9. FileOK(f)'
  <2>1. OneAtWork(f) => OneAtWork(f)'
    BY <1>1, <1>7 DEF OneAtWork
  <2>2. <<>> = First(0)
    BY DEF First
  <2>3. f \notin shared => CleanFile(f)'
    BY <1>1, <1>5, <1>8, <2>2 DEF CleanFile
  <2>4. f \notin shared => Holds(f, position[f].count)'
    BY <1>1, <1>5, <1>8 DEF NoPosition, Holds
  <2> QED
    BY <1>1, <1>4, <2>1, <2>3, <2>4 DEF FileOK
<1>10. FetchOK(r)'
  <2>1. ASSUME f \notin unclean \cup shared PROVE all[r] = Dataset
    <3>1. all[r] = First(next[r] - 1) /\ next[r] = Pages + 1
      BY <1>1, <1>2, <1>3, <1>4, <2>1 DEF FetchOK, CleanFetch
    <3>2. next[r] - 1 = Pages
      BY <3>1, CheckpointAssumption
    <3> QED
      BY <3>1, <3>2 DEF First, Dataset
  <2> QED
    BY <1>1, <1>3, <1>4, <1>5, <2>1 DEF FetchOK
<1>11. /\ \A s \in Runs \ {r} : fpc'[s] = fpc[s] /\ all'[s] = all[s] /\ saved'[s] = saved[s] /\ next'[s] = next[s]
       /\ \A k \in Runs \ {f} : records'[k] = records[k] /\ position'[k] = position[k]
  BY <1>1, <1>3, <1>4 DEF FetchTypes
<1> QED
  BY <1>1, <1>2, <1>3, <1>6, <1>9, <1>10, <1>11, FetchFrame

\* A fault: the file may keep more, and is then no longer clean.
LEMMA FaultStep ==
    ASSUME FetchInv, NEW r \in Runs, FetchFails(r) \/ SaveFails(r) \/ ClearFails(r) \/ Crash(r)
    PROVE  FetchInv'
<1>1. Working(r) /\ UNCHANGED <<position, key, all, saved, next, shared>>
  BY DEF FetchFails, SaveFails, ClearFails, Crash, Working, history
<1>2. PICK f \in Runs : f = key[r]
  BY <1>1, AtWork
<1>3. /\ \E to \in {"idle", "failed", "fetch", "success"} :
            fpc' = [fpc EXCEPT ![r] = to] /\ (to = "fetch" \/ to = "success" => f \in unclean')
      /\ unclean \subseteq unclean' /\ unclean' \subseteq unclean \cup {f}
      /\ f \notin unclean' => records' = records /\ fpc[r] \in {"fetch", "clear"}
      /\ records' = records \/ \E x \in Leftovers(Delta(r)) : records' = [records EXCEPT ![f] = Glued(@, x)]
  BY <1>1, <1>2, AtWork DEF FetchFails, SaveFails, ClearFails, Crash, Go, history, WorkPcs
<1>4. FetchTypes /\ FetchOK(r) /\ FileOK(f) /\ saved[r] <= Len(all[r]) /\ saved[r] \in Nat /\ Len(all[r]) \in Nat
      /\ all[r] \in Seq(Int) /\ records[f] \in Seq(Int) /\ Len(records[f]) \in Nat /\ position[f].count \in Int
  BY <1>1, <1>2, AtWork DEF FetchInv, FetchOK
<1>5. \A x \in Leftovers(Delta(r)) : x \in Seq(Int)
  <2>1. Delta(r) \in Seq(Int)
    <3>1. saved[r] \in 0..Len(all[r])
      BY <1>4
    <3> QED
      BY <1>4, <3>1, RestIs DEF Delta
  <2>2. \A n \in 0..(Len(Delta(r)) - 1) : SubSeq(Delta(r), 1, n) \in Seq(Int)
    BY <2>1
  <2>3. \A n \in 0..(Len(Delta(r)) - 1) : Append(SubSeq(Delta(r), 1, n), Torn) \in Seq(Int)
    BY <2>2 DEF Torn
  <2> QED
    BY <2>2, <2>3 DEF Leftovers
<1>6. /\ records' \in [Runs -> Seq(Int)]
      /\ Readable(f)' => Readable(f) /\ Len(records'[f]) >= Len(records[f])
  <2>1. CASE records' = records
    BY <1>4, <2>1 DEF FetchTypes, Readable
  <2>2. ASSUME NEW x \in Leftovers(Delta(r)), records' = [records EXCEPT ![f] = Glued(@, x)]
        PROVE  /\ records' \in [Runs -> Seq(Int)]
               /\ Readable(f)' => Readable(f) /\ Len(records'[f]) >= Len(records[f])
    <3>1. x \in Seq(Int) /\ Len(x) \in Nat
      BY <1>5
    <3>2. /\ Glued(records[f], x) \in Seq(Int)
          /\ Decodes(records[f]) => Glued(records[f], x) = records[f] \o x
          /\ Decodes(Glued(records[f], x)) => Decodes(records[f])
      BY <1>4, <3>1, GluedIs
    <3>3. Len(records[f] \o x) = Len(records[f]) + Len(x)
      BY <1>4, <3>1, JoinIs
    <3>4. records' \in [Runs -> Seq(Int)] /\ records'[f] = Glued(records[f], x)
      BY <1>4, <2>2, <3>2 DEF FetchTypes
    <3> QED
      BY <1>4, <3>1, <3>2, <3>3, <3>4 DEF Readable
  <2> QED
    BY <1>3, <2>1, <2>2
<1>7. fpc' \in [Runs -> {"idle", "fetch", "append", "rename", "clear", "clearRecords", "success", "failed"}]
      /\ fpc'[r] \in {"idle", "failed", "fetch", "success"}
      /\ (fpc'[r] \in {"fetch", "success"} => f \in unclean')
  BY <1>3, <1>4 DEF FetchTypes
<1>8. FetchTypes'
  BY <1>1, <1>4, <1>6, <1>7, SMTT(30) DEF FetchTypes
<1>9. \A s \in Runs : Working(s)' => Working(s)
  BY <1>1, <1>3, <1>4 DEF FetchTypes, Working
<1>10. FileOK(f)'
  <2>1. OneAtWork(f) => OneAtWork(f)'
    BY <1>1, <1>9 DEF OneAtWork
  <2>2. f \notin shared => Holds(f, position[f].count)'
    BY <1>1, <1>4, <1>6, <1>8 DEF FileOK, Holds, FetchTypes
  <2>3. ASSUME f \notin unclean' \cup shared PROVE CleanFile(f)'
    <3>1. CleanFile(f) /\ records' = records /\ fpc[r] \in {"fetch", "clear"}
      BY <1>3, <1>4, <2>3 DEF FileOK
    <3>2. \A s \in Runs : fpc[s] \in {"rename", "clearRecords"} => fpc'[s] = fpc[s]
      BY <1>3, <1>4, <3>1 DEF FetchTypes
    <3> QED
      BY <1>1, <3>1, <3>2 DEF CleanFile
  <2> QED
    BY <1>1, <1>4, <2>1, <2>2, <2>3 DEF FileOK
<1>11. FetchOK(r)'
  <2>1. f \notin shared => Holds(f, saved[r])'
    BY <1>1, <1>2, <1>4, <1>6, <1>8 DEF FetchOK, Holds, FetchTypes
  <2>2. fpc'[r] # "rename" /\ fpc'[r] # "clearRecords"
    BY <1>7
  <2>3. Working(r)' \/ fpc'[r] = "success" => f \in unclean'
    BY <1>7 DEF Working
  <2> QED
    BY <1>1, <1>2, <1>4, <2>1, <2>2, <2>3 DEF FetchOK
<1>12. /\ \A s \in Runs \ {r} : fpc'[s] = fpc[s] /\ all'[s] = all[s] /\ saved'[s] = saved[s] /\ next'[s] = next[s]
       /\ \A k \in Runs \ {f} : records'[k] = records[k] /\ position'[k] = position[k]
  <2>1. \A s \in Runs \ {r} : fpc'[s] = fpc[s]
    BY <1>3, <1>4 DEF FetchTypes
  <2>2. \A k \in Runs \ {f} : records'[k] = records[k]
    BY <1>3, <1>4, SMTT(30) DEF FetchTypes
  <2> QED
    BY <1>1, <2>1, <2>2
<1> QED
  BY <1>1, <1>2, <1>3, <1>8, <1>10, <1>11, <1>12, FetchFrame

(* A fetch begins, at a checkpoint or at page one: alone on its files, or  *)
(* these are shared from here on. A clean file whose position is missing   *)
(* has no rows.                                                            *)
LEMMA FetchBeginStep ==
    ASSUME FetchInv, NEW r \in Runs, Begin(r)
    PROVE  FetchInv'
<1>1. /\ fpc[r] = "idle" /\ fpc' = [fpc EXCEPT ![r] = "fetch"] /\ UNCHANGED <<records, position, unclean>>
      /\ shared' = shared \cup {k \in {key'[r]} : \E s \in Runs \ {r} : Working(s) /\ key[s] = k}
  BY DEF Begin, MayBegin, Go
<1>2. FetchTypes /\ \A k \in Runs : records[k] \in Seq(Int) /\ Len(records[k]) \in Nat /\ position[k].count \in Int /\ position[k].next \in Nat
  BY DEF FetchInv, FetchTypes
<1>3. PICK f \in Runs, mine \in Seq(Int), n \in Nat, at \in Nat :
         /\ key' = [key EXCEPT ![r] = f] /\ all' = [all EXCEPT ![r] = mine]
         /\ saved' = [saved EXCEPT ![r] = n] /\ next' = [next EXCEPT ![r] = at]
         /\ \/ Loads(f) /\ n = position[f].count /\ at = position[f].next /\ mine = SubSeq(records[f], 1, n)
            \/ ~Loads(f) /\ n = 0 /\ at = 1 /\ mine = <<>>
  <2>1. ASSUME NEW k \in Runs, Loads(k), StartFrom(r, k)
        PROVE  /\ SubSeq(records[k], 1, position[k].count) \in Seq(Int)
               /\ position[k].count \in Nat /\ position[k].next \in Nat
    <3>1. FileOK(k) /\ position[k] # NoPosition /\ Len(records[k]) >= position[k].count
      BY <2>1 DEF FetchInv, Loads
    <3>2. position[k].count \in Nat
      BY <3>1 DEF FileOK
    <3> QED
      BY <1>2, <3>1, <3>2
  <2>2. \/ \E k \in Runs : Loads(k) /\ StartFrom(r, k)
        \/ ~Loads(r) /\ StartFresh(r)
    BY DEF Begin, Runs
  <2>3. CASE \E k \in Runs : Loads(k) /\ StartFrom(r, k)
    BY <2>1, <2>3 DEF StartFrom
  <2>4. CASE ~Loads(r) /\ StartFresh(r)
    <3>1. <<>> \in Seq(Int)
      OBVIOUS
    <3>2. /\ key' = [key EXCEPT ![r] = r] /\ all' = [all EXCEPT ![r] = <<>>]
          /\ saved' = [saved EXCEPT ![r] = 0] /\ next' = [next EXCEPT ![r] = 1]
      BY <2>4 DEF StartFresh
    <3> QED
      BY <2>4, <3>1, <3>2, Zenon
  <2> QED
    BY <2>2, <2>3, <2>4
<1>4. /\ FetchTypes' /\ key'[r] = f /\ all'[r] = mine /\ saved'[r] = n /\ next'[r] = at /\ fpc'[r] = "fetch"
      /\ \A s \in Runs \ {r} : fpc'[s] = fpc[s] /\ key'[s] = key[s] /\ all'[s] = all[s] /\ saved'[s] = saved[s] /\ next'[s] = next[s]
  BY <1>1, <1>2, <1>3, SMTT(30) DEF FetchTypes
<1>5. /\ shared \subseteq shared'
      /\ f \notin shared' => \A s \in Runs \ {r} : ~(Working(s) /\ key[s] = f)
  BY <1>1, <1>4
<1>6. \A s \in Runs \ {r} : Working(s)' = Working(s)
  BY <1>4 DEF Working
<1>7. ASSUME NEW k \in Runs PROVE FileOK(k)'
  <2>1. FileOK(k)
    BY DEF FetchInv
  <2>2. \A s \in Runs : fpc[s] \in {"rename", "clearRecords"} => fpc'[s] = fpc[s] /\ key'[s] = key[s]
    BY <1>1, <1>4
  <2>3. ASSUME k \notin shared' PROVE OneAtWork(k)'
    <3>1. OneAtWork(k)
      BY <1>5, <2>1, <2>3 DEF FileOK
    <3>2. SUFFICES ASSUME NEW s \in Runs, NEW t \in Runs, Working(s)', Working(t)', key'[s] = k, key'[t] = k
                   PROVE  s = t
      BY DEF OneAtWork
    <3>3. CASE s # r /\ t # r
      BY <1>4, <1>6, <3>1, <3>2, <3>3 DEF OneAtWork
    <3>4. CASE s = r \/ t = r
      BY <1>4, <1>5, <1>6, <2>3, <3>2, <3>4
    <3> QED
      BY <3>3, <3>4
  <2>4. CleanFile(k) => CleanFile(k)'
    BY <1>1, <2>2 DEF CleanFile
  <2> QED
    BY <1>1, <1>5, <2>1, <2>3, <2>4 DEF FileOK, Holds, Readable
<1>8. FetchOK(r)'
  <2>1. ASSUME Loads(f), n = position[f].count, at = position[f].next, mine = SubSeq(records[f], 1, n)
        PROVE  FetchOK(r)'
    <3>1. position[f] # NoPosition /\ Len(records[f]) >= n
      BY <2>1 DEF Loads
    <3>2. Len(mine) = n
      BY <1>2, <2>1, <3>1
    <3>3. ASSUME f \notin unclean \cup shared' PROVE CleanFetch(r)'
      <4>1. CleanFile(f) /\ ~ \E s \in Runs : key[s] = f /\ fpc[s] \in {"rename", "clearRecords"}
        BY <1>1, <1>5, <3>3 DEF FetchInv, FileOK, Working
      <4>2. /\ Len(records[f]) = n /\ records[f] = First(n) /\ at = n + 1 /\ at <= Pages
        BY <2>1, <3>1, <4>1 DEF CleanFile
      <4>3. mine = First(n) /\ at - 1 = n /\ at >= 1
        BY <2>1, <4>2, FirstPart
      <4> QED
        BY <1>1, <1>4, <2>1, <3>1, <4>2, <4>3 DEF CleanFetch
    <3> QED
      BY <1>1, <1>4, <3>1, <3>2, <3>3 DEF FetchOK, Holds
  <2>2. ASSUME ~Loads(f), n = 0, at = 1, mine = <<>>
        PROVE  FetchOK(r)'
    <3>1. Len(mine) = 0 /\ Len(records[f]) >= 0
      BY <1>2, <2>2
    <3>2. ASSUME f \notin unclean \cup shared' PROVE CleanFetch(r)'
      <4>1. CleanFile(f) /\ Holds(f, position[f].count)
        BY <1>5, <3>2 DEF FetchInv, FileOK
      <4>2. Readable(f)
        <5>1. PICK m \in Nat : m = Len(records[f])
          BY <1>2
        <5> QED
          BY <4>1, <5>1, FirstDecodes DEF CleanFile, Readable
      <4>3. position[f] = NoPosition
        BY <2>2, <4>1, <4>2 DEF Loads, Holds
      <4>4. mine = First(0) /\ at - 1 = 0 /\ at >= 1 /\ at <= Pages
        BY <2>2, CheckpointAssumption DEF First
      <4> QED
        BY <1>1, <1>4, <2>2, <4>3, <4>4 DEF CleanFetch
    <3> QED
      BY <1>1, <1>4, <2>2, <3>1, <3>2 DEF FetchOK, Holds
  <2> QED
    BY <1>3, <2>1, <2>2
<1>9. ASSUME NEW s \in Runs, s # r PROVE FetchOK(s)'
  <2>1. FetchOK(s)
    BY DEF FetchInv
  <2>2. CleanFetch(s) => CleanFetch(s)'
    BY <1>1, <1>4, <1>9 DEF CleanFetch
  <2> QED
    BY <1>1, <1>4, <1>5, <1>6, <1>9, <2>1, <2>2 DEF FetchOK, Holds, Readable
<1> QED
  BY <1>4, <1>7, <1>8, <1>9 DEF FetchInv

(* Every step of a fetch keeps the invariant.                              *)
LEMMA FetchStep ==
    ASSUME FetchInv, [Next]_vars
    PROVE  FetchInv'
<1>1. ASSUME UNCHANGED vars PROVE FetchInv'
  <2>1. UNCHANGED <<records, position, fpc, key, all, saved, next, unclean, shared>>
    BY <1>1 DEF vars, fetchVars, history
  <2>2. FetchTypes'
    BY <2>1 DEF FetchInv, FetchTypes
  <2>3. \A k \in Runs : FileOK(k)'
    BY <2>1 DEF FetchInv, FileOK, OneAtWork, CleanFile, Working, Holds, Readable
  <2>4. \A r \in Runs : FetchOK(r)'
    BY <2>1 DEF FetchInv, FetchOK, CleanFetch, Working, Holds, Readable
  <2> QED
    BY <2>2, <2>3, <2>4 DEF FetchInv
<1> QED
  BY <1>1, FetchBeginStep, NextPageStep, AppendStep, RenameStep, ClearPositionStep, ClearRecordsStep, FaultStep DEF Next

(* The invariant holds at the start.                                       *)
LEMMA FetchInit == ASSUME Init PROVE FetchInv
<1>1. FetchTypes
  BY DEF Init, FetchTypes, NoPosition
<1>2. \A k \in Runs : records[k] = <<>> /\ position[k] = NoPosition /\ fpc[k] = "idle" /\ ~Working(k)
                         /\ saved[k] = 0 /\ all[k] = <<>>
  BY DEF Init, Working
<1>3. Len(<<>>) = 0 /\ <<>> = First(0) /\ NoPosition.count = -1
  BY DEF First, NoPosition
<1>4. \A k \in Runs : FileOK(k)
  BY <1>2, <1>3 DEF FileOK, CleanFile, OneAtWork, Holds
<1>5. \A r \in Runs : FetchOK(r)
  BY <1>2, <1>3 DEF FetchOK, Holds
<1> QED
  BY <1>1, <1>4, <1>5 DEF FetchInv
-----------------------------------------------------------------------------
(* The whole                                                               *)

\* A step of the whole is a step of one part, or leaves it alone.
LEMMA PartsStep ==
    ASSUME [MCNext]_allVars
    PROVE  [Next]_vars /\ [Conn!Next]_connVars /\ [Code!Next]_codeVars
  BY DEF MCNext, allVars

(* The three invariants, which share no state.                             *)
ResourcesInv == ConnInv /\ CodeInv /\ FetchInv

(* The invariants hold in every reachable state, for any finite set of     *)
(* nodes, callers and keys, any limits, caps and numbers of attempts, any  *)
(* runs that resume, and any number of pages, of pages between saves, and  *)
(* of faults.                                                              *)
THEOREM ResourcesInvariant == MCSpec => []ResourcesInv
<1>1. MCInit => ResourcesInv
  BY ConnInit, CodeInit, FetchInit DEF MCInit, ResourcesInv
<1>2. ResourcesInv /\ [MCNext]_allVars => ResourcesInv'
  BY PartsStep, ConnStep, CodeStep, FetchStep DEF ResourcesInv
<1> QED
  BY <1>1, <1>2, PTL DEF MCSpec

(* The count that connectionPools.Acquire and its release keep             *)
(* (engine/connection_pool.go) is the number of slots that running         *)
(* handlers hold, and no limit that the connection ever had is exceeded:   *)
(* through edits of the limit, timeouts, cancels, and handlers that        *)
(* outlive their attempt.                                                  *)
THEOREM SlotsAreCounted == MCSpec => []SlotsAreHeld
<1>1. ConnInv => SlotsAreHeld
  BY ConnCardinality DEF ConnInv, SlotsCounted, SlotsAreHeld, Conn!InUseIsHeld
<1> QED
  BY <1>1, ResourcesInvariant, PTL DEF ResourcesInv

(* The runner retries a node only when the handler of the attempt before   *)
(* has returned (engine/runner.go): no two handlers of a node run at once, *)
(* and none runs on when the node has succeeded.                           *)
THEOREM AttemptsDoNotOverlap == MCSpec => []OneHandlerPerNode
<1>1. ASSUME ConnInv, NEW n \in Nodes
      PROVE  Conn!Cardinality(Conn!Running(n)) <= IF pc[n] = "success" THEN 0 ELSE 1
  <2>1. AttemptOK(n) /\ attempt[n] \in 0..MaxRetries /\ MaxRetries \in Nat
    BY <1>1, ResourcesAssumption DEF ConnInv, Conn!Attempts
  <2>2. \A a \in Conn!Running(n) : a = attempt[n] /\ pc[n] # "success"
    BY <2>1 DEF AttemptOK, Conn!Running, Conn!Attempts
  <2>3. CASE pc[n] = "success"
    <3>1. Conn!Running(n) = {}
      BY <2>2, <2>3
    <3>2. Cardinality(Conn!Running(n)) = 0
      BY <3>1, FS_EmptySet
    <3> QED
      BY <2>3, <3>2, ConnCardinality
  <2>4. CASE pc[n] # "success"
    <3>1. Conn!Running(n) \in SUBSET {attempt[n]}
      BY <2>2
    <3>2. IsFiniteSet({attempt[n]}) /\ Cardinality({attempt[n]}) = 1
      BY FS_Singleton
    <3>3. Cardinality(Conn!Running(n)) <= 1
      BY <3>1, <3>2, FS_Subset
    <3> QED
      BY <2>4, <3>3, ConnCardinality
  <2> QED
    BY <2>3, <2>4
<1>2. ConnInv => OneHandlerPerNode
  BY <1>1 DEF OneHandlerPerNode, Conn!OneHandler
<1> QED
  BY <1>2, ResourcesInvariant, PTL DEF ResourcesInv

(* Pool.total (pkg/codeexec/pool.go) is the number of workers that are     *)
(* idle, at work or being spawned, and never over the cap, through failed  *)
(* spawns, breaches, retirements, the reaper and callers that give up; a   *)
(* closed pool has no idle worker and nobody in its queue.                 *)
THEOREM WorkersAreAccountedFor == MCSpec => []WorkersAreCounted
<1>1. Code!IdleCount = Cardinality(Idle)
  BY CodeCardinality DEF Code!IdleCount, Idle
<1>2. CodeInv => Code!CountIsExact
  BY <1>1, CodeCardinality DEF CodeInv, WorkersCounted, Code!CountIsExact
<1>3. ASSUME CodeInv PROVE Code!ClosedPoolIsEmpty
  <2>1. CASE closed
    <3>1. Idle = {}
      BY <1>3, <2>1 DEF CodeInv, Idle
    <3>2. Cardinality({}) = 0
      BY FS_EmptySet
    <3> QED
      BY <1>1, <1>3, <3>1, <3>2 DEF CodeInv, Code!ClosedPoolIsEmpty
  <2> QED
    BY <2>1 DEF Code!ClosedPoolIsEmpty
<1>4. CodeInv => WorkersAreCounted
  BY <1>2, <1>3 DEF WorkersAreCounted
<1> QED
  BY <1>4, ResourcesInvariant, PTL DEF ResourcesInv

(* A fetch that succeeds has every page once and in order, and a file that *)
(* can be read has the rows that its position counts                       *)
(* (engine/pagination_checkpoint_store.go), through retries, torn saves,   *)
(* crashes and resumes, under the conditions that FetchIsExact names.      *)
THEOREM FetchesAreExact == MCSpec => []FetchIsExact
<1>1. FetchInv => ResultIsExact
  BY DEF FetchInv, FetchOK, ResultIsExact
<1>2. FetchInv => PositionIsCovered
  BY DEF FetchInv, FileOK, PositionIsCovered, Holds
<1>3. FetchInv => FetchIsExact
  BY <1>1, <1>2 DEF FetchIsExact
<1> QED
  BY <1>3, ResourcesInvariant, PTL DEF ResourcesInv
=============================================================================

--------------------------- MODULE MCNodeResources ---------------------------
(* What the handler of a node draws on: a slot of its connection           *)
(* (ConnectionPool), a warm interpreter (CodePool), the checkpoint of an   *)
(* earlier fetch (PaginationCheckpoint). They share no state: a behaviour  *)
(* is about one of them, its part, and the others stay where they started. *)
EXTENDS PaginationCheckpoint

CONSTANTS Nodes, Limits, MaxRetries
CONSTANTS Execs, Keys, MaxWorkers, MaxExecs, MaxWaiters, Gone

ASSUME ResourcesAssumption ==
    /\ IsFiniteSet(Nodes) /\ Limits \subseteq Nat /\ MaxRetries \in Nat
    /\ IsFiniteSet(Execs) /\ IsFiniteSet(Keys) /\ Gone \notin Execs
    /\ {MaxWorkers, MaxExecs} \subseteq Nat

VARIABLES
    part,
    limit, highest, inUse, pc, attempt, lim, expired, cancelled, alarm, handler, slot,
    queueAtCap, subPool, total, idle, waiters, closed, tpc, worker, gaveUp

Conn == INSTANCE ConnectionPool
Code == INSTANCE CodePool

connVars == <<limit, highest, inUse, pc, attempt, lim, expired, cancelled, alarm, handler, slot>>
codeVars == <<queueAtCap, subPool, total, idle, waiters, closed, tpc, worker, gaveUp>>
allVars == <<part, vars, connVars, codeVars>>

\* The parts that a behaviour is not about start in one way only.
MCInit ==
    /\ part \in {"fetch", "conn", "code"} /\ Init /\ Conn!Init /\ Code!Init
    /\ part # "conn" => limit = (CHOOSE l \in Limits : TRUE)
    /\ part # "code" => ~queueAtCap /\ \A e \in Execs : subPool[e] = (CHOOSE k \in Keys : TRUE)

MCNext ==
    \/ part = "fetch" /\ Next /\ UNCHANGED <<part, connVars, codeVars>>
    \/ part = "conn" /\ Conn!Next /\ UNCHANGED <<part, vars, codeVars>>
    \/ part = "code" /\ Code!Next /\ UNCHANGED <<part, vars, connVars>>

\* The fairness of ConnectionPool and of CodePool.
MCSpec ==
    /\ MCInit /\ [][MCNext]_allVars
    /\ \A n \in Nodes :
          /\ WF_allVars(part = "conn" /\ Conn!Runner(n) /\ UNCHANGED <<part, vars, codeVars>>)
          /\ WF_allVars(part = "conn" /\ Conn!AlarmRings(n) /\ UNCHANGED <<part, vars, codeVars>>)
          /\ WF_allVars(part = "conn" /\ Conn!Expire(n) /\ UNCHANGED <<part, vars, codeVars>>)
    /\ \A n \in Nodes, a \in 0..MaxRetries :
          WF_allVars(part = "conn" /\ Conn!Release(n, a) /\ UNCHANGED <<part, vars, codeVars>>)
    /\ \A e \in Execs :
          /\ WF_allVars(part = "code" /\ Code!Acquire(e) /\ UNCHANGED <<part, vars, connVars>>)
          /\ WF_allVars(part = "code" /\ Code!Finish(e) /\ UNCHANGED <<part, vars, connVars>>)
-----------------------------------------------------------------------------
(* Of PaginationCheckpoint. ResultIsExact: a resumed fetch has every       *)
(* record once. PositionIsCovered: a file that can be read has the rows    *)
(* that its position counts.                                               *)
FetchIsExact == ResultIsExact /\ PositionIsCovered

(* InUseIsHeld of ConnectionPool: the slots in use are those that running  *)
(* handlers hold, and no more of them are out than any limit allowed.      *)
SlotsAreHeld == Conn!InUseIsHeld

(* OneHandler of ConnectionPool: no two attempts of a node run at once.    *)
OneHandlerPerNode == Conn!OneHandler

(* Of CodePool. CountIsExact: the count is the workers there are.          *)
(* ClosedPoolIsEmpty: no worker outlives the pool.                         *)
WorkersAreCounted == Code!CountIsExact /\ Code!ClosedPoolIsEmpty

(* EndsUnlessPoolIsFull of ConnectionPool: no wakeup is lost, and a cancel *)
(* ends a wait. CallerGoesOn of CodePool: nobody waits by default, and     *)
(* nobody is left waiting in the queue.                                    *)
NodesAndCallersGoOn == (part = "conn" => Conn!EndsUnlessPoolIsFull) /\ Code!CallerGoesOn
=============================================================================

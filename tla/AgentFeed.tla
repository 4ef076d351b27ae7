------------------------------ MODULE AgentFeed ------------------------------
(***************************************************************************)
(* The feed of an agent (src/api/agent_trigger_deliveries.go, feed in      *)
(* src/api/agent_triggers_handlers.go): the deliveries that wait for the   *)
(* agent to read them, in the order of the instant and the id they were    *)
(* recorded with. The agent passes back the position it has read to, which *)
(* acknowledges everything up to there. Deliveries come from the matching  *)
(* passes of the dispatcher and from events raised on any replica          *)
(* (src/api/agent_trigger_raise.go); each of them reads its clock once,    *)
(* and records its deliveries later.                                       *)
(***************************************************************************)
EXTENDS Naturals, FiniteSets

CONSTANTS
    Writers,        \* matching passes and raised events
    Makes,          \* the deliveries each of them records
    PageSize        \* the limit of a read

Deliveries == UNION {Makes[w] : w \in Writers}

VARIABLES
    clock,      \* how many writers have read the clock
    stamp,      \* what each of them read, or 0
    made,       \* how many delivery ids have been drawn
    pos,        \* the position of each delivery: <<created_at, id>>
    state,      \* agent_trigger_deliveries.status
    readTo,     \* the position the agent has read to
    asked,      \* whether its acknowledgement is in and its page is being read
    page,       \* the page the handler is answering with
    got,        \* history: the deliveries that the agent was handed
    inverted    \* history: a delivery was recorded before the position of an older one

writeVars == <<clock, stamp, made>>
readVars == <<readTo, asked, page>>
vars == <<writeVars, pos, state, readVars, got, inverted>>

Start == <<0, 0>>
Before(p, q) == p[1] < q[1] \/ (p[1] = q[1] /\ p[2] < q[2])

TypeOK ==
    /\ clock \in 0..Cardinality(Writers) /\ stamp \in [Writers -> 0..Cardinality(Writers)]
    /\ made \in 0..Cardinality(Deliveries)
    /\ pos \in [Deliveries -> (0..Cardinality(Writers)) \X (0..Cardinality(Deliveries))]
    /\ \A d \in Deliveries : state[d] # "none" => pos[d][1] \in 1..clock
    /\ state \in [Deliveries -> {"none", "pending", "delivered", "skipped", "expired"}]
    /\ asked \in BOOLEAN /\ page \subseteq Deliveries
    /\ readTo \in {Start} \cup {pos[d] : d \in Deliveries}
    /\ got \subseteq Deliveries /\ inverted \in BOOLEAN

Init ==
    /\ clock = 0 /\ stamp = [w \in Writers |-> 0] /\ made = 0
    /\ pos = [d \in Deliveries |-> Start]
    /\ state = [d \in Deliveries |-> "none"]
    /\ readTo = Start /\ asked = FALSE /\ page = {}
    /\ got = {} /\ inverted = FALSE
-----------------------------------------------------------------------------
(* The writers *)

\* now := d.now()
ReadClock(w) ==
    /\ stamp[w] = 0
    /\ clock' = clock + 1
    /\ stamp' = [stamp EXCEPT ![w] = clock + 1]
    /\ UNCHANGED <<made, pos, state, readVars, got, inverted>>

\* Faulty variant: ids that do not sort in the order they are drawn.
NewIdUnsorted == Cardinality(Deliveries) - made

\* newDeliveryID
NewId == made + 1

MayRecord(w, d) == stamp[w] > 0 /\ d \in Makes[w] /\ state[d] = "none"

\* Enqueue of one delivery: its position has the clock the writer read before.
Record(w, d) ==
    /\ MayRecord(w, d)
    /\ made' = made + 1
    /\ pos' = [pos EXCEPT ![d] = <<stamp[w], NewId>>]
    /\ state' = [state EXCEPT ![d] = "pending"]
    /\ inverted' = (inverted \/ \E e \in Deliveries : state[e] # "none" /\ pos[e][1] > stamp[w])
    /\ UNCHANGED <<clock, stamp, readVars, got>>

\* ExpireFeed: what was recorded before some instant and is still unread.
ExpireFeed ==
    \E t \in 1..clock :
        LET old == {d \in Deliveries : state[d] = "pending" /\ pos[d][1] < t}
        IN  /\ old # {}
            /\ state' = [d \in Deliveries |-> IF d \in old THEN "expired" ELSE state[d]]
            /\ UNCHANGED <<writeVars, pos, readVars, got, inverted>>
-----------------------------------------------------------------------------
(* The agent reads: GET /api/agents/me/events?after=cursor *)

\* Faulty variant: the position itself is not acknowledged.
UpToBefore(d) == Before(pos[d], readTo)

\* created_at < ? OR (created_at = ? AND id <= ?)
UpTo(d) == ~Before(readTo, pos[d])

\* FeedAcknowledge
Acknowledge ==
    /\ ~asked
    /\ asked' = TRUE
    /\ state' = [d \in Deliveries |->
                  IF readTo # Start /\ state[d] = "pending" /\ UpTo(d) THEN "delivered" ELSE state[d]]
    /\ UNCHANGED <<writeVars, pos, readTo, page, got, inverted>>

\* The deliveries that wait behind the cursor, at most PageSize of them, oldest first.
Pending == {d \in Deliveries : state[d] = "pending" /\ Before(readTo, pos[d])}
Page == {d \in Pending : Cardinality({e \in Pending : Before(pos[e], pos[d])}) < PageSize}

\* FeedPending; what the agent may not see any more is skipped (feedRefusal).
ReadPage ==
    /\ asked /\ page = {} /\ Page # {}
    /\ page' = Page
    /\ \E refused \in SUBSET Page :
          state' = [d \in Deliveries |-> IF d \in refused THEN "skipped" ELSE state[d]]
    /\ UNCHANGED <<writeVars, pos, readTo, asked, got, inverted>>

\* The answer arrives; the cursor is the position of its last delivery.
Receive ==
    /\ page # {}
    /\ got' = got \cup page
    /\ readTo' = pos[CHOOSE d \in page : \A e \in page : ~Before(pos[d], pos[e])]
    /\ page' = {} /\ asked' = FALSE
    /\ UNCHANGED <<writeVars, pos, state, inverted>>

\* The answer is empty, or it is lost on its way.
ReceiveNothing ==
    /\ asked
    /\ page # {} \/ Page = {}
    /\ page' = {} /\ asked' = FALSE
    /\ UNCHANGED <<writeVars, pos, state, readTo, got, inverted>>
-----------------------------------------------------------------------------
Read == Acknowledge \/ ReadPage \/ Receive \/ ReceiveNothing

Next ==
    \/ \E w \in Writers : ReadClock(w) \/ \E d \in Deliveries : Record(w, d)
    \/ Read \/ ExpireFeed

Spec == Init /\ [][Next]_vars

\* The agent keeps reading, and an answer gets through now and then.
Fairness == WF_vars(Read) /\ SF_vars(Receive)
FairSpec == Spec /\ Fairness
-----------------------------------------------------------------------------
(* Properties *)

(* "an event the agent did not get to comes back on the next read": a      *)
(* delivery is marked as delivered only if the agent was handed it, even   *)
(* if answers are lost and pages are short, unless some delivery was       *)
(* recorded with an instant before that of one recorded earlier.           *)
DeliveredWasHanded ==
    \A d \in Deliveries : (state[d] = "delivered" /\ ~inverted) => d \in got

(* The feed drains: nothing waits for ever for an agent that keeps         *)
(* reading.                                                                *)
FeedDrains == []<>(\A d \in Deliveries : state[d] # "pending")
-----------------------------------------------------------------------------
(* Stated by the code, and refuted by TLC. *)

(* newDeliveryID sorts its ids because "a random id could put a later      *)
(* delivery before a cursor an agent already passed, where it would never  *)
(* be read" (api/agent_trigger_deliveries.go:29). The instant comes first  *)
(* in a position, and it is read before the deliveries are recorded: an    *)
(* event raised during a matching pass gets the later instant and is read  *)
(* first, and what the pass then records is acknowledged unread.           *)
EveryDeliveredWasHanded == \A d \in Deliveries : state[d] = "delivered" => d \in got
=============================================================================

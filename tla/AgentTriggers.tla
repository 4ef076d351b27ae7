---------------------------- MODULE AgentTriggers ----------------------------
(***************************************************************************)
(* The trigger dispatcher (src/api/agent_trigger_dispatch.go,              *)
(* src/api/agent_trigger_deliveries.go, src/store/run_event_scan.go): each *)
(* pass of the leader reads the log of run events from a cursor, records a *)
(* delivery for each event a trigger wants, moves the cursor, and posts    *)
(* the deliveries that are due. The ids of events are drawn before their   *)
(* transactions commit, so a recent margin is read again on every pass.    *)
(*                                                                         *)
(* One webhook trigger, and events of one type about one pipeline. Time is *)
(* relative: the ages of events and deliveries. An instance that lost the  *)
(* lead finishes its pass, so two passes can overlap. Left out: test       *)
(* events, redelivery by hand, pruning, and the limits of a batch, which   *)
(* is taken to hold what there is.                                         *)
(***************************************************************************)
EXTENDS Naturals, FiniteSets

CONSTANTS
    Dispatchers,    \* the instances that may lead
    MaxEvents,      \* bound: ids of events
    RunOf,          \* the run of each event
    Margin,         \* recentMargin
    MaxOpen,        \* bound: how long an event's transaction stays open
    Cooldown,       \* the trigger's cooldown
    Window,         \* retryWindow
    MaxMishaps,     \* bound: deaths, statements that fail, and the trigger's removal
    MayStall        \* whether a unit of time may pass without a whole match

Ids == 1..MaxEvents
Runs == {RunOf[i] : i \in Ids}

VARIABLES
    ev,         \* run_events, by id
    age,        \* how old each is, up to Margin + 1
    cursor,     \* agent_trigger_cursor.last_event_id
    del,        \* agent_trigger_deliveries.status, by run
    dage,       \* how long ago the delivery was recorded
    wait,       \* how long until its next attempt
    present,    \* whether the trigger has its row
    ticked,     \* the dispatchers whose ticker has fired in this unit of time
    dpc,        \* where each dispatcher is
    batch,      \* the events its match has yet to look at
    high,       \* the highest id it has read
    due,        \* the deliveries its send has yet to post
    post,       \* the delivery it is posting, and what the receiver answered
    mishaps,    \* how many of these there have been
    fresh,      \* history: a match was made since time last passed
    considered, \* history: the events that Enqueue has been called with
    passedOver, \* history: others, whose run or pipeline could not be read
    overlap     \* history: two dispatchers have been sending at a time

log == <<ev, age>>
rows == <<cursor, del, dage, wait, present>>
pass == <<ticked, dpc, batch, high, due, post>>
asked == <<considered, passedOver>>
vars == <<log, rows, pass, mishaps, fresh, asked, overlap>>

Finished == {"delivered", "failed", "skipped"}
Old == IF Cooldown > Window THEN Cooldown ELSE Window

TypeOK ==
    /\ ev \in [Ids -> {"none", "open", "done", "aborted"}]
    /\ age \in [Ids -> 0..(Margin + 1)]
    /\ cursor \in 0..MaxEvents
    /\ del \in [Runs -> Finished \cup {"none", "pending"}]
    /\ dage \in [Runs -> 0..Old] /\ wait \in [Runs -> 0..1] /\ present \in BOOLEAN
    /\ ticked \subseteq Dispatchers
    /\ dpc \in [Dispatchers -> {"idle", "matching", "matched", "send", "sending", "posting"}]
    /\ batch \in [Dispatchers -> SUBSET Ids]
    /\ \A d \in Dispatchers : dpc[d] = "matching" <=> batch[d] # {}
    /\ high \in [Dispatchers -> 0..MaxEvents]
    /\ due \in [Dispatchers -> SUBSET Runs]
    /\ \A d \in Dispatchers : post[d] \in (Runs \X {"ok", "bad"}) \cup {<<>>}
    /\ mishaps \in 0..MaxMishaps /\ fresh \in BOOLEAN
    /\ considered \subseteq Ids /\ passedOver \subseteq Ids /\ overlap \in BOOLEAN

Init ==
    /\ ev = [i \in Ids |-> "none"] /\ age = [i \in Ids |-> 0]
    /\ cursor = 0
    /\ del = [r \in Runs |-> "none"]
    /\ dage = [r \in Runs |-> 0] /\ wait = [r \in Runs |-> 0] /\ present = TRUE
    /\ ticked = {} /\ dpc = [d \in Dispatchers |-> "idle"]
    /\ batch = [d \in Dispatchers |-> {}] /\ high = [d \in Dispatchers |-> 0]
    /\ due = [d \in Dispatchers |-> {}]
    /\ post = [d \in Dispatchers |-> <<>>]
    /\ mishaps = 0 /\ fresh = FALSE
    /\ considered = {} /\ passedOver = {} /\ overlap = FALSE

Go(d, to) == dpc' = [dpc EXCEPT ![d] = to]
Mishap == mishaps < MaxMishaps /\ mishaps' = mishaps + 1
-----------------------------------------------------------------------------
(* The log *)

\* An event draws its id; ids are drawn in order.
Draw(i) ==
    /\ ev[i] = "none" /\ \A j \in Ids : j < i => ev[j] # "none"
    /\ ev' = [ev EXCEPT ![i] = "open"]
    /\ UNCHANGED <<age, rows, pass, mishaps, fresh, asked, overlap>>

\* Its transaction ends, and only then can anybody read it.
Commit(i) ==
    /\ ev[i] = "open"
    /\ \E to \in {"done", "aborted"} : ev' = [ev EXCEPT ![i] = to]
    /\ UNCHANGED <<age, rows, pass, mishaps, fresh, asked, overlap>>
-----------------------------------------------------------------------------
(* match *)

\* Faulty variant: nothing below the cursor is read again.
ScannedAbove(i) == ev[i] = "done" /\ i > cursor

\* ScanRunEvents: above the cursor, or recent.
Scanned(i) == ev[i] = "done" /\ (i > cursor \/ age[i] <= Margin)

Newest(S) == CHOOSE s \in S : \A t \in S : t <= s

AfterScan(seen) == IF seen = {} THEN "send" ELSE IF present THEN "matching" ELSE "matched"

(* The ticker fires: the cursor, the events and the triggers are read, if  *)
(* the instance leads at that moment. With no event the match is over, and *)
(* with no trigger there is only the cursor left to move.                  *)
BeginPass(d) ==
    LET seen == {i \in Ids : Scanned(i)}
    IN  /\ dpc[d] = "idle" /\ d \notin ticked
        /\ ticked' = ticked \cup {d}
        /\ Go(d, AfterScan(seen))
        /\ batch' = [batch EXCEPT ![d] = IF present THEN seen ELSE {}]
        /\ high' = [high EXCEPT ![d] = IF seen = {} THEN 0 ELSE Newest(seen \cup {cursor})]
        /\ fresh' = (fresh \/ seen = {})
        /\ UNCHANGED <<log, rows, due, post, mishaps, asked, overlap>>

\* Another run's delivery is recent enough to hold this one back.
HeldBack(r) == \E s \in Runs \ {r} : del[s] # "none" /\ dage[s] < Cooldown

\* Faulty variant: a delivery that is there is recorded over.
RecordsAgain(r) == ~HeldBack(r)

\* Enqueue inserts unless the run has its delivery already (ON CONFLICT DO NOTHING).
Records(r) == ~HeldBack(r) /\ del[r] = "none"

\* The events are gone through in the order of their ids.
Upcoming(d) == CHOOSE x \in batch[d] : \A y \in batch[d] : x <= y

\* The event i is dealt with.
Takes(d, i) ==
    /\ batch' = [batch EXCEPT ![d] = @ \ {i}]
    /\ Go(d, IF batch[d] = {i} THEN "matched" ELSE "matching")

(* The trigger is the one that was read with the events, gone meanwhile or *)
(* not.                                                                    *)
Enqueue(d) ==
    /\ dpc[d] = "matching"
    /\ LET i == Upcoming(d)
           new == {r \in {RunOf[i]} : Records(r)}
       IN  /\ Takes(d, i)
           /\ considered' = considered \cup {i} /\ passedOver' = passedOver \ {i}
           /\ del' = [r \in Runs |-> IF r \in new THEN "pending" ELSE del[r]]
           /\ dage' = [r \in Runs |-> IF r \in new THEN 0 ELSE dage[r]]
           /\ wait' = [r \in Runs |-> IF r \in new THEN 0 ELSE wait[r]]
    /\ UNCHANGED <<log, cursor, present, high, due, post, ticked, mishaps, fresh, overlap>>

\* SetCursor: never back.
SetCursor(d) == cursor' = IF high[d] > cursor THEN high[d] ELSE cursor

MoveCursor(d) ==
    /\ dpc[d] = "matched"
    /\ SetCursor(d)
    /\ high' = [high EXCEPT ![d] = 0]
    /\ fresh' = TRUE
    /\ Go(d, "send")
    /\ UNCHANGED <<log, del, dage, wait, present, batch, due, post, mishaps, ticked, asked, overlap>>
-----------------------------------------------------------------------------
(* send *)

\* Due: what is pending and may be tried, of a trigger that is still there.
ReadDue(d) ==
    /\ dpc[d] = "send"
    /\ due' = [due EXCEPT ![d] = {r \in Runs : present /\ del[r] = "pending" /\ wait[r] = 0}]
    /\ Go(d, "sending")
    /\ overlap' = (overlap \/ \E e \in Dispatchers \ {d} : dpc[e] \in {"sending", "posting"})
    /\ UNCHANGED <<log, rows, batch, high, post, ticked, mishaps, fresh, asked>>

EndPass(d) ==
    /\ dpc[d] = "sending" /\ due[d] = {}
    /\ Go(d, "idle")
    /\ UNCHANGED <<log, rows, batch, high, due, post, ticked, mishaps, fresh, asked, overlap>>

(* deliver: the receiver answers well, badly, or not at all; or it handles *)
(* the event and its answer is lost.                                       *)
Post(d) ==
    /\ dpc[d] = "sending" /\ present
    /\ \E r \in due[d], a \in {"ok", "bad"} :
          /\ post' = [post EXCEPT ![d] = <<r, a>>]
          /\ due' = [due EXCEPT ![d] = @ \ {r}]
    /\ Go(d, "posting")
    /\ UNCHANGED <<log, rows, batch, high, ticked, mishaps, fresh, asked, overlap>>

(* deliver reads the trigger again: it is disabled, cannot be read or was  *)
(* removed since Due, or its agent may not see the pipeline any more.      *)
Skip(d) ==
    /\ dpc[d] = "sending"
    /\ \E r \in due[d] :
          /\ del' = [del EXCEPT ![r] = "skipped"]
          /\ due' = [due EXCEPT ![d] = @ \ {r}]
    /\ UNCHANGED <<log, cursor, dage, wait, present, dpc, batch, high, post, ticked, mishaps, fresh, asked, overlap>>

\* Faulty variant: there is no end to the retries.
OutcomeForever(r, a) == IF a = "ok" THEN "delivered" ELSE "pending"

\* The window is that of the attempt: a delivery older than it is given up.
Outcome(r, a) ==
    IF a = "ok" THEN "delivered" ELSE IF dage[r] >= Window THEN "failed" ELSE "pending"

\* RecordAttempt, whatever the row says by now.
RecordAttempt(d) ==
    /\ dpc[d] = "posting"
    /\ LET r == post[d][1]
           outcome == Outcome(r, post[d][2])
       IN  /\ del' = [del EXCEPT ![r] = outcome]
           /\ wait' = [wait EXCEPT ![r] = IF outcome = "pending" THEN 1 ELSE 0]
    /\ post' = [post EXCEPT ![d] = <<>>]
    /\ Go(d, "sending")
    /\ UNCHANGED <<log, cursor, dage, present, batch, high, due, ticked, mishaps, fresh, asked, overlap>>
-----------------------------------------------------------------------------
(* Faults and time *)

(* GetRun, GetPipeline or followsAFailure's list fails: match goes on with *)
(* the next event, and the cursor will pass this one.                      *)
PassOver(d) ==
    /\ dpc[d] = "matching" /\ Mishap
    /\ Takes(d, Upcoming(d))
    /\ passedOver' = passedOver \cup ({Upcoming(d)} \ considered)
    /\ UNCHANGED <<log, rows, ticked, high, due, post, fresh, considered, overlap>>

(* Another statement of match fails: the pass goes on to send, and the     *)
(* cursor stays.                                                           *)
MatchFails(d) ==
    /\ dpc[d] \in {"matching", "matched"} /\ Mishap
    /\ ticked' = ticked \ {d}
    /\ batch' = [batch EXCEPT ![d] = {}] /\ high' = [high EXCEPT ![d] = 0]
    /\ Go(d, "send")
    /\ UNCHANGED <<log, rows, due, post, fresh, asked, overlap>>

Crash(d) ==
    /\ dpc[d] # "idle" /\ Mishap
    /\ ticked' = ticked \ {d}
    /\ Go(d, "idle")
    /\ batch' = [batch EXCEPT ![d] = {}] /\ high' = [high EXCEPT ![d] = 0]
    /\ due' = [due EXCEPT ![d] = {}] /\ post' = [post EXCEPT ![d] = <<>>]
    /\ UNCHANGED <<log, rows, fresh, asked, overlap>>

\* TriggerStore.Delete removes the trigger, and not its deliveries.
DeleteTrigger ==
    /\ present /\ Mishap
    /\ present' = FALSE
    /\ UNCHANGED <<log, cursor, del, dage, wait, pass, fresh, asked, overlap>>

Matching == \E d \in Dispatchers : dpc[d] \in {"matching", "matched"}
Older(n, bound) == IF n < bound THEN n + 1 ELSE bound

TimePasses ==
    /\ \A i \in Ids : ev[i] = "open" => age[i] < MaxOpen
    /\ MayStall \/ (fresh /\ ~Matching)
    /\ fresh' = FALSE /\ ticked' = {}
    /\ age' = [i \in Ids |-> IF ev[i] = "none" THEN 0 ELSE Older(age[i], Margin + 1)]
    /\ dage' = [r \in Runs |-> IF del[r] = "none" THEN 0 ELSE Older(dage[r], Old)]
    /\ wait' = [r \in Runs |-> 0]
    /\ UNCHANGED <<ev, cursor, del, present, dpc, batch, high, due, post, mishaps, asked, overlap>>
-----------------------------------------------------------------------------
PassStep(d) ==
    \/ BeginPass(d) \/ Enqueue(d) \/ MoveCursor(d)
    \/ ReadDue(d) \/ Post(d) \/ Skip(d) \/ RecordAttempt(d) \/ EndPass(d)

Next ==
    \/ \E i \in Ids : Draw(i) \/ Commit(i)
    \/ \E d \in Dispatchers : PassStep(d) \/ PassOver(d) \/ MatchFails(d) \/ Crash(d)
    \/ DeleteTrigger
    \/ TimePasses

Spec == Init /\ [][Next]_vars

(* The leader's ticker fires, time passes, a transaction ends. Nothing is  *)
(* assumed of new events, of faults, or of what receivers answer.          *)
Fairness ==
    /\ \A d \in Dispatchers : WF_vars(PassStep(d))
    /\ \A i \in Ids : WF_vars(Commit(i))
    /\ WF_vars(TimePasses)

FairSpec == Spec /\ Fairness
-----------------------------------------------------------------------------
(* Properties *)

(* No event slips below the cursor unread: once an event is committed, the *)
(* cursor past it, and the margin past it too, the trigger was asked,      *)
(* whatever commits in whatever order, fails or dies. MayStall = FALSE:    *)
(* there is a whole match in every unit of time. Excepted are an event     *)
(* whose run or pipeline could not be read (divergence 28), and a trigger  *)
(* that is gone.                                                           *)
NoEventIsMissed ==
    present => \A i \in Ids :
        (ev[i] = "done" /\ i <= cursor /\ age[i] > Margin) => i \in considered \cup passedOver

(* A delivery that is finished stays finished, though its event is read    *)
(* again on every pass of the margin and again after a crash, unless two   *)
(* dispatchers have been sending at the same time.                         *)
FinishedStays ==
    [][\A r \in Runs : (del[r] \in Finished /\ ~overlap) => del'[r] = del[r]]_vars

(* In the end every committed event has been asked about, and every        *)
(* delivery is delivered, skipped or given up, however its receiver        *)
(* behaves; with the same exceptions (divergences 28 and 29).              *)
DeliveriesEnd ==
    <>[](present => /\ \A i \in Ids : ev[i] = "done" => i \in considered \cup passedOver
                    /\ \A r \in Runs : del[r] # "pending")
-----------------------------------------------------------------------------
(* Stated by the code, and refuted by TLC. *)

(* NoEventIsMissed with MayStall = TRUE: "recentMargin is re-read on every *)
(* pass, below the cursor too: ... a slow transaction can commit an id     *)
(* lower than one already read" (api/agent_trigger_dispatch.go:40). A pass *)
(* that posts to receivers that hang takes 20 times 10 seconds, which is   *)
(* longer than the margin of two minutes, and so does a change of leader.  *)

(* FinishedStays without its condition: the answer of a leader that was    *)
(* deposed while it posted is recorded over the one of its successor, and  *)
(* a delivered event goes out again.                                       *)
DeliveredStays ==
    [][\A r \in Runs : del[r] = "delivered" => del'[r] = "delivered"]_vars

(* "match turns the run events since the cursor into deliveries"           *)
(* (api/agent_trigger_dispatch.go:249): NoEventIsMissed without its first  *)
(* exception. One failed read of a run at the last pass within the margin, *)
(* or at the first after a gap, loses the event.                           *)
EveryEventIsConsidered ==
    present => \A i \in Ids : (ev[i] = "done" /\ i <= cursor /\ age[i] > Margin) => i \in considered

(* "the trigger was removed" (api/agent_trigger_dispatch.go:433), the      *)
(* reason that deliver skips with: the pending deliveries of a trigger     *)
(* that was removed come to an end. Due does not read them any more.       *)
RemovedAreSkipped == ~present ~> \A r \in Runs : del[r] # "pending"
=============================================================================

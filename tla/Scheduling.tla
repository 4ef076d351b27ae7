------------------------------ MODULE Scheduling ------------------------------
(***************************************************************************)
(* The scheduler (src/engine/scheduler.go) on several instances, composed  *)
(* with the leadership they are given: the cron entry of one pipeline, its  *)
(* ticks and their callbacks, the periodic re-registration, the catch-up   *)
(* at boot, and the runs they dispatch (RunPipelineOpts in                 *)
(* src/engine/engine.go, the unique index on scheduled runs).              *)
(*                                                                         *)
(* Ticks are numbered; slice s is the interval that ends at tick s. Left   *)
(* out: time zones, pipelines that are disabled or rescheduled, dispatches *)
(* without an interval, and the lookback of a year.                        *)
(***************************************************************************)
EXTENDS Leadership

CONSTANTS
    MaxSlots,       \* bound: ticks of the schedule
    MaxCatchUp,     \* catchUpMaxIntervals
    MaxBoots,       \* bound: how often a process starts
    Mishaps         \* which may happen: a tick while a callback is "late" or an entry
                    \* is in "sync", a dispatch that is an "error"

ASSUME SchedulingAssumption == {MaxSlots, MaxBoots} \subseteq Nat /\ MaxCatchUp \in Nat \ {0}

VARIABLES
    catchup,    \* Pipeline.Catchup
    slot,       \* the number of the latest tick
    started,    \* whether Scheduler.Start has run in each process
    registered, \* whether its cron has the entry
    prev,       \* the entry's Prev, 0 if it has not fired
    jobs,       \* the callbacks that cron has launched
    todo,       \* the slices its catch-up still has to dispatch
    runs,       \* how many scheduled runs each slice has: 0 or 1
    lastStart,  \* the latest tick before the newest run started, -1 if there is none
    boots,      \* how often a process has started
    owed,       \* history: the slices that an instance led to and must dispatch
    promised,   \* history: the slices that a catch-up has set out to dispatch
    failed      \* history: the slices whose dispatch has failed in a catch-up

schedVars == <<slot, started, registered, prev, jobs, todo>>
runVars == <<runs, lastStart>>
promises == <<promised, failed>>
vars == <<leaderVars, catchup, schedVars, runVars, boots, owed, promises>>

Slots == 1..MaxSlots
Jobs == [inst : Instances, tick : Slots, gated : BOOLEAN]

TypeOK ==
    /\ LeadershipTypeOK
    /\ catchup \in BOOLEAN
    /\ slot \in 0..MaxSlots
    /\ started \in [Instances -> BOOLEAN] /\ registered \in [Instances -> BOOLEAN]
    /\ prev \in [Instances -> 0..MaxSlots]
    /\ jobs \subseteq Jobs
    /\ todo \in [Instances -> SUBSET Slots]
    /\ runs \in [Slots -> 0..1]
    /\ lastStart \in -1..MaxSlots
    /\ boots \in 0..MaxBoots
    /\ owed \subseteq Instances \X Slots
    /\ promised \subseteq Slots /\ failed \subseteq Slots

Init ==
    /\ LeadershipInit
    /\ catchup \in BOOLEAN
    /\ slot = 0
    /\ started = [i \in Instances |-> FALSE]
    /\ registered = [i \in Instances |-> FALSE]
    /\ prev = [i \in Instances |-> 0]
    /\ jobs = {}
    /\ todo = [i \in Instances |-> {}]
    /\ runs = [s \in Slots |-> 0]
    /\ lastStart = -1
    /\ boots = 0
    /\ owed = {}
    /\ promised = {} /\ failed = {}
-----------------------------------------------------------------------------
(* Dispatch *)

(* RunPipelineOpts for slice s: the run is created, as one that executes   *)
(* or as a blocked one, unless the slice has a scheduled run already: the  *)
(* unique index on (pipeline, interval).                                   *)
CreateScheduledRun(s) ==
    IF runs[s] = 0 THEN runs' = [runs EXCEPT ![s] = 1] /\ lastStart' = slot
                   ELSE UNCHANGED runVars

\* Whether the schedule owes slice s: a slice before it has a run, and none from it on.
Owing(s) ==
    /\ \E r \in Slots : r < s /\ runs[r] > 0
    /\ \A t \in Slots : t >= s => runs[t] = 0

\* catchUpMaxIntervals: the newest of the slices up to now.
Recent(s) == slot - s < MaxCatchUp

(* catchUpPerInterval: the slices from the newest one on record to now, as *)
(* far as they are recent; or, for a pipeline without catchup, the first   *)
(* one after the newest run, unless that is more than a day ago.           *)
Missed ==
    IF catchup THEN {{s \in 1..slot : Owing(s) /\ Recent(s)}}
    ELSE IF lastStart >= 0 /\ lastStart < slot THEN {{}, {lastStart + 1}} ELSE {{}}
-----------------------------------------------------------------------------
(* The processes *)

Boot(i) ==
    /\ Boots(i) /\ boots < MaxBoots
    /\ boots' = boots + 1
    /\ UNCHANGED <<catchup, schedVars, runVars, owed, promises>>

(* Scheduler.Start, after one election attempt: it registers the entry and *)
(* catches up, if it leads at that moment. It never does so later.         *)
Start(i) ==
    /\ up[i] /\ ~started[i]
    /\ started' = [started EXCEPT ![i] = TRUE]
    /\ registered' = [registered EXCEPT ![i] = TRUE]
    /\ prev' = [prev EXCEPT ![i] = 0]
    /\ \E slices \in IF leading[i] THEN Missed ELSE {{}} :
          /\ todo' = [todo EXCEPT ![i] = slices]
          /\ promised' = IF catchup /\ leading[i]
                         THEN {s \in promised : Recent(s)} \cup (slices \ failed) ELSE promised
    /\ UNCHANGED <<leaderVars, catchup, slot, jobs, runVars, boots, owed, failed>>

\* Faulty variant: the newest slice first.
ComesLast(i, s) == \A t \in todo[i] : s >= t

\* The catch-up goroutine goes through its slices from the oldest on.
ComesNext(i, s) == \A t \in todo[i] : s <= t

(* Its next slice, with a run already or not. Without catchup it does not  *)
(* ask whether it still leads. An engine that is closing gives up the rest *)
(* as well: that is Stop, with the slices left to do.                      *)
CatchUp(i) ==
    /\ \E s \in todo[i] :
          /\ ComesNext(i, s)
          /\ IF catchup /\ ~leading[i]
             THEN todo' = [todo EXCEPT ![i] = {}] /\ UNCHANGED runVars
             ELSE todo' = [todo EXCEPT ![i] = @ \ {s}] /\ CreateScheduledRun(s)
    /\ UNCHANGED <<leaderVars, catchup, slot, started, registered, prev, jobs, boots, owed, promises>>

\* RunPipelineOpts returns an error: the slice is passed over, and the rest goes on.
CatchUpFails(i) ==
    /\ "error" \in Mishaps /\ (catchup => leading[i])
    /\ \E s \in todo[i] :
          /\ ComesNext(i, s)
          /\ todo' = [todo EXCEPT ![i] = @ \ {s}]
          /\ promised' = promised \ {s} /\ failed' = failed \cup {s}
    /\ UNCHANGED <<leaderVars, catchup, slot, started, registered, prev, jobs, runVars, boots, owed>>

(* The tick: every registered entry fires, in every process; only the      *)
(* callbacks ask who leads.                                                *)
CronTick ==
    LET firing == {i \in Instances : started[i] /\ registered[i]}
    IN  /\ slot < MaxSlots
        /\ "late" \in Mishaps \/ jobs = {}
        /\ "sync" \in Mishaps \/ \A i \in Instances : started[i] => registered[i]
        /\ slot' = slot + 1
        /\ prev' = [i \in Instances |-> IF i \in firing THEN slot + 1 ELSE prev[i]]
        /\ jobs' = jobs \cup [inst : firing, tick : {slot + 1}, gated : {FALSE}]
        /\ owed' = {o \in owed : \A j \in jobs : ~(j.inst = o[1] /\ j.tick = o[2])}
                      \cup {<<i, slot + 1>> : i \in {x \in firing : leading[x]}}
        /\ UNCHANGED <<leaderVars, catchup, started, registered, todo, runVars, boots, promises>>

\* The callback asks IsLeader; one that does not lead is done.
Gate(j) ==
    /\ ~j.gated
    /\ jobs' = IF leading[j.inst] THEN (jobs \ {j}) \cup {[j EXCEPT !.gated = TRUE]} ELSE jobs \ {j}
    /\ UNCHANGED <<leaderVars, catchup, slot, started, registered, prev, todo, runVars, boots, owed, promises>>

\* Faulty variant: an entry that was just registered again has no tick to report.
TickOfPrevOnly(i) == IF prev[i] = 0 THEN 1 ELSE prev[i]

\* scheduledRunOptions: the entry's Prev, or, if it has none, the latest tick.
TickOf(i) == IF registered[i] /\ prev[i] # 0 THEN prev[i] ELSE slot

(* The callback dispatches the slice of the tick it now reads. What is     *)
(* older and was promised is promised no more.                             *)
Dispatch(j) ==
    /\ j.gated
    /\ jobs' = jobs \ {j}
    /\ CreateScheduledRun(TickOf(j.inst))
    /\ promised' = IF runs[TickOf(j.inst)] = 0 THEN {s \in promised : s >= TickOf(j.inst)} ELSE promised
    /\ UNCHANGED <<leaderVars, catchup, slot, started, registered, prev, todo, boots, owed, failed>>

\* RunPipelineOpts returns an error: the tick is not tried again.
DispatchFails(j) ==
    /\ j.gated /\ "error" \in Mishaps
    /\ jobs' = jobs \ {j}
    /\ owed' = owed \ {<<j.inst, j.tick>>}
    /\ UNCHANGED <<leaderVars, catchup, slot, started, registered, prev, todo, runVars, boots, promises>>

(* syncSchedulesFromStore re-registers every entry, changed or not: it is  *)
(* removed, and added with its next activation counted from then on.       *)
SyncRemove(i) ==
    /\ started[i] /\ registered[i]
    /\ registered' = [registered EXCEPT ![i] = FALSE]
    /\ prev' = [prev EXCEPT ![i] = 0]
    /\ UNCHANGED <<leaderVars, catchup, slot, started, jobs, todo, runVars, boots, owed, promises>>

SyncAdd(i) ==
    /\ started[i] /\ ~registered[i]
    /\ registered' = [registered EXCEPT ![i] = TRUE]
    /\ UNCHANGED <<leaderVars, catchup, slot, started, prev, jobs, todo, runVars, boots, owed, promises>>

\* The process ends or dies: its callbacks and its catch-up go with it.
Stop(i) ==
    /\ Stops(i)
    /\ started' = [started EXCEPT ![i] = FALSE]
    /\ registered' = [registered EXCEPT ![i] = FALSE]
    /\ prev' = [prev EXCEPT ![i] = 0]
    /\ jobs' = {j \in jobs : j.inst # i}
    /\ todo' = [todo EXCEPT ![i] = {}]
    /\ owed' = {o \in owed : o[1] # i}
    /\ UNCHANGED <<catchup, slot, runVars, boots, promises>>

\* A leader that is fenced out owes nothing any more.
Fenced(i) ==
    /\ Loses(i)
    /\ owed' = {o \in owed : o[1] # i}
    /\ UNCHANGED <<catchup, schedVars, runVars, boots, promises>>

Elect(i) ==
    /\ Granted(i) \/ Learns(i)
    /\ UNCHANGED <<catchup, schedVars, runVars, boots, owed, promises>>
-----------------------------------------------------------------------------
Next ==
    \/ \E i \in Instances :
          \/ Elect(i) \/ Fenced(i) \/ Boot(i) \/ Start(i) \/ Stop(i)
          \/ CatchUp(i) \/ CatchUpFails(i) \/ SyncRemove(i) \/ SyncAdd(i)
    \/ \E j \in jobs : Gate(j) \/ Dispatch(j) \/ DispatchFails(j)
    \/ CronTick

Spec == Init /\ [][Next]_vars
-----------------------------------------------------------------------------
(* Properties *)

(* A catch-up that is cut short leaves no hole: where the next one starts  *)
(* is behind the newest slice on record, so what a catch-up has set out to *)
(* dispatch and has not, because its process died, it was fenced out or    *)
(* another one went over the same slices, is newer than all that have a    *)
(* run. Excepted are the slices whose dispatch failed, those older than a  *)
(* tick's run (divergence 19), and those that a later catch-up no longer   *)
(* takes because they are too many.                                        *)
NoHoleIsLeft ==
    catchup => \A s \in promised, t \in Slots : runs[s] = 0 /\ s < t => runs[t] = 0

(* A tick is not lost under a leader that keeps leading: once its callback *)
(* is done the slice has its run, even if the entry was registered anew    *)
(* meanwhile. Excepted are the ticks no leader's entry fired at, a         *)
(* callback that starts after the next tick, and a dispatch that fails.    *)
OwedSliceRuns ==
    \A i \in Instances, s \in Slots :
        (<<i, s>> \in owed /\ \A j \in jobs : ~(j.inst = i /\ j.tick = s)) => runs[s] > 0
-----------------------------------------------------------------------------
(* Stated by the code, and refuted by TLC. *)

(* "Every scheduler instance should know about every schedule so that a    *)
(* failover has nothing to catch up on" (engine/scheduler.go:148): a       *)
(* pipeline with catchup has a run, or one to come, for every slice before *)
(* the newest one on record. A tick between the end of one leader and the  *)
(* election of the next is nobody's; a new leader does not catch up, and   *)
(* the catch-up of the next boot starts behind the gap.                    *)
NoSliceIsSkipped ==
    catchup => \A s, t \in Slots :
        (s < t /\ runs[t] > 0 /\ runs[s] = 0 /\ \E r \in Slots : r < s /\ runs[r] > 0) =>
            \/ \E i \in Instances : s \in todo[i]
            \/ \E j \in jobs : j.tick = s

(* "A failed slice does not stop the rest [...] the failure is recorded on *)
(* its run" (engine/scheduler.go:470): a slice that was tried and is not   *)
(* to be tried again has a run. When the run itself cannot be created      *)
(* there is none, and no catch-up comes back to it.                        *)
FailedSliceIsOnRecord ==
    catchup => \A s \in failed : runs[s] > 0 \/ \E i \in Instances : s \in todo[i]
=============================================================================

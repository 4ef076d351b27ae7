-------------------------- MODULE SchedulingProofs --------------------------
(***************************************************************************)
(* Theorems about the scheduler, for any number of instances, ticks,       *)
(* generations and boots: leaders are told apart by their generations, a   *)
(* catch-up that is cut short leaves no hole, and no tick is lost under a  *)
(* leader that keeps leading.                                              *)
(***************************************************************************)
EXTENDS Scheduling, TLAPS

(* GenerationsDiffer is not inductive: an instance that was granted a      *)
(* generation and has yet to learn of it must have one of its own as well. *)
GenInv ==
    /\ top \in Nat
    /\ gen \in [Instances -> Nat]
    /\ leading \in [Instances -> BOOLEAN]
    /\ \A i \in Instances : gen[i] <= top
    /\ \A i, j \in Instances : gen[i] > 0 /\ gen[i] = gen[j] => i = j
    /\ \A i \in Instances : leading[i] => gen[i] > 0

(* The leadership that Leadership describes has the invariant at the       *)
(* start.                                                                  *)
LEMMA GenInvInit == LeadershipInit => GenInv
  BY DEF LeadershipInit, GenInv

(* Every step of it keeps the invariant: a new generation is above all     *)
(* that were granted, and the other steps forget generations or learn of   *)
(* them.                                                                   *)
LEMMA GenInvStep == GenInv /\ [LeadershipNext]_leaderVars => GenInv'
<1> SUFFICES ASSUME GenInv, [LeadershipNext]_leaderVars
             PROVE  GenInv'
  OBVIOUS
<1>1. CASE UNCHANGED leaderVars
  BY <1>1 DEF GenInv, leaderVars
<1>2. ASSUME NEW i \in Instances, Boots(i)
      PROVE  GenInv'
  BY <1>2 DEF GenInv, Boots
<1>3. ASSUME NEW i \in Instances, Granted(i)
      PROVE  GenInv'
  <2>1. /\ top' = top + 1 /\ top' \in Nat
        /\ gen' = [gen EXCEPT ![i] = top + 1]
        /\ gen' \in [Instances -> Nat]
        /\ UNCHANGED leading
    BY <1>3 DEF GenInv, Granted
  <2>2. \A k \in Instances : gen[k] \in Nat /\ gen'[k] = IF k = i THEN top + 1 ELSE gen[k]
    BY <2>1 DEF GenInv
  <2>3. \A k \in Instances : gen'[k] <= top'
    BY <2>1, <2>2 DEF GenInv
  <2>4. \A k, l \in Instances : gen'[k] > 0 /\ gen'[k] = gen'[l] => k = l
    BY <2>2 DEF GenInv
  <2>5. \A k \in Instances : leading'[k] => gen'[k] > 0
    BY <2>1, <2>2 DEF GenInv
  <2> QED
    BY <2>1, <2>3, <2>4, <2>5 DEF GenInv
<1>4. ASSUME NEW i \in Instances, Learns(i)
      PROVE  GenInv'
  BY <1>4 DEF GenInv, Learns
<1>5. ASSUME NEW i \in Instances, Loses(i)
      PROVE  GenInv'
  BY <1>5 DEF GenInv, Loses
<1>6. ASSUME NEW i \in Instances, Stops(i)
      PROVE  GenInv'
  BY <1>6 DEF GenInv, Stops
<1> QED
  BY <1>1, <1>2, <1>3, <1>4, <1>5, <1>6 DEF LeadershipNext

(* The invariant says that leaders' generations differ.                    *)
LEMMA GenInvImplies == GenInv => GenerationsDiffer
  BY DEF GenInv, GenerationsDiffer

(* Whatever implements Leadership has leaders with different generations,  *)
(* LeaderElection by the refinement of CoordinationProofs included.      *)
THEOREM LeadersAreToldApart == LeadershipSpec => []GenerationsDiffer
  BY GenInvInit, GenInvStep, GenInvImplies, PTL DEF LeadershipSpec

(* A step of the scheduler is a step of the leadership or leaves it alone. *)
LEMMA SchedulerStep == [Next]_vars => [LeadershipNext]_leaderVars
<1> SUFFICES ASSUME [Next]_vars
             PROVE  [LeadershipNext]_leaderVars
  OBVIOUS
<1>1. CASE UNCHANGED vars
  BY <1>1 DEF vars
<1>2. ASSUME NEW i \in Instances, Elect(i) \/ Fenced(i) \/ Boot(i) \/ Stop(i)
      PROVE  LeadershipNext
  BY <1>2 DEF Elect, Fenced, Boot, Stop, LeadershipNext
<1>3. ASSUME NEW i \in Instances, Start(i) \/ CatchUp(i) \/ CatchUpFails(i) \/ SyncRemove(i) \/ SyncAdd(i)
      PROVE  UNCHANGED leaderVars
  BY <1>3 DEF Start, CatchUp, CatchUpFails, SyncRemove, SyncAdd
<1>4. ASSUME NEW j \in jobs, Gate(j) \/ Dispatch(j) \/ DispatchFails(j)
      PROVE  UNCHANGED leaderVars
  BY <1>4 DEF Gate, Dispatch, DispatchFails
<1>5. CASE CronTick
  BY <1>5 DEF CronTick
<1> QED
  BY <1>1, <1>2, <1>3, <1>4, <1>5 DEF Next

(* The scheduler leaves the leadership as it is given to it: composed with *)
(* cron, callbacks, boots and catch-ups it is still what Leadership says.  *)
THEOREM SchedulerKeepsLeadership == Spec => LeadershipSpec
  BY SchedulerStep, PTL DEF Spec, Init, LeadershipSpec

(* Of two schedulers that both believe they lead, the generations differ.  *)
THEOREM SchedulersAreToldApart == Spec => []GenerationsDiffer
  BY SchedulerKeepsLeadership, LeadersAreToldApart, PTL
-----------------------------------------------------------------------------
(* The unique index on (pipeline, interval) of scheduled runs, as an       *)
(* inductive invariant.                                                    *)
Indexed == runs \in [Slots -> {0, 1}]

(* A dispatch keeps it, whatever interval it is for.                       *)
LEMMA DispatchKeepsIndex ==
    ASSUME Indexed, NEW s, CreateScheduledRun(s)
    PROVE  Indexed'
  BY DEF Indexed, CreateScheduledRun, runVars

(* No step of a tick, a late callback, a catch-up or a second leader       *)
(* breaks it.                                                              *)
LEMMA IndexedStep == Indexed /\ [Next]_vars => Indexed'
<1> SUFFICES ASSUME Indexed, [Next]_vars
             PROVE  Indexed'
  OBVIOUS
<1>1. CASE UNCHANGED vars
  BY <1>1 DEF Indexed, vars, runVars
<1>2. ASSUME NEW i \in Instances, CatchUp(i)
      PROVE  Indexed'
  BY <1>2, DispatchKeepsIndex DEF Indexed, CatchUp, runVars
<1>3. ASSUME NEW j \in jobs, Dispatch(j)
      PROVE  Indexed'
  BY <1>3, DispatchKeepsIndex DEF Dispatch
<1>4. ASSUME NEW i \in Instances,
             Elect(i) \/ Fenced(i) \/ Boot(i) \/ Start(i) \/ CatchUpFails(i) \/ SyncRemove(i) \/ SyncAdd(i) \/ Stop(i)
      PROVE  Indexed'
  BY <1>4 DEF Indexed, Elect, Fenced, Boot, Start, CatchUpFails, SyncRemove, SyncAdd, Stop, runVars
<1>5. ASSUME NEW j \in jobs, Gate(j) \/ DispatchFails(j)
      PROVE  Indexed'
  BY <1>5 DEF Indexed, Gate, DispatchFails, runVars
<1>6. CASE CronTick
  BY <1>6 DEF Indexed, CronTick, runVars
<1> QED
  BY <1>1, <1>2, <1>3, <1>4, <1>5, <1>6 DEF Next
-----------------------------------------------------------------------------
(* What a callback reads and what a leader owes. An entry that has fired   *)
(* since it was registered has fired at the latest tick. An instance owes  *)
(* a slice only while it leads, and as long as the slice has no run it is  *)
(* the one of the latest tick: so its callback, whenever it asks and       *)
(* whatever was registered anew meanwhile, passes the gate and dispatches  *)
(* that slice.                                                             *)
OwedInv ==
    /\ Indexed
    /\ slot \in Nat
    /\ leading \in [Instances -> BOOLEAN]
    /\ started \in [Instances -> BOOLEAN] /\ registered \in [Instances -> BOOLEAN]
    /\ prev \in [Instances -> Nat]
    /\ jobs \subseteq Jobs
    /\ owed \subseteq Instances \X Slots
    /\ \A i \in Instances : prev[i] # 0 => started[i] /\ registered[i] /\ prev[i] = slot
    /\ \A i \in Instances, s \in Slots :
          <<i, s>> \in owed => leading[i] /\ (runs[s] = 0 => s = slot)
    /\ OwedSliceRuns

(* A dispatch gives its slice a run, if it is a slice of the schedule, and *)
(* takes none away.                                                        *)
LEMMA DispatchMeans ==
    ASSUME Indexed, NEW s, CreateScheduledRun(s)
    PROVE  \A t \in Slots : (runs[t] > 0 => runs'[t] > 0) /\ (t = s => runs'[t] > 0)
  BY DEF Indexed, CreateScheduledRun, runVars

(* A step that changes the callbacks, the entries and the debts of nobody. *)
LEMMA DebtStays ==
    ASSUME OwedInv, Indexed', UNCHANGED <<slot, prev, started, registered, jobs, owed>>,
           leading' \in [Instances -> BOOLEAN],
           \A i \in Instances : leading[i] => leading'[i],
           \A t \in Slots : runs[t] > 0 => runs'[t] > 0
    PROVE  OwedInv'
<1>1. \A t \in Slots : runs'[t] = 0 => runs[t] = 0
  BY DEF OwedInv, Indexed
<1>2. OwedSliceRuns'
  BY DEF OwedInv, OwedSliceRuns
<1> QED
  BY <1>1, <1>2 DEF OwedInv

(* Every step keeps what is owed: a tick, a callback of any leader, a      *)
(* registration under way, a change of leaders, a process that ends.       *)
LEMMA OwedStep == OwedInv /\ [Next]_vars => OwedInv'
<1> SUFFICES ASSUME OwedInv, [Next]_vars
             PROVE  OwedInv'
  OBVIOUS
<1> USE DEF leaderVars, runVars, schedVars
<1>0. Indexed'
  BY IndexedStep DEF OwedInv
<1>1. CASE UNCHANGED vars
  BY <1>0, <1>1, DebtStays DEF vars, OwedInv
<1>2. ASSUME NEW i \in Instances, Elect(i) \/ Boot(i) \/ CatchUpFails(i)
      PROVE  OwedInv'
  <2>1. /\ leading' \in [Instances -> BOOLEAN] /\ \A k \in Instances : leading[k] => leading'[k]
        /\ UNCHANGED <<slot, prev, started, registered, jobs, owed, runs>>
    BY <1>2 DEF Elect, Boot, CatchUpFails, Granted, Learns, Boots, OwedInv
  <2> QED
    BY <1>0, <2>1, DebtStays
<1>3. ASSUME NEW i \in Instances, CatchUp(i)
      PROVE  OwedInv'
  <2>1. /\ UNCHANGED runs \/ \E s \in todo[i] : CreateScheduledRun(s)
        /\ UNCHANGED <<slot, prev, started, registered, jobs, owed, leading>>
    BY <1>3 DEF CatchUp
  <2>2. \A t \in Slots : runs[t] > 0 => runs'[t] > 0
    BY <2>1, DispatchMeans DEF OwedInv
  <2> QED
    BY <1>0, <2>1, <2>2, DebtStays DEF OwedInv
<1>4. ASSUME NEW i \in Instances, Start(i) \/ SyncRemove(i) \/ SyncAdd(i)
      PROVE  OwedInv'
  <2>1. /\ UNCHANGED <<slot, jobs, owed, leading, runs>>
        /\ started' \in [Instances -> BOOLEAN] /\ registered' \in [Instances -> BOOLEAN]
        /\ prev' \in [Instances -> Nat]
    <3>1. CASE Start(i)
      BY <3>1 DEF Start, OwedInv
    <3>2. CASE SyncRemove(i)
      BY <3>2 DEF SyncRemove, OwedInv
    <3>3. CASE SyncAdd(i)
      BY <3>3 DEF SyncAdd, OwedInv
    <3> QED
      BY <1>4, <3>1, <3>2, <3>3
  <2>2. \A k \in Instances : prev'[k] # 0 => started'[k] /\ registered'[k] /\ prev'[k] = slot
    BY <1>4 DEF Start, SyncRemove, SyncAdd, OwedInv
  <2>3. OwedSliceRuns'
    BY <2>1 DEF OwedInv, OwedSliceRuns
  <2> QED
    BY <1>0, <2>1, <2>2, <2>3 DEF OwedInv
<1>5. ASSUME NEW i \in Instances, Stop(i) \/ Fenced(i)
      PROVE  OwedInv'
  <2>1. /\ UNCHANGED <<slot, runs>> /\ owed' = {o \in owed : o[1] # i}
        /\ leading' = [leading EXCEPT ![i] = FALSE]
        /\ jobs' \in {jobs, {j \in jobs : j.inst # i}}
        /\ started' \in [Instances -> BOOLEAN] /\ registered' \in [Instances -> BOOLEAN]
        /\ prev' \in [Instances -> Nat]
    <3>1. CASE Stop(i)
      BY <3>1 DEF Stop, Stops, OwedInv
    <3>2. CASE Fenced(i)
      BY <3>2 DEF Fenced, Loses, OwedInv
    <3> QED
      BY <1>5, <3>1, <3>2
  <2>2. \A k \in Instances : prev'[k] # 0 => started'[k] /\ registered'[k] /\ prev'[k] = slot
    BY <1>5 DEF Stop, Fenced, OwedInv
  <2>3. \A k \in Instances, s \in Slots : <<k, s>> \in owed' => k # i /\ <<k, s>> \in owed
    BY <2>1
  <2>4. \A k \in Instances, s \in Slots :
           <<k, s>> \in owed' => leading'[k] /\ (runs'[s] = 0 => s = slot')
    BY <2>1, <2>3 DEF OwedInv
  <2>5. OwedSliceRuns'
    <3> SUFFICES ASSUME NEW k \in Instances, NEW s \in Slots, <<k, s>> \in owed',
                        \A j \in jobs' : ~(j.inst = k /\ j.tick = s)
                 PROVE  runs'[s] > 0
      BY DEF OwedSliceRuns
    <3>1. \A j \in jobs : ~(j.inst = k /\ j.tick = s)
      BY <2>1, <2>3
    <3> QED
      BY <2>1, <2>3, <3>1 DEF OwedInv, OwedSliceRuns
  <2>6. leading' \in [Instances -> BOOLEAN] /\ jobs' \subseteq Jobs /\ owed' \subseteq Instances \X Slots
    BY <2>1 DEF OwedInv
  <2> QED
    BY <1>0, <2>1, <2>2, <2>4, <2>5, <2>6 DEF OwedInv
<1>6. ASSUME NEW j \in jobs, Gate(j)
      PROVE  OwedInv'
  <2>1. /\ UNCHANGED <<slot, prev, started, registered, owed, leading, runs>>
        /\ jobs' = IF leading[j.inst] THEN (jobs \ {j}) \cup {[j EXCEPT !.gated = TRUE]} ELSE jobs \ {j}
        /\ j \in Jobs
    BY <1>6 DEF Gate, OwedInv
  <2>2. LET g == [j EXCEPT !.gated = TRUE] IN g \in Jobs /\ g.inst = j.inst /\ g.tick = j.tick
    BY <2>1 DEF Jobs
  <2>3. OwedSliceRuns'
    <3> SUFFICES ASSUME NEW k \in Instances, NEW s \in Slots, <<k, s>> \in owed,
                        \A x \in jobs' : ~(x.inst = k /\ x.tick = s)
                 PROVE  runs[s] > 0
      BY <2>1 DEF OwedSliceRuns
    <3>1. leading[k]
      BY DEF OwedInv
    <3>2. ~(j.inst = k /\ j.tick = s)
      BY <2>1, <2>2, <3>1
    <3>3. \A x \in jobs : ~(x.inst = k /\ x.tick = s)
      BY <2>1, <3>2
    <3> QED
      BY <3>3 DEF OwedInv, OwedSliceRuns
  <2> QED
    BY <1>0, <2>1, <2>2, <2>3 DEF OwedInv
<1>7. ASSUME NEW j \in jobs, Dispatch(j)
      PROVE  OwedInv'
  <2>1. /\ UNCHANGED <<slot, prev, started, registered, owed, leading>> /\ jobs' = jobs \ {j}
        /\ CreateScheduledRun(TickOf(j.inst)) /\ j \in Jobs
    BY <1>7 DEF Dispatch, OwedInv
  <2>2. TickOf(j.inst) = slot
    BY <2>1 DEF TickOf, OwedInv, Jobs
  <2>3. \A t \in Slots : (runs[t] > 0 => runs'[t] > 0) /\ (t = slot => runs'[t] > 0)
    BY <2>1, <2>2, DispatchMeans DEF OwedInv
  <2>4. \A t \in Slots : runs'[t] = 0 => runs[t] = 0
    BY <1>0, <2>3 DEF OwedInv, Indexed
  <2>5. OwedSliceRuns'
    <3> SUFFICES ASSUME NEW k \in Instances, NEW s \in Slots, <<k, s>> \in owed,
                        \A x \in jobs' : ~(x.inst = k /\ x.tick = s)
                 PROVE  runs'[s] > 0
      BY <2>1 DEF OwedSliceRuns
    <3>1. CASE j.inst = k /\ j.tick = s
      BY <2>3, <3>1 DEF OwedInv, Indexed
    <3>2. CASE ~(j.inst = k /\ j.tick = s)
      BY <2>1, <2>3, <3>2 DEF OwedInv, OwedSliceRuns
    <3> QED
      BY <3>1, <3>2
  <2> QED
    BY <1>0, <2>1, <2>4, <2>5 DEF OwedInv
<1>8. ASSUME NEW j \in jobs, DispatchFails(j)
      PROVE  OwedInv'
  <2>1. /\ UNCHANGED <<slot, prev, started, registered, leading, runs>> /\ jobs' = jobs \ {j}
        /\ owed' = owed \ {<<j.inst, j.tick>>}
    BY <1>8 DEF DispatchFails
  <2>2. OwedSliceRuns'
    BY <2>1 DEF OwedInv, OwedSliceRuns
  <2> QED
    BY <1>0, <2>1, <2>2 DEF OwedInv
<1>9. CASE CronTick
  <2> DEFINE firing == {i \in Instances : started[i] /\ registered[i]}
             kept == {o \in owed : \A j \in jobs : ~(j.inst = o[1] /\ j.tick = o[2])}
  <2>1. /\ UNCHANGED <<started, registered, leading, runs>> /\ slot < MaxSlots
        /\ slot' = slot + 1 /\ slot' \in Nat /\ slot' \in Slots
        /\ prev' = [i \in Instances |-> IF i \in firing THEN slot + 1 ELSE prev[i]]
        /\ jobs' = jobs \cup [inst : firing, tick : {slot + 1}, gated : {FALSE}]
        /\ owed' = kept \cup {<<i, slot + 1>> : i \in {x \in firing : leading[x]}}
    BY <1>9, SchedulingAssumption DEF CronTick, OwedInv, Slots
  <2>2. prev' \in [Instances -> Nat]
    BY <2>1 DEF OwedInv
  <2>3. \A k \in Instances : prev'[k] # 0 => started'[k] /\ registered'[k] /\ prev'[k] = slot'
    BY <2>1 DEF OwedInv
  <2>4. jobs' \subseteq Jobs
    BY <2>1 DEF OwedInv, Jobs
  <2>5. owed' \subseteq Instances \X Slots
    BY <2>1 DEF OwedInv
  <2>6. ASSUME NEW k \in Instances, NEW s \in Slots, <<k, s>> \in owed'
        PROVE  leading[k] /\ (runs[s] > 0 \/ (s = slot + 1 /\ k \in firing))
    <3>1. CASE <<k, s>> \in kept
      BY <3>1 DEF OwedInv, OwedSliceRuns
    <3>2. CASE <<k, s>> \notin kept
      BY <2>1, <2>6, <3>2
    <3> QED
      BY <3>1, <3>2
  <2>7. OwedSliceRuns'
    <3> SUFFICES ASSUME NEW k \in Instances, NEW s \in Slots, <<k, s>> \in owed',
                        \A x \in jobs' : ~(x.inst = k /\ x.tick = s)
                 PROVE  runs[s] > 0
      BY <2>1 DEF OwedSliceRuns
    <3>1. ASSUME s = slot + 1, k \in firing
          PROVE  FALSE
      <4>1. [inst |-> k, tick |-> s, gated |-> FALSE] \in jobs'
        BY <2>1, <3>1
      <4> QED
        BY <4>1
    <3> QED
      BY <2>6, <3>1
  <2>8. \A k \in Instances, s \in Slots :
           <<k, s>> \in owed' => leading'[k] /\ (runs'[s] = 0 => s = slot')
    <3> HIDE DEF firing, kept
    <3>1. leading' = leading /\ runs' = runs /\ slot' = slot + 1
      BY <2>1
    <3>2. SUFFICES ASSUME NEW k \in Instances, NEW s \in Slots, <<k, s>> \in owed'
                   PROVE  leading[k] /\ (runs[s] = 0 => s = slot + 1)
      BY <3>1
    <3>3. leading[k] /\ (runs[s] > 0 \/ s = slot + 1)
      BY <2>6, <3>2, Zenon
    <3>4. runs[s] > 0 => runs[s] # 0
      OBVIOUS
    <3> QED
      BY <3>3, <3>4, Zenon
  <2> HIDE DEF firing, kept
  <2> QED
    BY <1>0, <2>1, <2>2, <2>3, <2>4, <2>5, <2>7, <2>8 DEF OwedInv
<1> QED
  BY <1>1, <1>2, <1>3, <1>4, <1>5, <1>6, <1>7, <1>8, <1>9 DEF Next

(* Under a leader that keeps leading no tick of its entry is lost, for any *)
(* number of instances and any interleaving of registrations, elections,   *)
(* catch-ups and callbacks: when the callback is done, its slice has a     *)
(* run.                                                                    *)
THEOREM NoTickIsLost == Spec => []OwedSliceRuns
<1>1. Init => OwedInv
  <2> SUFFICES ASSUME Init
               PROVE  OwedInv
    OBVIOUS
  <2>1. Indexed
    BY DEF Init, Indexed
  <2> QED
    BY <2>1 DEF Init, OwedInv, LeadershipInit, OwedSliceRuns
<1>2. OwedInv => OwedSliceRuns
  BY DEF OwedInv
<1> QED
  BY <1>1, <1>2, OwedStep, PTL DEF Spec
-----------------------------------------------------------------------------
(* The catch-up of a pipeline with catchup. NoHoleIsLeft is kept because a *)
(* catch-up holds, of the slices that are promised, all that are older     *)
(* than one it holds (HoldsOlder), and it takes the oldest first. A slice  *)
(* that a second catch-up promises is held by the first one as well, if    *)
(* that one is not past it: what it has passed over since it started has a *)
(* run, has failed, is no longer recent, or is older than one with a run   *)
(* (PassedOver).                                                           *)
HoldsOlder ==
    \A i \in Instances, s \in promised, t \in Slots :
        t \in todo[i] /\ runs[s] = 0 /\ s < t => s \in todo[i]

PassedOver ==
    \A i \in Instances, s \in Slots, t \in Slots :
        (t \in todo[i] /\ runs[s] = 0 /\ s < t /\ s \notin failed /\ s \notin todo[i]) =>
            ~Recent(s) \/ \E u \in Slots : u > s /\ runs[u] > 0

HoleInv ==
    /\ Indexed
    /\ slot \in 0..MaxSlots
    /\ NoHoleIsLeft
    /\ catchup =>
          /\ todo \in [Instances -> SUBSET Slots]
          /\ promised \subseteq Slots
          /\ HoldsOlder
          /\ PassedOver

\* What is too old at one tick is too old at a later one.
LEMMA StaysOld ==
    ASSUME NEW now \in Int, NEW later \in Int, NEW s \in Int, NEW most \in Int,
           now <= later, ~(now - s < most)
    PROVE  ~(later - s < most)
OBVIOUS

\* A step of something else: it gives runs to no slice, and promises none.
LEMMA HoleStays ==
    ASSUME HoleInv, UNCHANGED <<runs, catchup, promises>>, slot' \in 0..MaxSlots, slot <= slot',
           \/ UNCHANGED todo
           \/ \E i \in Instances : todo' = [todo EXCEPT ![i] = {}]
    PROVE  HoleInv'
<1> USE DEF HoleInv
<1>1. Indexed' /\ NoHoleIsLeft'
  BY DEF Indexed, NoHoleIsLeft, promises
<1> SUFFICES ASSUME catchup
             PROVE  /\ todo' \in [Instances -> SUBSET Slots]
                    /\ \A i \in Instances, s \in promised, t \in Slots :
                          t \in todo'[i] /\ runs[s] = 0 /\ s < t => s \in todo'[i]
                    /\ PassedOver'
  BY <1>1 DEF HoldsOlder, promises
<1>2. todo' \in [Instances -> SUBSET Slots] /\ \A i \in Instances : todo'[i] = todo[i] \/ todo'[i] = {}
  OBVIOUS
<1>3. \A s \in Slots : ~Recent(s) => ~Recent(s)'
  <2> SUFFICES ASSUME NEW s \in Slots, ~(slot - s < MaxCatchUp)
               PROVE  ~(slot' - s < MaxCatchUp)
    BY DEF Recent
  <2>1. MaxSlots \in Nat /\ MaxCatchUp \in Nat
    BY SchedulingAssumption
  <2>2. slot \in Int /\ slot' \in Int /\ s \in Int /\ MaxCatchUp \in Int
    BY <2>1 DEF Slots
  <2> HIDE DEF HoleInv
  <2> QED
    BY <2>2, StaysOld
<1>4. PassedOver'
  BY <1>2, <1>3 DEF PassedOver, promises
<1> QED
  BY <1>2, <1>4 DEF HoldsOlder

\* An instance starts, and promises what it has missed if it leads.
LEMMA PromiseStep ==
    ASSUME HoleInv, NEW i \in Instances, Start(i)
    PROVE  HoleInv'
<1> USE DEF HoleInv
<1>1. PICK slices \in IF leading[i] THEN Missed ELSE {{}} :
          /\ todo' = [todo EXCEPT ![i] = slices]
          /\ promised' = IF catchup /\ leading[i]
                         THEN {s \in promised : Recent(s)} \cup (slices \ failed) ELSE promised
  BY DEF Start
<1>2. UNCHANGED <<runs, catchup, slot, failed>>
  BY DEF Start, runVars
<1>3. CASE ~catchup
  BY <1>2, <1>3 DEF NoHoleIsLeft, Indexed
<1>4. CASE ~leading[i]
  <2>1. todo' = [todo EXCEPT ![i] = {}] /\ UNCHANGED <<runs, catchup, promises>>
    BY <1>1, <1>2, <1>4 DEF promises
  <2>2. slot' \in 0..MaxSlots /\ slot <= slot'
    BY <1>2, SchedulingAssumption
  <2> HIDE DEF HoleInv
  <2> QED
    BY <2>1, <2>2, HoleStays
<1>5. CASE catchup /\ leading[i]
  <2>1. slices = {s \in 1..slot : Owing(s) /\ Recent(s)}
    BY <1>1, <1>5 DEF Missed
  <2>2. slices \subseteq Slots
    BY <2>1, SchedulingAssumption DEF Slots
  <2>3. todo' \in [Instances -> SUBSET Slots] /\ promised' \subseteq Slots
    BY <1>1, <1>5, <2>2
  <2>4. \A s \in promised' : (s \in promised /\ Recent(s)) \/ (s \in slices /\ s \notin failed)
    BY <1>1, <1>5
  <2>5. \A k \in Instances : todo'[k] = IF k = i THEN slices ELSE todo[k]
    BY <1>1, <1>5
  <2>6. NoHoleIsLeft'
    BY <1>2, <2>1, <2>3, <2>4 DEF NoHoleIsLeft, Owing, Slots
  <2>7. ASSUME NEW s \in Slots, NEW t \in slices, runs[s] = 0, s < t
        PROVE  /\ \E r \in Slots : r # s /\ runs[r] > 0 /\ r < t
               /\ s \in 1..slot
    BY <2>1, <2>7, SchedulingAssumption DEF Owing, Slots
  <2>8. ASSUME NEW k \in Instances, NEW s \in promised', NEW t \in Slots, t \in todo'[k], runs[s] = 0, s < t
        PROVE  s \in todo'[k]
    <3>1. CASE s \in slices /\ s \notin failed /\ k # i
      <4>1. t \in todo[k] /\ Recent(s) /\ \A u \in Slots : u > s => runs[u] = 0
        BY <2>1, <2>5, <2>8, <3>1 DEF Owing, Slots
      <4>2. s \in todo[k]
        BY <1>5, <2>3, <2>8, <3>1, <4>1 DEF PassedOver, Indexed
      <4> QED
        BY <2>5, <3>1, <4>2
    <3>2. CASE s \in slices /\ k = i
      BY <2>5, <3>2
    <3>3. CASE s \in promised /\ Recent(s) /\ k # i
      BY <1>5, <2>5, <2>8, <3>3 DEF HoldsOlder
    <3>4. CASE s \in promised /\ Recent(s) /\ k = i
      <4>1. t \in slices /\ s \in Slots
        BY <2>3, <2>5, <2>8, <3>4
      <4>2. \A u \in Slots : u > s => runs[u] = 0
        BY <1>5, <2>8, <3>4 DEF NoHoleIsLeft
      <4>3. s \in 1..slot /\ \E r \in Slots : r < s /\ runs[r] > 0
        BY <2>7, <2>8, <4>1, <4>2 DEF Slots, Indexed
      <4>4. Owing(s)
        BY <2>8, <4>1, <4>2, <4>3 DEF Owing, Slots
      <4> QED
        BY <2>1, <2>5, <3>4, <4>3, <4>4
    <3> QED
      BY <2>4, <3>1, <3>2, <3>3, <3>4
  <2>9. ASSUME NEW k \in Instances, NEW s \in Slots, NEW t \in Slots,
               t \in todo'[k], runs[s] = 0, s < t, s \notin failed, s \notin todo'[k], Recent(s)
        PROVE  \E u \in Slots : u > s /\ runs[u] > 0
    <3>1. CASE k # i
      BY <1>5, <2>5, <2>9, <3>1 DEF PassedOver
    <3>2. CASE k = i
      <4>1. t \in slices /\ s \notin slices
        BY <2>5, <2>9, <3>2
      <4>2. PICK r \in Slots : r # s /\ runs[r] > 0 /\ r < t
        BY <2>7, <2>9, <4>1
      <4>3. s \in 1..slot /\ ~Owing(s)
        BY <2>1, <2>7, <2>9, <4>1
      <4>4. CASE r > s
        BY <4>2, <4>4
      <4>5. CASE ~(r > s)
        <5>1. r < s
          BY <4>2, <4>5 DEF Slots
        <5>2. PICK u \in Slots : u >= s /\ runs[u] # 0
          BY <4>2, <4>3, <5>1 DEF Owing
        <5> QED
          BY <2>9, <5>2 DEF Indexed, Slots
      <4> QED
        BY <4>4, <4>5
    <3> QED
      BY <3>1, <3>2
  <2>10. HoldsOlder'
    BY <1>2, <2>8 DEF HoldsOlder
  <2>11. PassedOver'
    BY <1>2, <2>9 DEF PassedOver, Recent
  <2> QED
    BY <1>2, <2>3, <2>6, <2>10, <2>11 DEF Indexed
<1> QED
  BY <1>3, <1>4, <1>5

\* A catch-up goes on to its next slice: it is dispatched, or passed over.
LEMMA NextSliceStep ==
    ASSUME HoleInv, NEW i \in Instances, CatchUp(i) \/ CatchUpFails(i), Indexed'
    PROVE  HoleInv'
<1> USE DEF HoleInv
<1>1. UNCHANGED <<catchup, slot>>
  BY DEF CatchUp, CatchUpFails
<1>2. CASE ~catchup
  BY <1>1, <1>2 DEF NoHoleIsLeft
<1>3. CASE catchup /\ todo' = [todo EXCEPT ![i] = {}] /\ UNCHANGED runVars /\ UNCHANGED promises
  <2>1. UNCHANGED runs /\ slot <= slot
    BY <1>3, SchedulingAssumption DEF runVars
  <2> QED
    BY <1>1, <1>3, <2>1, HoleStays
<1>4. ASSUME catchup, NEW m \in todo[i], ComesNext(i, m), todo' = [todo EXCEPT ![i] = @ \ {m}],
             \/ CreateScheduledRun(m) /\ UNCHANGED promises
             \/ UNCHANGED runs /\ promised' = promised \ {m} /\ failed' = failed \cup {m}
      PROVE  HoleInv'
  <2>1. m \in Slots
    BY <1>4
  <2>2. /\ todo' \in [Instances -> SUBSET Slots] /\ promised' \subseteq promised /\ failed \subseteq failed'
        /\ \A k \in Instances : todo'[k] = IF k = i THEN todo[i] \ {m} ELSE todo[k]
    BY <1>4 DEF promises
  <2>3. \A t \in Slots : (runs[t] > 0 => runs'[t] > 0) /\ (t # m => runs'[t] = runs[t])
    BY <1>4 DEF CreateScheduledRun, runVars, Indexed
  <2>4. \A s \in Slots : runs'[s] = 0 => runs[s] = 0 /\ (s = m => s \in failed' /\ s \notin promised')
    BY <1>4, <2>1, <2>3 DEF CreateScheduledRun, runVars, Indexed
  <2>5. NoHoleIsLeft'
    <3> SUFFICES ASSUME NEW s \in promised', NEW t \in Slots, runs'[s] = 0, s < t
                 PROVE  runs'[t] = 0
      BY DEF NoHoleIsLeft
    <3>1. s \in promised /\ s \in Slots /\ runs[s] = 0 /\ s # m
      BY <1>4, <2>2, <2>4
    <3>2. runs[t] = 0
      BY <1>4, <3>1 DEF NoHoleIsLeft
    <3>3. t # m
      <4> SUFFICES ASSUME t = m PROVE FALSE
        OBVIOUS
      <4>1. s \in todo[i]
        BY <1>4, <2>1, <3>1 DEF HoldsOlder
      <4> QED
        BY <1>4, <3>1, <4>1 DEF ComesNext, Slots
    <3> QED
      BY <2>3, <3>2, <3>3
  <2>6. HoldsOlder'
    BY <1>4, <2>2, <2>4 DEF HoldsOlder
  <2>7. \A s \in Slots : Recent(s)' <=> Recent(s)
    BY <1>1 DEF Recent
  <2>8. PassedOver'
    <3> SUFFICES ASSUME NEW k \in Instances, NEW s \in Slots, NEW t \in Slots, t \in todo'[k], runs'[s] = 0, s < t,
                        s \notin failed', s \notin todo'[k], Recent(s)
                 PROVE  \E u \in Slots : u > s /\ runs'[u] > 0
      BY <2>7 DEF PassedOver
    <3>1. runs[s] = 0 /\ s # m /\ s \notin failed
      BY <2>2, <2>4
    <3>2. t \in todo[k] /\ s \notin todo[k]
      BY <2>2, <3>1
    <3>3. PICK u \in Slots : u > s /\ runs[u] > 0
      BY <1>4, <3>1, <3>2 DEF PassedOver
    <3> QED
      BY <2>3, <3>3
  <2> QED
    BY <1>1, <1>4, <2>2, <2>5, <2>6, <2>8
<1>5. CASE catchup /\ CatchUp(i)
  <2>1. UNCHANGED promises
    BY <1>5 DEF CatchUp
  <2>2. PICK m \in todo[i] :
          /\ ComesNext(i, m)
          /\ IF catchup /\ ~leading[i]
             THEN todo' = [todo EXCEPT ![i] = {}] /\ UNCHANGED runVars
             ELSE todo' = [todo EXCEPT ![i] = @ \ {m}] /\ CreateScheduledRun(m)
    BY <1>5 DEF CatchUp
  <2> QED
    BY <1>3, <1>4, <1>5, <2>1, <2>2
<1>6. CASE catchup /\ CatchUpFails(i)
  <2>1. UNCHANGED runs
    BY <1>6 DEF CatchUpFails, runVars
  <2>2. PICK m \in todo[i] :
          /\ ComesNext(i, m)
          /\ todo' = [todo EXCEPT ![i] = @ \ {m}]
          /\ promised' = promised \ {m} /\ failed' = failed \cup {m}
    BY <1>6 DEF CatchUpFails
  <2> QED
    BY <1>4, <1>6, <2>1, <2>2
<1> QED
  BY <1>2, <1>5, <1>6

\* A callback dispatches: what is older and was promised is no longer.
LEMMA HoleDispatchStep ==
    ASSUME HoleInv, NEW j \in jobs, Dispatch(j), Indexed'
    PROVE  HoleInv'
<1> USE DEF HoleInv
<1> DEFINE tick == TickOf(j.inst)
<1>1. /\ UNCHANGED <<catchup, slot, todo, failed>> /\ CreateScheduledRun(tick)
      /\ promised' = IF runs[tick] = 0 THEN {s \in promised : s >= tick} ELSE promised
  BY DEF Dispatch
<1> HIDE DEF tick
<1>2. CASE ~catchup
  BY <1>1, <1>2 DEF NoHoleIsLeft
<1>3. CASE catchup
  <2>1. \A t \in Slots : (runs[t] > 0 => runs'[t] > 0) /\ (t # tick => runs'[t] = runs[t])
    BY <1>1 DEF CreateScheduledRun, runVars, Indexed
  <2>2. \A s \in Slots : runs'[s] = 0 => runs[s] = 0
    BY <2>1 DEF Indexed
  <2>3. promised' \subseteq promised
    BY <1>1
  <2>4. NoHoleIsLeft'
    <3> SUFFICES ASSUME NEW s \in promised', NEW t \in Slots, runs'[s] = 0, s < t
                 PROVE  runs'[t] = 0
      BY DEF NoHoleIsLeft
    <3>1. s \in promised /\ s \in Slots /\ runs[s] = 0 /\ runs[t] = 0
      BY <1>3, <2>2, <2>3 DEF NoHoleIsLeft
    <3>2. t # tick
      BY <1>1, <3>1 DEF Slots
    <3> QED
      BY <2>1, <3>1, <3>2
  <2>5. HoldsOlder'
    BY <1>1, <1>3, <2>2, <2>3 DEF HoldsOlder
  <2>6. PassedOver'
    <3>1. \A s \in Slots : Recent(s)' <=> Recent(s)
      BY <1>1 DEF Recent
    <3> QED
      BY <1>1, <1>3, <2>1, <2>2, <3>1 DEF PassedOver
  <2> QED
    BY <1>1, <1>3, <2>3, <2>4, <2>5, <2>6
<1> QED
  BY <1>2, <1>3

(* Every step keeps it: ticks and callbacks, starts and ends of processes, *)
(* catch-ups of two leaders that go over the same slices.                  *)
LEMMA HoleStep == HoleInv /\ [Next]_vars => HoleInv'
<1> SUFFICES ASSUME HoleInv, [Next]_vars
             PROVE  HoleInv'
  OBVIOUS
<1> USE DEF schedVars, runVars
<1>0. Indexed' /\ slot \in 0..MaxSlots /\ slot <= slot
  BY IndexedStep, SchedulingAssumption DEF HoleInv
<1>1. CASE UNCHANGED vars
  BY <1>0, <1>1, HoleStays DEF vars
<1>2. ASSUME NEW i \in Instances, Elect(i) \/ Fenced(i) \/ Boot(i) \/ SyncRemove(i) \/ SyncAdd(i) \/ Stop(i)
      PROVE  HoleInv'
  <2>1. UNCHANGED <<runs, catchup, promises, slot>> /\ (UNCHANGED todo \/ todo' = [todo EXCEPT ![i] = {}])
    BY <1>2 DEF Elect, Fenced, Boot, SyncRemove, SyncAdd, Stop
  <2> QED
    BY <1>0, <2>1, HoleStays
<1>3. ASSUME NEW j \in jobs, Gate(j) \/ DispatchFails(j)
      PROVE  HoleInv'
  <2>1. UNCHANGED <<runs, catchup, promises, slot, todo>>
    BY <1>3 DEF Gate, DispatchFails
  <2> QED
    BY <1>0, <2>1, HoleStays
<1>4. CASE CronTick
  <2>1. UNCHANGED <<runs, catchup, promises, todo>> /\ slot' = slot + 1 /\ slot < MaxSlots
    BY <1>4 DEF CronTick
  <2> QED
    BY <1>0, <2>1, HoleStays, SchedulingAssumption
<1> QED
  BY <1>0, <1>1, <1>2, <1>3, <1>4, PromiseStep, NextSliceStep, HoleDispatchStep DEF Next

(* A catch-up that is cut short anywhere, by the end of its process or of  *)
(* its lead, leaves nothing behind that the next one would not take: for   *)
(* any number of instances, boots, ticks and catch-ups at the same time.   *)
THEOREM CatchUpLeavesNoHole == Spec => []NoHoleIsLeft
<1>1. Init => HoleInv
  <2> SUFFICES ASSUME Init
               PROVE  HoleInv
    OBVIOUS
  <2>1. Indexed /\ slot \in 0..MaxSlots
    BY SchedulingAssumption DEF Init, Indexed
  <2> QED
    BY <2>1 DEF Init, HoleInv, NoHoleIsLeft, HoldsOlder, PassedOver
<1>2. HoleInv => NoHoleIsLeft
  BY DEF HoleInv
<1> QED
  BY <1>1, <1>2, HoleStep, PTL DEF Spec
=============================================================================

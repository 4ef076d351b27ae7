-------------------------- MODULE CoordinationProofs --------------------------
(***************************************************************************)
(* Theorems about what processes agree on through the database. Of the     *)
(* leader's lease, for any number of instances and any lease, lag and      *)
(* number of takeovers: the row and its clocks implement the leadership    *)
(* that the scheduler builds on, and a second leader only appears once the *)
(* lease of the first has passed. Of the feed of an agent: nothing is      *)
(* acknowledged that the agent was not handed.                             *)
(***************************************************************************)
EXTENDS MCCoordination, FiniteSetTheorems, WellFoundedInduction, TLAPS
-----------------------------------------------------------------------------
(* The leader's lease                                                      *)

(* Where an instance's attempt is agrees with what it believes: renewals   *)
(* and releases are a leader's, takeovers are not, and only a process that *)
(* runs has either.                                                        *)
PhaseOK ==
    \A i \in Instances :
        /\ lpc[i] \in {"renew", "lost", "release", "released"} => leading[i]
        /\ lpc[i] \in {"acquire", "won"} => ~leading[i]
        /\ lpc[i] # "idle" \/ leading[i] => up[i]

(* Generations are granted in order and to one instance each, and the row  *)
(* names the instance that has the latest.                                 *)
GenOK ==
    /\ \A i \in Instances : gen[i] <= rowGen
    /\ \A i \in Instances : gen[i] > 0 /\ gen[i] = rowGen => holder = i
    /\ \A i, j \in Instances : gen[i] > 0 /\ gen[i] = gen[j] => i = j

(* The lease in the row is the one its holder's last renewal wrote, unless *)
(* it gave the lease back; whoever has been overtaken had let its own pass. *)
(* The first half is what the takeover's condition reads, the second what  *)
(* it leaves behind.                                                       *)
LeaseOK ==
    \A i \in Instances : gen[i] > 0 =>
        \/ lpc[i] = "released"
        \/ gen[i] = rowGen /\ left = Lease - since[i]
        \/ gen[i] < rowGen /\ since[i] > Lease

ElectionInv == TypeOK /\ PhaseOK /\ GenOK /\ LeaseOK

(* The lapsed lease that nobody holds satisfies it.                        *)
LEMMA InvInit == Init => ElectionInv
  BY ElectionAssumption DEF Init, ElectionInv, TypeOK, PhaseOK, GenOK, LeaseOK, InFlight, Lapsed

(* Reading the clock changes neither the row nor what anyone believes.     *)
LEMMA InvStartAttempt ==
    ASSUME ElectionInv, NEW i \in Instances, StartAttempt(i) \/ StartRelease(i)
    PROVE  ElectionInv'
  BY ElectionAssumption
  DEF StartAttempt, StartRelease, ElectionInv, TypeOK, PhaseOK, GenOK, LeaseOK, InFlight, Lapsed, To, rowVars

(* A renewal that runs writes the lease of its own clock reading, and one  *)
(* that finds another generation in the row changes nothing.               *)
LEMMA InvRenew ==
    ASSUME ElectionInv, NEW i \in Instances, Renew(i)
    PROVE  ElectionInv'
  BY ElectionAssumption
  DEF Renew, IsHolder, Extend, ElectionInv, TypeOK, PhaseOK, GenOK, LeaseOK, InFlight, Lapsed, To

(* A takeover happens only when the lease in the row, and so the time      *)
(* since the holder's last renewal, has passed.                            *)
LEMMA InvTryAcquire ==
    ASSUME ElectionInv, NEW i \in Instances, TryAcquire(i)
    PROVE  ElectionInv'
<1> USE ElectionAssumption DEF ElectionInv, TypeOK, To, InFlight, Lapsed
<1>1. CASE ~Expired(i)
  BY <1>1 DEF TryAcquire, PhaseOK, GenOK, LeaseOK, rowVars
<1>2. CASE Expired(i)
  <2>1. /\ lpc[i] = "acquire" /\ left + age[i] < 0
        /\ holder' = i /\ rowGen' = rowGen + 1 /\ rowGen' \in 1..MaxGen
        /\ gen' = [gen EXCEPT ![i] = rowGen + 1]
        /\ left' = Lease - age[i] /\ since' = [since EXCEPT ![i] = age[i]]
        /\ lpc' = [lpc EXCEPT ![i] = "won"]
        /\ UNCHANGED <<up, leading, age, flaky>>
    BY <1>2 DEF TryAcquire, Expired, Extend
  <2>2. TypeOK' /\ PhaseOK'
    BY <2>1 DEF PhaseOK
  <2>3. GenOK'
    BY <2>1 DEF GenOK
  <2>4. ASSUME NEW k \in Instances, k # i, gen[k] > 0, lpc[k] # "released"
        PROVE  gen[k] < rowGen' /\ since[k] > Lease
    BY <2>1, <2>4 DEF GenOK, LeaseOK
  <2>5. LeaseOK'
    BY <2>1, <2>4 DEF LeaseOK
  <2> QED
    BY <2>2, <2>3, <2>5
<1> QED
  BY <1>1, <1>2

(* Learning of a takeover, or of being fenced out, leaves the row alone.   *)
LEMMA InvWonLost ==
    ASSUME ElectionInv, NEW i \in Instances, Won(i) \/ Lost(i)
    PROVE  ElectionInv'
<1> USE ElectionAssumption DEF ElectionInv, TypeOK, InFlight, Lapsed, rowVars, To
<1>1. CASE Won(i)
  BY <1>1 DEF Won, PhaseOK, GenOK, LeaseOK
<1>2. CASE Lost(i)
  <2>1. TypeOK'
    BY <1>2 DEF Lost
  <2>2. PhaseOK' /\ GenOK' /\ LeaseOK'
    BY <1>2 DEF Lost, PhaseOK, GenOK, LeaseOK
  <2> QED
    BY <2>1, <2>2
<1> QED
  BY <1>1, <1>2

(* A statement that fails does so before it ran, or after it wrote what a  *)
(* renewal writes; a winner that does not hear of it holds no generation.  *)
LEMMA InvAttemptFails ==
    ASSUME ElectionInv, NEW i \in Instances, AttemptFails(i)
    PROVE  ElectionInv'
  BY ElectionAssumption
  DEF AttemptFails, IsHolder, Extend, ElectionInv, TypeOK, PhaseOK, GenOK, LeaseOK, InFlight, Lapsed, To

(* A release backdates the lease of the instance that is giving it back.   *)
LEMMA InvRelease ==
    ASSUME ElectionInv, NEW i \in Instances, Release(i)
    PROVE  ElectionInv'
  BY ElectionAssumption
  DEF Release, IsHolder, ElectionInv, TypeOK, PhaseOK, GenOK, LeaseOK, InFlight, Lapsed, To

(* A process that ends forgets its generation; the row keeps its lease.    *)
LEMMA InvStopsBoots ==
    ASSUME ElectionInv, NEW i \in Instances, Stops(i) \/ Boots(i)
    PROVE  ElectionInv'
<1> USE ElectionAssumption DEF ElectionInv, TypeOK, InFlight, Lapsed, rowVars
<1>1. CASE Stops(i)
  <2>1. TypeOK'
    BY <1>1 DEF Stops, To
  <2>2. PhaseOK' /\ GenOK' /\ LeaseOK'
    BY <1>1 DEF Stops, To, PhaseOK, GenOK, LeaseOK
  <2> QED
    BY <2>1, <2>2
<1>2. CASE Boots(i)
  BY <1>2 DEF Boots, PhaseOK, GenOK, LeaseOK
<1> QED
  BY <1>1, <1>2

(* The lease runs down exactly as the time since the renewal goes up, and  *)
(* both bounds are reached together.                                       *)
LEMMA InvTimePasses ==
    ASSUME ElectionInv, TimePasses
    PROVE  ElectionInv'
  BY ElectionAssumption
  DEF TimePasses, AtMost, ElectionInv, TypeOK, PhaseOK, GenOK, LeaseOK, InFlight, Lapsed

(* Every step of an attempt, a failure, a shutdown or the clock keeps it.  *)
LEMMA InvStep == ElectionInv /\ [Next]_vars => ElectionInv'
<1> SUFFICES ASSUME ElectionInv, [Next]_vars
             PROVE  ElectionInv'
  OBVIOUS
<1>1. CASE Steadies
  BY <1>1 DEF Steadies, rowVars, ElectionInv, TypeOK, PhaseOK, GenOK, LeaseOK, InFlight, Lapsed
<1>2. CASE UNCHANGED vars
  BY <1>2 DEF vars, rowVars, ElectionInv, TypeOK, PhaseOK, GenOK, LeaseOK, InFlight, Lapsed
<1> QED
  BY <1>1, <1>2, InvStartAttempt, InvRenew, InvTryAcquire, InvWonLost, InvAttemptFails, InvRelease,
     InvStopsBoots, InvTimePasses DEF Next, Attempt, Shutdown

(* In every behaviour the row, its lease and what the instances believe    *)
(* agree, as the parts of ElectionInv say.                                 *)
THEOREM ElectionInvariant == Spec => []ElectionInv
  BY InvInit, InvStep, PTL DEF Spec
-----------------------------------------------------------------------------
(* What the lease is for. *)

(* An instance whose generation has been overtaken has let its whole lease *)
(* pass since the clock reading of its last renewal, or gives it back.     *)
THEOREM LeaseIsRespected == Spec => []SecondLeaderOnlyAfterLapse
<1>1. ElectionInv => SecondLeaderOnlyAfterLapse
  BY DEF ElectionInv, TypeOK, GenOK, LeaseOK, SecondLeaderOnlyAfterLapse
<1> QED
  BY <1>1, ElectionInvariant, PTL
-----------------------------------------------------------------------------
(* The refinement. *)

(* A takeover is a grant, its answer is what the winner learns, a refused  *)
(* renewal or a lost answer loses the generation; clock readings, renewals *)
(* and releases change nothing that the scheduler sees.                    *)
LEMMA RefinesStep == ElectionInv /\ [Next]_vars => [Abstract!LeadershipNext]_(Abstract!leaderVars)
<1> SUFFICES ASSUME ElectionInv, [Next]_vars
             PROVE  [Abstract!LeadershipNext]_(Abstract!leaderVars)
  OBVIOUS
<1> USE DEF Abstract!LeadershipNext, Abstract!leaderVars
<1>1. ASSUME NEW i \in Instances, StartAttempt(i) \/ Renew(i) \/ StartRelease(i) \/ Release(i)
      PROVE  UNCHANGED Abstract!leaderVars
  BY <1>1 DEF StartAttempt, Renew, StartRelease, Release, rowVars
<1>2. ASSUME NEW i \in Instances, TryAcquire(i)
      PROVE  Abstract!Granted(i) \/ UNCHANGED Abstract!leaderVars
  BY <1>2 DEF TryAcquire, rowVars, Abstract!Granted, ElectionInv, TypeOK, PhaseOK
<1>3. ASSUME NEW i \in Instances, Won(i)
      PROVE  Abstract!Learns(i)
  BY <1>3 DEF Won, rowVars, Abstract!Learns, ElectionInv, TypeOK, PhaseOK
<1>4. ASSUME NEW i \in Instances, Lost(i)
      PROVE  Abstract!Loses(i)
  BY <1>4 DEF Lost, rowVars, Abstract!Loses, ElectionInv, TypeOK, PhaseOK
<1>5. ASSUME NEW i \in Instances, AttemptFails(i)
      PROVE  Abstract!Loses(i) \/ UNCHANGED Abstract!leaderVars
  <2>1. CASE lpc[i] = "won"
    <3>1. ~leading[i] /\ gen[i] > 0 /\ leading \in [Instances -> BOOLEAN]
      BY <2>1 DEF ElectionInv, TypeOK, PhaseOK
    <3>2. leading' = leading /\ leading = [leading EXCEPT ![i] = FALSE]
      BY <1>5, <3>1 DEF AttemptFails
    <3> QED
      BY <1>5, <2>1, <3>1, <3>2 DEF AttemptFails, Abstract!Loses
  <2>2. CASE lpc[i] # "won"
    BY <1>5, <2>2 DEF AttemptFails
  <2> QED
    BY <2>1, <2>2
<1>6. ASSUME NEW i \in Instances, Stops(i)
      PROVE  Abstract!Stops(i)
  BY <1>6 DEF Stops, rowVars, Abstract!Stops
<1>7. ASSUME NEW i \in Instances, Boots(i)
      PROVE  Abstract!Boots(i)
  BY <1>7 DEF Boots, rowVars, Abstract!Boots
<1>8. CASE TimePasses \/ Steadies \/ UNCHANGED vars
  BY <1>8 DEF TimePasses, Steadies, vars, rowVars
<1> QED
  BY <1>1, <1>2, <1>3, <1>4, <1>5, <1>6, <1>7, <1>8 DEF Next, Attempt, Shutdown

(* tryAcquire, renew and release with their lease implement Leadership.    *)
THEOREM ElectionRefinesLeadership == Spec => ImplementsLeadership
<1>1. Init => Abstract!LeadershipInit
  BY DEF Init, Abstract!LeadershipInit
<1> QED
  BY <1>1, RefinesStep, ElectionInvariant, PTL DEF Spec, ImplementsLeadership, Abstract!LeadershipSpec

(* FencingGeneration tells the instances that lead apart, whatever their   *)
(* clock readings, failed statements and restarts.                         *)
THEOREM LeadersDiffer == Spec => []Abstract!GenerationsDiffer
<1>1. ElectionInv => Abstract!GenerationsDiffer
  BY DEF ElectionInv, TypeOK, GenOK, Abstract!GenerationsDiffer
<1> QED
  BY <1>1, ElectionInvariant, PTL
-----------------------------------------------------------------------------
(* The feed of an agent                                                    *)

\* The feed counts with the one Cardinality.
LEMMA FeedCardinality == \A S : Feed!Cardinality(S) = Cardinality(S)
  BY DEF Feed!Cardinality, Cardinality

\* A set of naturals has a least member.
LEMMA LeastNatural ==
    ASSUME NEW T \in SUBSET Nat, T # {}
    PROVE  \E x \in T : \A y \in T : x <= y
<1>1. PICK x \in T : \A y \in T : ~(<<y, x>> \in OpToRel(<, Nat))
  BY NatLessThanWellFounded, WFMin
<1>2. \A y \in T : ~(y < x)
  BY <1>1 DEF OpToRel
<1> QED
  BY <1>2

Recorded(d) == state[d] # "none"

(* What the variables of the feed hold.                                    *)
FeedTypes ==
    /\ made \in Nat /\ stamp \in [Writers -> Nat] /\ clock \in Nat
    /\ pos \in [Feed!Deliveries -> Nat \X Nat]
    /\ state \in [Feed!Deliveries -> {"none", "pending", "delivered", "skipped", "expired"}]
    /\ readTo \in Nat \X Nat
    /\ page \in SUBSET Feed!Deliveries

\* Deliveries have ids of their own, drawn in order.
IdsAreDrawn ==
    /\ \A d \in Feed!Deliveries : Recorded(d) => pos[d][2] \in 1..made
    /\ \A d, e \in Feed!Deliveries : Recorded(d) /\ Recorded(e) /\ pos[d][2] = pos[e][2] => d = e

\* The instants of the deliveries are in the order of their ids.
InstantsAreSorted ==
    \A d, e \in Feed!Deliveries : Recorded(d) /\ Recorded(e) /\ pos[d][2] < pos[e][2] => pos[d][1] <= pos[e][1]

\* The agent has read to nowhere, or to the position of a delivery.
ReadToDelivery ==
    readTo = Feed!Start \/ \E d \in Feed!Deliveries : Recorded(d) /\ readTo = pos[d]

(* The page has the first of what waits behind the cursor: what waits and  *)
(* is not on it comes after all that is.                                   *)
PageIsFirst ==
    /\ page # {} => asked
    /\ \A e \in page : Recorded(e)
    /\ \A d \in Feed!Deliveries \ page, e \in page :
          state[d] = "pending" /\ Feed!Before(readTo, pos[d]) => Feed!Before(pos[e], pos[d])

\* What is up to the cursor and not given up was handed to the agent, and so was what is delivered.
HandedUpToCursor ==
    \A d \in Feed!Deliveries :
        state[d] = "delivered" \/ (state[d] = "pending" /\ ~Feed!Before(readTo, pos[d])) => d \in got

FeedInv ==
    ~inverted => /\ FeedTypes /\ IdsAreDrawn /\ InstantsAreSorted
                 /\ ReadToDelivery /\ PageIsFirst /\ HandedUpToCursor

\* The positions are ordered by the ids alone.
LEMMA OrderOfIds ==
    ASSUME FeedInv, ~inverted, NEW d \in Feed!Deliveries, NEW e \in Feed!Deliveries, Recorded(d), Recorded(e)
    PROVE  Feed!Before(pos[d], pos[e]) <=> pos[d][2] < pos[e][2]
<1>1. pos[d][1] \in Nat /\ pos[d][2] \in Nat /\ pos[e][1] \in Nat /\ pos[e][2] \in Nat
  BY DEF FeedInv, FeedTypes
<1>2. pos[d][2] < pos[e][2] => pos[d][1] <= pos[e][1]
  BY DEF FeedInv, InstantsAreSorted
<1>3. pos[e][2] < pos[d][2] => pos[e][1] <= pos[d][1]
  BY DEF FeedInv, InstantsAreSorted
<1>4. pos[d][2] = pos[e][2] => d = e
  BY DEF FeedInv, IdsAreDrawn
<1> QED
  BY <1>1, <1>2, <1>3, <1>4 DEF Feed!Before

\* A page has a last delivery.
LEMMA PageHasLast ==
    ASSUME FeedInv, ~inverted, page # {}
    PROVE  \E d \in page : \A e \in page : ~Feed!Before(pos[d], pos[e])
<1> DEFINE T == {made - pos[d][2] : d \in page}
<1>1. \A d \in page : d \in Feed!Deliveries /\ Recorded(d) /\ pos[d][2] \in 1..made /\ made \in Nat
  BY DEF FeedInv, FeedTypes, PageIsFirst, IdsAreDrawn
<1>2. T \in SUBSET Nat /\ T # {}
  BY <1>1
<1>3. PICK x \in T : \A y \in T : x <= y
  <2> HIDE DEF T
  <2> QED
    BY <1>2, LeastNatural
<1>4. PICK d \in page : x = made - pos[d][2]
  BY <1>3
<1>5. ASSUME NEW e \in page
      PROVE  ~Feed!Before(pos[d], pos[e])
  <2>1. made - pos[d][2] <= made - pos[e][2]
    BY <1>3, <1>4
  <2>2. ~(pos[d][2] < pos[e][2])
    BY <1>1, <2>1
  <2> QED
    BY <1>1, <2>2, OrderOfIds
<1> QED
  BY <1>5

\* What a read leaves waiting comes after what it takes.
LEMMA PageIsInitial ==
    ASSUME FeedInv, ~inverted, NEW d \in Feed!Pending \ Feed!Page, NEW e \in Feed!Page
    PROVE  Feed!Before(pos[e], pos[d])
<1> DEFINE First(x) == {y \in Feed!Pending : Feed!Before(pos[y], pos[x])}
<1>1. /\ d \in Feed!Deliveries /\ e \in Feed!Deliveries /\ Recorded(d) /\ Recorded(e)
      /\ Feed!Pending \subseteq Feed!Deliveries /\ \A y \in Feed!Pending : Recorded(y)
      /\ e \in Feed!Pending /\ e # d
  BY DEF Feed!Page, Feed!Pending, Recorded
<1>2. Cardinality(First(e)) < PageSize /\ ~(Cardinality(First(d)) < PageSize)
  BY FeedCardinality DEF Feed!Page
<1>3. SUFFICES ASSUME ~Feed!Before(pos[e], pos[d]) PROVE FALSE
  OBVIOUS
<1>4. \A y \in Feed!Deliveries : Recorded(y) => pos[y][2] \in Nat
  BY DEF FeedInv, FeedTypes
<1>5. pos[d][2] <= pos[e][2]
  BY <1>1, <1>3, <1>4, OrderOfIds
<1>6. ASSUME NEW y \in First(d)
      PROVE  y \in First(e)
  <2>1. y \in Feed!Deliveries /\ Recorded(y) /\ pos[y][2] < pos[d][2]
    BY <1>1, OrderOfIds
  <2> QED
    BY <1>1, <1>4, <1>5, <2>1, OrderOfIds
<1>7. IsFiniteSet(First(e))
  <2>1. First(e) \in SUBSET Feed!Deliveries /\ IsFiniteSet(Feed!Deliveries)
    BY <1>1, FeedAssumption DEF Feed!Deliveries
  <2> QED
    BY <2>1, FS_Subset
<1>8. Cardinality(First(d)) <= Cardinality(First(e)) /\ IsFiniteSet(First(d))
  <2>1. First(d) \in SUBSET First(e)
    BY <1>6
  <2> HIDE DEF First
  <2> QED
    BY <1>7, <2>1, FS_Subset
<1>9. Cardinality(First(d)) \in Nat /\ Cardinality(First(e)) \in Nat /\ PageSize \in Nat
  BY <1>7, <1>8, FS_CardinalityType, FeedAssumption
<1> HIDE DEF First
<1> QED
  BY <1>2, <1>8, <1>9

\* The writers: a clock is read, a delivery is recorded behind all others.
LEMMA WriterStep ==
    ASSUME FeedInv,
           \E w \in Writers : Feed!ReadClock(w) \/ \E d \in Feed!Deliveries : Feed!Record(w, d)
    PROVE  FeedInv'
<1>1. ASSUME NEW w \in Writers, Feed!ReadClock(w)
      PROVE  FeedInv'
  <2>1. /\ UNCHANGED <<made, pos, state, readTo, asked, page, got, inverted>>
        /\ clock' = clock + 1 /\ stamp' = [stamp EXCEPT ![w] = clock + 1]
    BY <1>1 DEF Feed!ReadClock, Feed!readVars
  <2>2. FeedTypes => FeedTypes'
    BY <2>1 DEF FeedTypes
  <2> QED
    BY <2>1, <2>2 DEF FeedInv, IdsAreDrawn, InstantsAreSorted, ReadToDelivery, PageIsFirst, HandedUpToCursor, Recorded
<1>2. ASSUME NEW w \in Writers, NEW d \in Feed!Deliveries, Feed!Record(w, d), ~inverted'
      PROVE  FeedInv'
  <2>1. /\ UNCHANGED <<clock, stamp, readTo, asked, page, got>>
        /\ state[d] = "none" /\ state' = [state EXCEPT ![d] = "pending"]
        /\ made' = made + 1 /\ pos' = [pos EXCEPT ![d] = <<stamp[w], made + 1>>]
        /\ inverted' = (inverted \/ \E e \in Feed!Deliveries : state[e] # "none" /\ pos[e][1] > stamp[w])
    BY <1>2 DEF Feed!Record, Feed!MayRecord, Feed!NewId, Feed!readVars
  <2>2. ~inverted /\ \A e \in Feed!Deliveries : Recorded(e) => ~(pos[e][1] > stamp[w])
    BY <1>2, <2>1 DEF Recorded
  <2>3. FeedTypes /\ IdsAreDrawn /\ InstantsAreSorted /\ ReadToDelivery /\ PageIsFirst /\ HandedUpToCursor
    BY <2>2 DEF FeedInv
  <2>4. /\ stamp[w] \in Nat /\ made \in Nat
        /\ pos'[d] = <<stamp[w], made + 1>> /\ state'[d] = "pending"
        /\ pos'[d][1] = stamp[w] /\ pos'[d][2] = made + 1
        /\ \A e \in Feed!Deliveries : e # d => pos'[e] = pos[e] /\ state'[e] = state[e]
    BY <2>1, <2>3 DEF FeedTypes
  <2>5. \A e \in Feed!Deliveries : pos[e][1] \in Nat /\ pos[e][2] \in Nat
    BY <2>3 DEF FeedTypes
  <2>6. FeedTypes'
    BY <2>1, <2>3, <2>4 DEF FeedTypes
  <2>7. ASSUME NEW e \in Feed!Deliveries, Recorded(e)
        PROVE  e # d /\ Recorded(e)' /\ pos'[e] = pos[e] /\ pos[e][1] <= stamp[w] /\ pos[e][2] < made + 1 /\ pos[e][2] >= 1
               /\ Feed!Before(pos[e], pos'[d])
    BY <2>1, <2>2, <2>3, <2>4, <2>5, <2>7 DEF Recorded, IdsAreDrawn, Feed!Before
  <2>8. \A e \in Feed!Deliveries : Recorded(e)' => e = d \/ Recorded(e)
    BY <2>4 DEF Recorded
  <2>9. IdsAreDrawn' /\ InstantsAreSorted'
    <3>1. IdsAreDrawn'
      BY <2>1, <2>3, <2>4, <2>7, <2>8 DEF IdsAreDrawn
    <3>2. InstantsAreSorted'
      <4> SUFFICES ASSUME NEW e \in Feed!Deliveries, NEW f \in Feed!Deliveries,
                          Recorded(e)', Recorded(f)', pos'[e][2] < pos'[f][2]
                   PROVE  pos'[e][1] <= pos'[f][1]
        BY DEF InstantsAreSorted
      <4>1. CASE e = d
        BY <2>4, <2>5, <2>7, <2>8, <4>1
      <4>2. CASE e # d /\ f = d
        BY <2>4, <2>7, <2>8, <4>2
      <4>3. CASE e # d /\ f # d
        BY <2>3, <2>7, <2>8, <4>3 DEF InstantsAreSorted
      <4> QED
        BY <4>1, <4>2, <4>3
    <3> QED
      BY <3>1, <3>2
  <2>10. ReadToDelivery' /\ Feed!Before(readTo, pos'[d])
    <3>1. CASE readTo = Feed!Start
      BY <2>1, <2>4, <3>1 DEF ReadToDelivery, Feed!Start, Feed!Before
    <3>2. CASE \E e \in Feed!Deliveries : Recorded(e) /\ readTo = pos[e]
      BY <2>1, <2>7, <3>2 DEF ReadToDelivery
    <3> QED
      BY <2>3, <3>1, <3>2 DEF ReadToDelivery
  <2>11. PageIsFirst'
    <3>1. ASSUME NEW e \in page
          PROVE  e \in Feed!Deliveries /\ Recorded(e) /\ e # d /\ pos'[e] = pos[e] /\ Feed!Before(pos[e], pos'[d]) /\ Recorded(e)'
      BY <2>3, <2>7 DEF PageIsFirst, FeedTypes
    <3> QED
      BY <2>1, <2>3, <2>4, <3>1 DEF PageIsFirst
  <2>12. HandedUpToCursor'
    BY <2>1, <2>3, <2>4, <2>10 DEF HandedUpToCursor
  <2> QED
    BY <2>6, <2>9, <2>10, <2>11, <2>12 DEF FeedInv
<1> QED
  BY <1>1, <1>2 DEF FeedInv

\* What changes in a read but the cursor: the status of what was pending.
StatusMoves ==
    /\ UNCHANGED <<made, clock, stamp, pos, readTo, inverted>>
    /\ state' \in [Feed!Deliveries -> {"none", "pending", "delivered", "skipped", "expired"}]
    /\ \A d \in Feed!Deliveries : /\ state'[d] # "none" <=> state[d] # "none"
                                  /\ state'[d] = "pending" => state[d] = "pending"

\* A step that moves the deliveries of the feed on and leaves their order alone.
LEMMA StatusFrame ==
    ASSUME FeedInv, StatusMoves, ~inverted, page' \in SUBSET Feed!Deliveries, PageIsFirst', HandedUpToCursor'
    PROVE  FeedInv'
<1>1. FeedTypes /\ IdsAreDrawn /\ InstantsAreSorted /\ ReadToDelivery
  BY DEF FeedInv
<1>2. FeedTypes'
  BY <1>1 DEF FeedTypes, StatusMoves
<1>3. IdsAreDrawn' /\ InstantsAreSorted' /\ ReadToDelivery'
  BY <1>1 DEF IdsAreDrawn, InstantsAreSorted, ReadToDelivery, StatusMoves, Recorded
<1> QED
  BY <1>2, <1>3 DEF FeedInv

\* A read acknowledges, takes a page, or comes to nothing; the feed expires.
LEMMA ReaderStep ==
    ASSUME FeedInv, ~inverted,
           Feed!Acknowledge \/ Feed!ReadPage \/ Feed!ReceiveNothing \/ Feed!ExpireFeed
    PROVE  FeedInv'
<1>0. FeedTypes /\ PageIsFirst /\ HandedUpToCursor
  BY DEF FeedInv
<1>1. CASE Feed!Acknowledge
  <2>1. /\ UNCHANGED <<made, clock, stamp, pos, readTo, page, got, inverted>> /\ asked'
        /\ state' = [d \in Feed!Deliveries |->
             IF readTo # Feed!Start /\ state[d] = "pending" /\ Feed!UpTo(d) THEN "delivered" ELSE state[d]]
    BY <1>1 DEF Feed!Acknowledge, Feed!writeVars
  <2>2. StatusMoves
    BY <1>0, <2>1 DEF StatusMoves, FeedTypes
  <2>3. page' \in SUBSET Feed!Deliveries /\ PageIsFirst'
    BY <1>0, <2>1 DEF PageIsFirst, FeedTypes, Recorded
  <2>4. HandedUpToCursor'
    BY <1>0, <2>1 DEF HandedUpToCursor, FeedTypes, Feed!UpTo
  <2> QED
    BY <2>2, <2>3, <2>4, StatusFrame
<1>2. CASE Feed!ReadPage
  <2>1. PICK refused \in SUBSET Feed!Page :
          /\ UNCHANGED <<made, clock, stamp, pos, readTo, asked, got, inverted>> /\ asked /\ page' = Feed!Page
          /\ state' = [d \in Feed!Deliveries |-> IF d \in refused THEN "skipped" ELSE state[d]]
    BY <1>2 DEF Feed!ReadPage, Feed!writeVars
  <2>2. \A d \in Feed!Page : d \in Feed!Deliveries /\ state[d] = "pending"
    BY DEF Feed!Page, Feed!Pending
  <2>3. StatusMoves
    BY <1>0, <2>1, <2>2 DEF StatusMoves, FeedTypes
  <2>4. ASSUME NEW d \in Feed!Deliveries \ Feed!Page, NEW e \in Feed!Page,
               state'[d] = "pending", Feed!Before(readTo, pos[d])
        PROVE  Feed!Before(pos[e], pos[d])
    <3>1. d \in Feed!Pending
      BY <2>1, <2>4 DEF Feed!Pending
    <3> QED
      BY <3>1, PageIsInitial
  <2>5. page' \in SUBSET Feed!Deliveries /\ PageIsFirst'
    BY <2>1, <2>2, <2>4 DEF PageIsFirst, Recorded
  <2>6. HandedUpToCursor'
    BY <1>0, <2>1 DEF HandedUpToCursor
  <2> QED
    BY <2>3, <2>5, <2>6, StatusFrame
<1>3. CASE Feed!ReceiveNothing
  <2>1. UNCHANGED <<made, clock, stamp, pos, state, readTo, got, inverted>> /\ page' = {}
    BY <1>3 DEF Feed!ReceiveNothing, Feed!writeVars
  <2>2. StatusMoves
    BY <1>0, <2>1 DEF StatusMoves, FeedTypes
  <2>3. page' \in SUBSET Feed!Deliveries /\ PageIsFirst' /\ HandedUpToCursor'
    BY <1>0, <2>1 DEF PageIsFirst, HandedUpToCursor
  <2> QED
    BY <2>2, <2>3, StatusFrame
<1>4. CASE Feed!ExpireFeed
  <2>1. PICK t : /\ UNCHANGED <<made, clock, stamp, pos, readTo, asked, page, got, inverted>>
                 /\ state' = [d \in Feed!Deliveries |->
                      IF d \in {x \in Feed!Deliveries : state[x] = "pending" /\ pos[x][1] < t}
                      THEN "expired" ELSE state[d]]
    BY <1>4 DEF Feed!ExpireFeed, Feed!writeVars, Feed!readVars
  <2>2. StatusMoves
    BY <1>0, <2>1 DEF StatusMoves, FeedTypes
  <2>3. page' \in SUBSET Feed!Deliveries /\ PageIsFirst'
    BY <1>0, <2>1 DEF PageIsFirst, FeedTypes, Recorded
  <2>4. HandedUpToCursor'
    BY <1>0, <2>1 DEF HandedUpToCursor
  <2> QED
    BY <2>2, <2>3, <2>4, StatusFrame
<1> QED
  BY <1>1, <1>2, <1>3, <1>4

\* The agent has read its page: the cursor moves to the last of it.
LEMMA ReceiveStep ==
    ASSUME FeedInv, ~inverted, Feed!Receive
    PROVE  FeedInv'
<1>0. FeedTypes /\ IdsAreDrawn /\ InstantsAreSorted /\ PageIsFirst /\ HandedUpToCursor
  BY DEF FeedInv
<1> DEFINE last == CHOOSE d \in page : \A e \in page : ~Feed!Before(pos[d], pos[e])
<1>1. /\ UNCHANGED <<made, clock, stamp, pos, state, inverted>> /\ page # {}
      /\ got' = got \cup page /\ readTo' = pos[last] /\ page' = {} /\ ~asked'
  BY DEF Feed!Receive, Feed!writeVars
<1>2. last \in page /\ \A e \in page : ~Feed!Before(pos[last], pos[e])
  BY <1>1, PageHasLast
<1>3. last \in Feed!Deliveries /\ Recorded(last) /\ pos[last] \in Nat \X Nat
  BY <1>0, <1>2 DEF FeedTypes, PageIsFirst
<1> HIDE DEF last
<1>4. FeedTypes' /\ IdsAreDrawn' /\ InstantsAreSorted' /\ ReadToDelivery' /\ PageIsFirst'
  BY <1>0, <1>1, <1>3 DEF FeedTypes, IdsAreDrawn, InstantsAreSorted, ReadToDelivery, PageIsFirst, Recorded
<1>5. ASSUME NEW d \in Feed!Deliveries, state[d] = "pending", ~Feed!Before(pos[last], pos[d]), d \notin page
      PROVE  d \in got
  BY <1>0, <1>2, <1>5 DEF PageIsFirst, HandedUpToCursor
<1>6. HandedUpToCursor'
  BY <1>0, <1>1, <1>5 DEF HandedUpToCursor
<1> QED
  BY <1>4, <1>6 DEF FeedInv

(* A delivery is marked as delivered only if the agent was handed it:      *)
(* FeedAcknowledge and FeedPending of agent_trigger_deliveries.go, for any *)
(* number of writers and deliveries and any limit of a page, unless a      *)
(* delivery was recorded with an instant before that of an earlier one.    *)
THEOREM FeedAcknowledgesTheRead == MCSpec => []AcknowledgedWasHanded
<1>1. ASSUME MCInit PROVE FeedInv
  <2>1. Feed!Init
    BY <1>1 DEF MCInit
  <2>2. FeedTypes
    BY <2>1 DEF Feed!Init, FeedTypes, Feed!Start
  <2>3. \A d \in Feed!Deliveries : state[d] = "none"
    BY <2>1 DEF Feed!Init
  <2>4. readTo = Feed!Start /\ page = {}
    BY <2>1 DEF Feed!Init
  <2> QED
    BY <2>2, <2>3, <2>4 DEF FeedInv, IdsAreDrawn, InstantsAreSorted, ReadToDelivery, PageIsFirst, HandedUpToCursor, Recorded
<1>2. ASSUME FeedInv, [MCNext]_allVars PROVE FeedInv'
  <2>1. CASE UNCHANGED feedVars
    BY <1>2, <2>1 DEF feedVars, FeedInv, FeedTypes, IdsAreDrawn, InstantsAreSorted, ReadToDelivery, PageIsFirst,
       HandedUpToCursor, Recorded
  <2>2. CASE Feed!Next
    <3>1. CASE inverted
      <4>1. inverted'
        BY <2>2, <3>1 DEF Feed!Next, Feed!ReadClock, Feed!Record, Feed!Read, Feed!Acknowledge, Feed!ReadPage, Feed!Receive,
           Feed!ReceiveNothing, Feed!ExpireFeed
      <4> QED
        BY <4>1 DEF FeedInv
    <3>2. CASE ~inverted
      BY <1>2, <2>2, <3>2, WriterStep, ReaderStep, ReceiveStep DEF Feed!Next, Feed!Read
    <3> QED
      BY <3>1, <3>2
  <2> QED
    BY <1>2, <2>1, <2>2 DEF MCNext, Electing, Running, Dispatching, Reading, allVars
<1>3. FeedInv => AcknowledgedWasHanded
  BY DEF FeedInv, HandedUpToCursor, AcknowledgedWasHanded, Feed!DeliveredWasHanded
<1> QED
  BY <1>1, <1>2, <1>3, PTL DEF MCSpec
=============================================================================

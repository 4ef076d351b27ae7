---------------------------- MODULE LeaderElection ----------------------------
(***************************************************************************)
(* The scheduler's leader (src/store/postgres_leader.go): one row with a   *)
(* holder, a fencing generation and the instant its lease expires. Each    *)
(* instance renews the row while it believes it leads, and otherwise tries *)
(* to take it over. The clock is read before the statement is sent, and    *)
(* the statement may run late, fail, or run with its answer lost.          *)
(*                                                                         *)
(* Time is relative: left is how long the lease still runs, age how long   *)
(* ago an attempt read its clock. The instances' clocks agree, which the   *)
(* code assumes as well: it compares one instance's clock with a time that *)
(* another one wrote.                                                      *)
(***************************************************************************)
EXTENDS Integers, FiniteSets

CONSTANTS
    Instances,      \* the processes that run a scheduler
    NoOne,          \* the holder before the first election
    Lease,          \* leaseDuration
    MaxLag,         \* bound: how late a statement runs after its clock was read
    MaxGen          \* bound: the fencing generation

ASSUME ElectionAssumption ==
    /\ Lease \in Nat \ {0} /\ MaxLag \in Nat /\ MaxGen \in Nat
    /\ NoOne \notin Instances

VARIABLES
    holder,     \* scheduler_leader.holder
    rowGen,     \* scheduler_leader.fencing_generation
    left,       \* lease_expires_at, from now
    up,         \* whether the process runs
    leading,    \* PostgresLeaderElector.isLeader
    gen,        \* its fencingGeneration
    lpc,        \* where its election attempt is
    age,        \* how long ago that attempt read the clock
    flaky,      \* whether statements may fail, as long as they do
    since       \* history: how long ago was the reading of its last renewal

rowVars == <<holder, rowGen, left>>
vars == <<rowVars, up, leading, gen, lpc, age, flaky, since>>

InFlight == {"renew", "acquire", "release"}
Lapsed == -(MaxLag + 1)         \* as good as any time in the past

TypeOK ==
    /\ holder \in Instances \cup {NoOne}
    /\ rowGen \in 0..MaxGen
    /\ left \in Lapsed..Lease
    /\ up \in [Instances -> BOOLEAN]
    /\ leading \in [Instances -> BOOLEAN]
    /\ gen \in [Instances -> 0..MaxGen]
    /\ \A i \in Instances : gen[i] > 0 <=> leading[i] \/ lpc[i] = "won"
    /\ lpc \in [Instances -> InFlight \cup {"idle", "won", "lost", "released"}]
    /\ age \in [Instances -> 0..MaxLag] /\ flaky \in BOOLEAN
    /\ since \in [Instances -> 0..(Lease + MaxLag + 1)]

Init ==
    /\ holder = NoOne /\ rowGen = 0 /\ left = Lapsed
    /\ up = [i \in Instances |-> FALSE]
    /\ leading = [i \in Instances |-> FALSE]
    /\ gen = [i \in Instances |-> 0]
    /\ lpc = [i \in Instances |-> "idle"]
    /\ age = [i \in Instances |-> 0] /\ flaky = TRUE
    /\ since = [i \in Instances |-> 0]
-----------------------------------------------------------------------------
To(i, where) == lpc' = [lpc EXCEPT ![i] = where]

\* An election attempt reads the clock: a renewal for a leader, else a takeover.
StartAttempt(i) ==
    /\ up[i] /\ lpc[i] = "idle"
    /\ To(i, IF leading[i] THEN "renew" ELSE "acquire")
    /\ age' = [age EXCEPT ![i] = 0]
    /\ UNCHANGED <<rowVars, up, leading, gen, since, flaky>>

\* The row still names this instance and its generation.
IsHolder(i) == holder = i /\ rowGen = gen[i]

\* The lease as the statement of an attempt of this age writes it.
Extend(i) ==
    /\ left' = Lease - age[i]
    /\ since' = [since EXCEPT ![i] = age[i]]

\* renew: it does not look at the lease, only at who holds the row.
Renew(i) ==
    /\ lpc[i] = "renew"
    /\ IF IsHolder(i) THEN Extend(i) /\ To(i, "idle")
                      ELSE To(i, "lost") /\ UNCHANGED <<left, since>>
    /\ UNCHANGED <<holder, rowGen, up, leading, gen, age, flaky>>

\* Faulty variant: the takeover compares no times.
ExpiredAlways(i) == rowGen >= 0

\* Faulty variant: an instance does not take over a row that names itself.
ExpiredOfOthers(i) == holder # i /\ left + age[i] < 0

\* lease_expires_at < $4, where $4 is the attempt's own reading of the clock.
Expired(i) == left + age[i] < 0

\* Faulty variant: a takeover leaves the generation as it is.
TryAcquireSameGen(i) ==
    /\ lpc[i] = "acquire"
    /\ IF Expired(i)
       THEN /\ rowGen < MaxGen
            /\ holder' = i /\ rowGen' = (IF rowGen = 0 THEN 1 ELSE rowGen)
            /\ gen' = [gen EXCEPT ![i] = rowGen']
            /\ Extend(i)
            /\ To(i, "won")
       ELSE To(i, "idle") /\ UNCHANGED <<rowVars, gen, since>>
    /\ UNCHANGED <<up, leading, age, flaky>>

\* tryAcquire: a row that was never held, or whose lease has expired, is taken over.
TryAcquire(i) ==
    /\ lpc[i] = "acquire"
    /\ IF Expired(i)
       THEN /\ rowGen < MaxGen
            /\ holder' = i /\ rowGen' = rowGen + 1
            /\ gen' = [gen EXCEPT ![i] = rowGen + 1]
            /\ Extend(i)
            /\ To(i, "won")
       ELSE To(i, "idle") /\ UNCHANGED <<rowVars, gen, since>>
    /\ UNCHANGED <<up, leading, age, flaky>>

\* The answers arrive: leadership is won, or a renewal was refused (fenced out).
Won(i) ==
    /\ lpc[i] = "won"
    /\ leading' = [leading EXCEPT ![i] = TRUE]
    /\ To(i, "idle")
    /\ UNCHANGED <<rowVars, up, gen, age, since, flaky>>

Lost(i) ==
    /\ lpc[i] = "lost"
    /\ leading' = [leading EXCEPT ![i] = FALSE]
    /\ gen' = [gen EXCEPT ![i] = 0]
    /\ To(i, "idle")
    /\ UNCHANGED <<rowVars, up, age, since, flaky>>

(* A statement fails before it runs, or its answer is lost after it did.   *)
(* A leader goes on leading; a winner does not know that it won.           *)
AttemptFails(i) ==
    /\ flaky
    /\ \/ /\ lpc[i] \in {"renew", "acquire"}
          /\ UNCHANGED <<left, gen, since>>
       \/ /\ lpc[i] = "renew" /\ IsHolder(i)
          /\ Extend(i) /\ UNCHANGED gen
       \/ /\ lpc[i] = "won"
          /\ gen' = [gen EXCEPT ![i] = 0]
          /\ UNCHANGED <<left, since>>
    /\ To(i, "idle")
    /\ UNCHANGED <<holder, rowGen, up, leading, age, flaky>>

\* From here on the database answers.
Steadies ==
    /\ flaky /\ flaky' = FALSE
    /\ UNCHANGED <<rowVars, up, leading, gen, lpc, age, since>>

\* The loop ends: a leader gives its lease back, any other instance just stops.
StartRelease(i) ==
    /\ up[i] /\ leading[i] /\ lpc[i] = "idle"
    /\ To(i, "release")
    /\ age' = [age EXCEPT ![i] = 0]
    /\ UNCHANGED <<rowVars, up, leading, gen, since, flaky>>

\* release: the lease is backdated, if the row is still this leader's.
Release(i) ==
    /\ lpc[i] = "release"
    /\ left' = IF IsHolder(i) THEN -(age[i] + 1) ELSE left
    /\ To(i, "released")
    /\ UNCHANGED <<holder, rowGen, up, leading, gen, age, since, flaky>>

\* The process ends: after its release, a failed one, a crash, or having led nobody.
Stops(i) ==
    /\ up[i]
    /\ up' = [up EXCEPT ![i] = FALSE]
    /\ leading' = [leading EXCEPT ![i] = FALSE]
    /\ gen' = [gen EXCEPT ![i] = 0]
    /\ age' = [age EXCEPT ![i] = 0]
    /\ To(i, "idle")
    /\ UNCHANGED <<rowVars, since, flaky>>

Boots(i) ==
    /\ ~up[i]
    /\ up' = [up EXCEPT ![i] = TRUE]
    /\ UNCHANGED <<rowVars, leading, gen, lpc, age, since, flaky>>

AtMost(n, bound) == IF n < bound THEN n ELSE bound

\* Time passes, a statement being under way for no longer than MaxLag.
TimePasses ==
    /\ \A i \in Instances : lpc[i] \in InFlight => age[i] < MaxLag
    /\ left' = IF left > Lapsed THEN left - 1 ELSE Lapsed
    /\ age' = [i \in Instances |-> IF lpc[i] \in InFlight THEN age[i] + 1 ELSE age[i]]
    /\ since' = [i \in Instances |-> AtMost(since[i] + 1, Lease + MaxLag + 1)]
    /\ UNCHANGED <<holder, rowGen, up, leading, gen, lpc, flaky>>
-----------------------------------------------------------------------------
Attempt(i) == StartAttempt(i) \/ Renew(i) \/ TryAcquire(i) \/ Won(i) \/ Lost(i)
Shutdown(i) == StartRelease(i) \/ Release(i)
Next ==
    \/ \E i \in Instances : Attempt(i) \/ AttemptFails(i) \/ Shutdown(i) \/ Stops(i) \/ Boots(i)
    \/ TimePasses \/ Steadies

Spec == Init /\ [][Next]_vars

(* Every instance keeps trying, and time passes. Nothing is assumed of     *)
(* processes that stop or boot, or of the database.                        *)
Fairness ==
    /\ WF_vars(TimePasses)
    /\ \A i \in Instances : WF_vars(Attempt(i)) /\ WF_vars(Shutdown(i))

FairSpec == Spec /\ Fairness
-----------------------------------------------------------------------------
(* Properties *)

Abstract == INSTANCE Leadership WITH top <- rowGen

(* The row, its lease and its clocks implement the leadership that the     *)
(* scheduler relies on: a generation is granted to one instance only, and  *)
(* a leader keeps its own until it is fenced out or ends.                  *)
ImplementsLeadership == Abstract!LeadershipSpec

(* A leader is found again, however often the last one dies: as long as    *)
(* some instance stays up and the database answers, one leads again.       *)
LeaderReturns ==
    \A i \in Instances : []<>(flaky \/ ~up[i] \/ (\E j \in Instances : leading[j]) \/ rowGen = MaxGen)

(* "a live leader's lease is never disturbed": two instances lead at once  *)
(* only when the older one has let its whole lease pass since the clock    *)
(* reading of its last renewal, or is giving the lease back.               *)
SecondLeaderOnlyAfterLapse ==
    \A i, j \in Instances :
        (leading[i] /\ leading[j] /\ i # j /\ gen[i] < gen[j]) =>
            since[i] > Lease \/ lpc[i] \in {"release", "released"}
=============================================================================

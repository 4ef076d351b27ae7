------------------------------ MODULE Leadership ------------------------------
(***************************************************************************)
(* What the election of a leader promises the scheduler                    *)
(* (src/store/leader.go, LeaderElector): an instance is granted a new      *)
(* fencing generation, learns of it, and from then on believes that it     *)
(* leads until it learns otherwise or ends. Two instances may lead at a    *)
(* time; their generations differ. LeaderElection implements this with a   *)
(* row, a lease and clocks; Scheduling builds on it.                       *)
(***************************************************************************)
EXTENDS Integers

CONSTANTS
    Instances,      \* the processes that run a scheduler
    MaxGen          \* bound: the fencing generation

VARIABLES
    up,         \* whether the process runs
    top,        \* the highest generation granted so far
    gen,        \* the generation each instance holds or is about to learn of, or 0
    leading     \* whether it believes it leads: IsLeader

leaderVars == <<up, top, gen, leading>>

LeadershipTypeOK ==
    /\ up \in [Instances -> BOOLEAN]
    /\ top \in 0..MaxGen
    /\ gen \in [Instances -> 0..MaxGen]
    /\ leading \in [Instances -> BOOLEAN]

LeadershipInit ==
    /\ up = [i \in Instances |-> FALSE]
    /\ top = 0
    /\ gen = [i \in Instances |-> 0]
    /\ leading = [i \in Instances |-> FALSE]

Boots(i) ==
    /\ ~up[i]
    /\ up' = [up EXCEPT ![i] = TRUE]
    /\ UNCHANGED <<top, gen, leading>>

\* Faulty variant: a takeover goes on with the generation of the last one.
GrantedSameGen(i) ==
    /\ up[i] /\ ~leading[i] /\ gen[i] = 0
    /\ top' = IF top = 0 THEN 1 ELSE top
    /\ gen' = [gen EXCEPT ![i] = top']
    /\ UNCHANGED <<up, leading>>

\* A takeover succeeds in the database.
Granted(i) ==
    /\ up[i] /\ ~leading[i] /\ gen[i] = 0
    /\ top < MaxGen
    /\ top' = top + 1
    /\ gen' = [gen EXCEPT ![i] = top + 1]
    /\ UNCHANGED <<up, leading>>

\* The instance learns that it leads.
Learns(i) ==
    /\ ~leading[i] /\ gen[i] > 0
    /\ leading' = [leading EXCEPT ![i] = TRUE]
    /\ UNCHANGED <<up, top, gen>>

\* It learns that it does not, or never hears of its grant.
Loses(i) ==
    /\ gen[i] > 0
    /\ leading' = [leading EXCEPT ![i] = FALSE]
    /\ gen' = [gen EXCEPT ![i] = 0]
    /\ UNCHANGED <<up, top>>

Stops(i) ==
    /\ up[i]
    /\ up' = [up EXCEPT ![i] = FALSE]
    /\ leading' = [leading EXCEPT ![i] = FALSE]
    /\ gen' = [gen EXCEPT ![i] = 0]
    /\ UNCHANGED top

LeadershipNext == \E i \in Instances : Boots(i) \/ Granted(i) \/ Learns(i) \/ Loses(i) \/ Stops(i)
LeadershipSpec == LeadershipInit /\ [][LeadershipNext]_leaderVars
-----------------------------------------------------------------------------
(* Properties *)

(* The generation tells leaders apart: of the instances that believe they  *)
(* lead, no two have the same one, and none has one that was not granted   *)
(* (FencingGeneration, "the generation while currently leader").           *)
GenerationsDiffer ==
    /\ \A i, j \in Instances : leading[i] /\ leading[j] /\ gen[i] = gen[j] => i = j
    /\ \A i \in Instances : leading[i] => gen[i] \in 1..top
=============================================================================

----------------------------- MODULE MCReporting -----------------------------
(* What the outside hears of a run: an agent through the trigger           *)
(* dispatcher (AgentTriggers, with two events about two runs), a browser   *)
(* through the realtime state (LiveState). A behaviour is about one of     *)
(* them, its part, and the other stays where it started.                   *)
EXTENDS AgentTriggers, Sequences

CONSTANTS Clients, Mutators, LogCap, Buffer, MaxVersion, MaxConnects

\* A log has room for a delta.
ASSUME ReportingAssumption ==
    /\ {Margin, MaxOpen, MaxEvents} \subseteq Nat
    /\ LogCap \in Nat \ {0} /\ {Buffer, MaxVersion} \subseteq Nat

VARIABLES
    part,
    version, entry, value, deltas, delta, conn, sub, read, send, got, init, seen, connects, slow, raced

Live == INSTANCE LiveState WITH log <- deltas

liveVars == <<version, entry, value, deltas, delta, conn, sub, read, send, got, init, seen, connects, slow, raced>>
allVars == <<part, vars, liveVars>>

MCRunOf == <<"run1", "run2">>

\* The part that moves, and the other that does not.
Triggering == part = "trigger" /\ UNCHANGED <<part, liveVars>>
Watching == part = "live" /\ UNCHANGED <<part, vars>>

MCInit == part \in {"trigger", "live"} /\ Init /\ Live!Init

MCNext ==
    \/ Triggering /\ Next
    \/ Watching /\ Live!Next

\* The fairness of AgentTriggers.
MCSpec ==
    /\ MCInit /\ [][MCNext]_allVars
    /\ \A d \in Dispatchers : WF_allVars(Triggering /\ PassStep(d))
    /\ \A i \in Ids : WF_allVars(Triggering /\ Commit(i))
    /\ WF_allVars(Triggering /\ TimePasses)
-----------------------------------------------------------------------------
(* EveryChangeIsHanded of LiveState: a browser that watches a key and has  *)
(* nothing on its way to it was handed every change of its value.          *)
WatcherIsCurrent == part = "live" => Live!EveryChangeIsHanded
=============================================================================

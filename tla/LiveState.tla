------------------------------ MODULE LiveState ------------------------------
(***************************************************************************)
(* The realtime state that browsers watch (src/pkg/sodp): one key of the   *)
(* StateStore with its delta log, the fanout to sessions, and sessions     *)
(* that watch the key, lose their connection and resume.                   *)
(*                                                                         *)
(* A change is known by its version. The value of the key is the set of    *)
(* changes that it is made of. A client is whatever was handed to it; what *)
(* it makes of frames that come twice or out of order is its own affair.   *)
(* Left out: parent keys, authorization, limits on keys, watches and       *)
(* calls.                                                                  *)
(***************************************************************************)
EXTENDS Naturals, Sequences

CONSTANTS
    Clients,
    Mutators,       \* the Bridge, and in open mode the sessions that CALL
    LogCap,         \* StateStore.logCap
    Buffer,         \* defaultSessionBuffer
    MaxVersion,     \* bound: changes of all keys
    MaxConnects     \* bound: connections of a client

VARIABLES
    version,    \* StateStore.global
    entry,      \* the version of the key's entry, 0 if there is none
    value,      \* the changes that its value is made of
    log,        \* its ringLog, as versions
    delta,      \* by mutator: the change it has yet to broadcast, or 0
    conn,       \* by client: what its session is doing
    sub,        \* whether the FanoutBus has its subscription
    read,       \* what its handler has read: a frame to send, or deltas to replay
    send,       \* Session.Send
    got,        \* the changes it was handed
    init,       \* whether it has had a STATE_INIT for this watch
    seen,       \* the highest version it was handed since: since_version
    connects,   \* how often it has connected
    slow,       \* history: a frame for it was dropped
    raced       \* history: a change was broadcast while its resume was handled, or before an earlier one

keyVars == <<version, entry, value, log, delta>>
clientVars == <<conn, sub, read, send, got, init, seen, connects>>
history == <<slow, raced>>
vars == <<keyVars, clientVars, history>>

Versions == 1..MaxVersion
Frames == [type : {"init", "delta"}, v : 0..MaxVersion, has : SUBSET Versions]

TypeOK ==
    /\ version \in 0..MaxVersion /\ entry \in 0..MaxVersion
    /\ value \subseteq Versions
    /\ log \in Seq(Versions) /\ Len(log) <= LogCap
    /\ delta \in [Mutators -> 0..MaxVersion]
    /\ conn \in [Clients -> {"off", "on", "subscribed", "read", "found", "replay"}]
    /\ sub \in [Clients -> BOOLEAN]
    /\ \A c \in Clients :
          /\ read[c] \in Seq(Frames)
          /\ send[c] \in Seq(Frames) /\ Len(send[c]) <= Buffer
    /\ got \in [Clients -> SUBSET Versions]
    /\ init \in [Clients -> BOOLEAN] /\ seen \in [Clients -> 0..MaxVersion]
    /\ connects \in [Clients -> 0..MaxConnects]
    /\ slow \in [Clients -> BOOLEAN] /\ raced \in [Clients -> BOOLEAN]

Init ==
    /\ version = 0 /\ entry = 0 /\ value = {} /\ log = <<>>
    /\ delta = [m \in Mutators |-> 0]
    /\ conn = [c \in Clients |-> "off"]
    /\ sub = [c \in Clients |-> FALSE]
    /\ read = [c \in Clients |-> <<>>]
    /\ send = [c \in Clients |-> <<>>]
    /\ got = [c \in Clients |-> {}]
    /\ init = [c \in Clients |-> FALSE] /\ seen = [c \in Clients |-> 0]
    /\ connects = [c \in Clients |-> 0]
    /\ slow = [c \in Clients |-> FALSE] /\ raced = [c \in Clients |-> FALSE]
-----------------------------------------------------------------------------
(* The store and its mutators *)

Delta(v) == [type |-> "delta", v |-> v, has |-> {v}]
StateInit == [type |-> "init", v |-> entry, has |-> value]

\* The ring buffer forgets its oldest entry.
Push(s, v) == IF Len(s) = LogCap THEN Append(Tail(s), v) ELSE Append(s, v)

(* The state changes under the lock of the store, and the change is left   *)
(* to be broadcast. The delta of a new entry carries all of its value.     *)
Change(m, e, val) ==
    /\ delta[m] = 0 /\ version < MaxVersion
    /\ version' = version + 1
    /\ entry' = e /\ value' = val
    /\ log' = Push(log, version + 1)
    /\ delta' = [delta EXCEPT ![m] = version + 1]
    /\ UNCHANGED <<clientVars, history>>

Apply(m) == Change(m, version + 1, (IF entry = 0 THEN {} ELSE value) \cup {version + 1})
Delete(m) == entry # 0 /\ Change(m, 0, {version + 1})

\* Another key takes the next version.
ChangeElsewhere ==
    /\ version < MaxVersion
    /\ version' = version + 1
    /\ UNCHANGED <<entry, value, log, delta, clientVars, history>>

\* A finished run is forgotten, its delta log with it, and nobody is told.
EvictCompleted ==
    /\ entry # 0
    /\ entry' = 0 /\ value' = {} /\ log' = <<>>
    /\ UNCHANGED <<version, delta, clientVars, history>>

Full(c) == Len(send[c]) = Buffer

\* A resume of client c is being handled, with deltas to replay or as a watch.
Resuming(c) == conn[c] \in {"found", "replay"} \/ (init[c] /\ conn[c] \in {"subscribed", "read"})

\* A change that was made before this one is yet to be broadcast.
Overtakes(m) == \E n \in Mutators : delta[n] # 0 /\ delta[n] < delta[m]

\* A delta is queued for every subscriber that has room for it.
Broadcast(m) ==
    /\ delta[m] # 0
    /\ send' = [c \in Clients |->
                  IF sub[c] /\ ~Full(c) THEN Append(send[c], Delta(delta[m])) ELSE send[c]]
    /\ slow' = [c \in Clients |-> slow[c] \/ (sub[c] /\ Full(c))]
    /\ raced' = [c \in Clients |-> raced[c] \/ Resuming(c) \/ Overtakes(m)]
    /\ delta' = [delta EXCEPT ![m] = 0]
    /\ UNCHANGED <<version, entry, value, log, conn, sub, read, got, init, seen, connects>>
-----------------------------------------------------------------------------
(* Sessions *)

Go(c, to) == conn' = [conn EXCEPT ![c] = to]

\* A frame is queued, or dropped if the client is slow.
Enqueue(c, f) ==
    /\ send' = IF Full(c) THEN send ELSE [send EXCEPT ![c] = Append(@, f)]
    /\ slow' = [slow EXCEPT ![c] = @ \/ Full(c)]

Connect(c) ==
    /\ conn[c] = "off" /\ connects[c] < MaxConnects
    /\ connects' = [connects EXCEPT ![c] = @ + 1]
    /\ Go(c, "on")
    /\ UNCHANGED <<keyVars, sub, read, send, got, init, seen, history>>

\* handleWatch: subscribe, then read the state, then queue it as STATE_INIT.
HandleWatch(c) ==
    /\ sub' = [sub EXCEPT ![c] = TRUE]
    /\ Go(c, "subscribed")
    /\ UNCHANGED <<keyVars, read, send, got, init, seen, connects, history>>

Watch(c) ==
    /\ conn[c] = "on" /\ ~sub[c] /\ ~init[c]
    /\ HandleWatch(c)

ReadState(c) ==
    /\ conn[c] = "subscribed"
    /\ read' = [read EXCEPT ![c] = <<StateInit>>]
    /\ Go(c, "read")
    /\ UNCHANGED <<keyVars, sub, send, got, init, seen, connects, history>>

SendInit(c) ==
    /\ conn[c] = "read"
    /\ Enqueue(c, Head(read[c]))
    /\ read' = [read EXCEPT ![c] = <<>>]
    /\ Go(c, "on")
    /\ UNCHANGED <<keyVars, sub, got, init, seen, connects, raced>>

\* Faulty variant: a version that has left the log is taken for covered.
CoversOneMore(since) == log # <<>> /\ log[1] <= since + 2

\* The log goes back far enough.
Covers(since) == log # <<>> /\ log[1] <= since + 1

\* The deltas of the log that are later, oldest first.
DeltasSince(since) ==
    LET f[k \in 0..Len(log)] ==
            IF k = 0 THEN <<>> ELSE IF log[k] > since THEN Append(f[k - 1], log[k]) ELSE f[k - 1]
    IN  f[Len(log)]

\* handleResume with deltas to replay: they are read before the subscription is made.
ResumeFound(c) ==
    /\ conn[c] = "on" /\ ~sub[c] /\ init[c]
    /\ Covers(seen[c]) /\ DeltasSince(seen[c]) # <<>>
    /\ LET vs == DeltasSince(seen[c])
       IN  read' = [read EXCEPT ![c] = [k \in 1..Len(vs) |-> Delta(vs[k])]]
    /\ Go(c, "found")
    /\ UNCHANGED <<keyVars, sub, send, got, init, seen, connects, history>>

\* handleResume without: it goes on as handleWatch.
ResumeAfresh(c) ==
    /\ conn[c] = "on" /\ ~sub[c] /\ init[c]
    /\ ~Covers(seen[c]) \/ DeltasSince(seen[c]) = <<>>
    /\ HandleWatch(c)

Subscribe(c) ==
    /\ conn[c] = "found"
    /\ sub' = [sub EXCEPT ![c] = TRUE]
    /\ Go(c, "replay")
    /\ UNCHANGED <<keyVars, read, send, got, init, seen, connects, history>>

Replay(c) ==
    /\ conn[c] = "replay"
    /\ Enqueue(c, Head(read[c]))
    /\ read' = [read EXCEPT ![c] = Tail(@)]
    /\ Go(c, IF Len(read[c]) = 1 THEN "on" ELSE "replay")
    /\ UNCHANGED <<keyVars, sub, got, init, seen, connects, raced>>

\* The client no longer listens to the stream: what is queued for it is lost.
HandleUnwatch(c) ==
    /\ conn[c] = "on" /\ sub[c]
    /\ sub' = [sub EXCEPT ![c] = FALSE]
    /\ init' = [init EXCEPT ![c] = FALSE]
    /\ seen' = [seen EXCEPT ![c] = 0]
    /\ send' = [send EXCEPT ![c] = <<>>]
    /\ UNCHANGED <<keyVars, conn, read, got, connects, history>>

\* writePump writes a frame, and the client has it.
WritePump(c) ==
    /\ send[c] # <<>>
    /\ LET f == Head(send[c])
       IN  /\ got' = [got EXCEPT ![c] = @ \cup f.has]
           /\ init' = [init EXCEPT ![c] = @ \/ f.type = "init"]
           /\ seen' = [seen EXCEPT ![c] = IF init'[c] /\ f.v > @ THEN f.v ELSE @]
    /\ send' = [send EXCEPT ![c] = Tail(@)]
    /\ UNCHANGED <<keyVars, conn, sub, read, connects, history>>

\* The connection is gone, and all that was queued for it.
Disconnect(c) ==
    /\ conn[c] # "off"
    /\ Go(c, "off")
    /\ sub' = [sub EXCEPT ![c] = FALSE]
    /\ send' = [send EXCEPT ![c] = <<>>]
    /\ read' = [read EXCEPT ![c] = <<>>]
    /\ UNCHANGED <<keyVars, got, init, seen, connects, history>>

Next ==
    \/ \E m \in Mutators : Apply(m) \/ Delete(m) \/ Broadcast(m)
    \/ ChangeElsewhere \/ EvictCompleted
    \/ \E c \in Clients :
          \/ Connect(c) \/ Disconnect(c) \/ WritePump(c)
          \/ Watch(c) \/ ReadState(c) \/ SendInit(c) \/ HandleUnwatch(c)
          \/ ResumeFound(c) \/ ResumeAfresh(c) \/ Subscribe(c) \/ Replay(c)

Spec == Init /\ [][Next]_vars
-----------------------------------------------------------------------------
(* Properties *)

\* Nothing more is on its way to client c, which watches the key.
AtRest(c) ==
    /\ sub[c] /\ conn[c] = "on" /\ send[c] = <<>>
    /\ \A m \in Mutators : delta[m] = 0

(* "Without it, brief disconnects would silently drop events and the UI    *)
(* would diverge from server state" (pkg/sodp/resume_test.go:22): a client *)
(* that watches the key has been handed every change its value is made of, *)
(* through reconnects, a log that has forgotten some of them, evictions    *)
(* and versions that other keys took, unless its buffer overflowed, a      *)
(* change was broadcast while its resume was handled, or two mutators      *)
(* broadcast in another order than they changed the key.                   *)
EveryChangeIsHanded ==
    \A c \in Clients : (AtRest(c) /\ ~slow[c] /\ ~raced[c]) => value \subseteq got[c]
-----------------------------------------------------------------------------
(* Stated by the code, and refuted by TLC. *)

(* The same without the second exception: the deltas to replay are read    *)
(* before the subscription is made, and a change that is broadcast in      *)
(* between is in neither; or a delta reaches a client that has subscribed  *)
(* again before its STATE_INIT does, and the client resumes from there.    *)
(* Without the third: Mutate leaves the lock of the store before it        *)
(* broadcasts (pkg/sodp/server.go:580), a client that was handed the later *)
(* of two changes resumes after both.                                      *)
ResumeLosesNothing ==
    \A c \in Clients : (AtRest(c) /\ ~slow[c]) => value \subseteq got[c]
=============================================================================

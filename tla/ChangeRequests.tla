---------------------------- MODULE ChangeRequests ----------------------------
(***************************************************************************)
(* Change requests (src/api/change_requests.go) and the save they share    *)
(* with edits and rollbacks (saveUpdate, Rollback in                       *)
(* src/api/handlers_pipeline.go): the row of one pipeline, its version     *)
(* history, and the requests made to change it. A save stores the row and  *)
(* then the version, in two statements and with no lock; a process may die *)
(* between them, and a version that cannot be saved is not noticed.        *)
(*                                                                         *)
(* A definition is the set of the changes it contains. Whoever saves or    *)
(* proposes starts from a definition read earlier. Left out: validation    *)
(* and permissions, which refuse a save before it changes anything,        *)
(* pipelines deployed from a repository, and the 50 versions of a list.    *)
(***************************************************************************)
EXTENDS Naturals, Sequences

CONSTANTS
    Requests,       \* the change requests that are proposed
    Editors,        \* the edits that are made
    Appliers,       \* the applies that are tried
    MaxVersions     \* bound: versions saved

VARIABLES
    current,    \* the pipeline's definition
    versions,   \* its pipeline_versions
    saw,        \* what each author and editor last read
    status,     \* change_requests.status
    base,       \* change_requests.base_version
    proposed,   \* change_requests.proposed
    applied,    \* change_requests.applied_version
    against,    \* the definition that create compares a proposal with
    cpc,        \* where each save, edit or apply, is
    target,     \* the request that each apply is about
    sent,       \* the definition that each save stores
    raced,      \* history: a save or a create was under way when another save moved
    unversioned \* history: a row was stored and its version was not

requestVars == <<status, base, proposed, applied, against>>
saveVars == <<cpc, target, sent>>
history == <<raced, unversioned>>
vars == <<current, versions, saw, requestVars, saveVars, history>>

Savers == Editors \cup Appliers
Changes == Requests \cup Editors
Definitions == SUBSET Changes
Settled == {"applied", "declined"}

TypeOK ==
    /\ current \in Definitions
    /\ versions \in Seq(Definitions) /\ Len(versions) \in 1..MaxVersions
    /\ saw \in [Changes -> Definitions]
    /\ status \in [Requests -> Settled \cup {"none", "making", "open"}]
    /\ base \in [Requests -> 0..MaxVersions] /\ applied \in [Requests -> 0..Len(versions)]
    /\ proposed \in [Requests -> Definitions] /\ against \in [Requests -> Definitions]
    /\ cpc \in [Savers -> {"idle", "read", "checked", "stored", "versioned", "done"}]
    /\ target \in [Appliers -> Requests]
    /\ sent \in [Savers -> Definitions]
    /\ raced \in BOOLEAN /\ unversioned \in BOOLEAN

Init ==
    /\ current = {} /\ versions = <<{}>>
    /\ saw = [c \in Changes |-> {}]
    /\ status = [r \in Requests |-> "none"]
    /\ base = [r \in Requests |-> 0] /\ applied = [r \in Requests |-> 0]
    /\ proposed = [r \in Requests |-> {}] /\ against = [r \in Requests |-> {}]
    /\ cpc = [s \in Savers |-> "idle"] /\ target \in [Appliers -> Requests]
    /\ sent = [s \in Savers |-> {}]
    /\ raced = FALSE /\ unversioned = FALSE

Go(s, to) == cpc' = [cpc EXCEPT ![s] = to]

\* What currentVersion may return: the latest version, or 0 when the list cannot be read.
CurrentVersion == {Len(versions), 0}

\* Somebody else is in the middle of something when s saves.
UnderWay(s) ==
    \/ \E t \in Savers \ {s} : cpc[t] \in {"checked", "stored"}
    \/ \E r \in Requests : status[r] = "making"
-----------------------------------------------------------------------------
(* Proposing *)

\* Authors and editors read the pipeline when they like.
Look(c) ==
    /\ IF c \in Requests THEN status[c] = "none" ELSE cpc[c] = "idle"
    /\ saw' = [saw EXCEPT ![c] = current]
    /\ UNCHANGED <<current, versions, requestVars, saveVars, history>>

\* create reads the pipeline and compares the proposal with it.
BeginCreate(r) ==
    /\ status[r] = "none"
    /\ status' = [status EXCEPT ![r] = "making"]
    /\ proposed' = [proposed EXCEPT ![r] = saw[r] \cup {r}]
    /\ against' = [against EXCEPT ![r] = current]
    /\ UNCHANGED <<current, versions, saw, base, applied, saveVars, history>>

\* It reads the version, and records the request as made against it.
Create(r) ==
    /\ status[r] = "making"
    /\ status' = [status EXCEPT ![r] = "open"]
    /\ \E v \in CurrentVersion : base' = [base EXCEPT ![r] = v]
    /\ UNCHANGED <<current, versions, saw, proposed, applied, against, saveVars, history>>

\* decide settles an open request, and no other.
Decide(r, to, version) ==
    IF status[r] = "open"
    THEN /\ status' = [status EXCEPT ![r] = to]
         /\ applied' = [applied EXCEPT ![r] = version]
    ELSE UNCHANGED <<status, applied>>

Decline(r) ==
    /\ status[r] \in {"open"} \cup Settled
    /\ Decide(r, "declined", 0)
    /\ UNCHANGED <<current, versions, saw, base, proposed, against, saveVars, history>>
-----------------------------------------------------------------------------
(* Saving *)

\* apply reads the request, and refuses one that is not open.
ReadRequest(a) ==
    /\ cpc[a] = "idle" /\ status[target[a]] \in {"open"} \cup Settled
    /\ Go(a, IF status[target[a]] = "open" THEN "read" ELSE "done")
    /\ UNCHANGED <<current, versions, saw, requestVars, target, sent, history>>

\* Faulty variant: the base is a version that the pipeline once had.
IsCurrentOnce(r, version) == base[r] <= version

\* A request is stale when the pipeline has moved on from its base.
IsCurrent(r, version) == base[r] = version

\* It reads the version, and refuses a stale one.
CheckBase(a) ==
    /\ cpc[a] = "read"
    /\ \E v \in CurrentVersion : Go(a, IF IsCurrent(target[a], v) THEN "checked" ELSE "done")
    /\ UNCHANGED <<current, versions, saw, requestVars, target, sent, history>>

\* saveUpdate, the row: UpdatePipeline.
Store(s, definition) ==
    /\ current' = definition
    /\ sent' = [sent EXCEPT ![s] = definition]
    /\ raced' = (raced \/ UnderWay(s))
    /\ Go(s, "stored")
    /\ UNCHANGED <<versions, saw, requestVars, target, unversioned>>

StoreProposal(a) == cpc[a] = "checked" /\ Store(a, proposed[target[a]])

\* An edit asks for no version: it is based on what its editor saw.
StoreEdit(e) == cpc[e] = "idle" /\ Store(e, saw[e] \cup {e})

\* Rollback saves an earlier version again.
StoreRollback(e) == cpc[e] = "idle" /\ \E v \in 1..Len(versions) : Store(e, versions[v])

\* saveUpdate, the history: SavePipelineVersion, under the next number.
Snapshot(s) == sent[s]

SaveVersion(s) ==
    /\ cpc[s] = "stored" /\ Len(versions) < MaxVersions
    /\ versions' = Append(versions, Snapshot(s))
    /\ raced' = (raced \/ UnderWay(s))
    /\ Go(s, IF s \in Appliers THEN "versioned" ELSE "done")
    /\ UNCHANGED <<current, saw, requestVars, target, sent, unversioned>>

\* The version cannot be saved: the error is ignored, and the save has succeeded.
VersionFails(s) ==
    /\ cpc[s] = "stored"
    /\ unversioned' = TRUE
    /\ Go(s, IF s \in Appliers THEN "versioned" ELSE "done")
    /\ UNCHANGED <<current, versions, saw, requestVars, target, sent, raced>>

\* apply settles the request, with the version that is the latest by now, or with 0.
Settle(a) ==
    /\ cpc[a] = "versioned"
    /\ \E v \in CurrentVersion : Decide(target[a], "applied", v)
    /\ Go(a, "done")
    /\ UNCHANGED <<current, versions, saw, base, proposed, against, target, sent, history>>

\* The process dies in the middle of a save.
Die(s) ==
    /\ cpc[s] \in {"read", "checked", "stored", "versioned"}
    /\ unversioned' = (unversioned \/ cpc[s] = "stored")
    /\ Go(s, "done")
    /\ UNCHANGED <<current, versions, saw, requestVars, target, sent, raced>>
-----------------------------------------------------------------------------
Apply(a) == ReadRequest(a) \/ CheckBase(a) \/ StoreProposal(a) \/ Settle(a)

Next ==
    \/ \E c \in Changes : Look(c)
    \/ \E r \in Requests : BeginCreate(r) \/ Create(r) \/ Decline(r)
    \/ \E e \in Editors : StoreEdit(e) \/ StoreRollback(e)
    \/ \E a \in Appliers : Apply(a)
    \/ \E s \in Savers : SaveVersion(s) \/ VersionFails(s) \/ Die(s)

Spec == Init /\ [][Next]_vars
-----------------------------------------------------------------------------
(* Properties *)

(* A request is settled once: two people who apply it, or one who applies  *)
(* and one who declines, do not overwrite each other's decision.           *)
SettledStays ==
    [][\A r \in Requests :
          status[r] \in Settled => status'[r] = status[r] /\ applied'[r] = applied[r]]_vars

(* An applied request is in the history, whatever else was saved at that   *)
(* moment, unless a version could not be saved; and it is there up to the  *)
(* version the request is recorded with, unless that is the 0 of a list    *)
(* that could not be read.                                                 *)
AppliedIsOnRecord ==
    \A r \in Requests : (status[r] = "applied" /\ ~unversioned) =>
        \E v \in 1..Len(versions) :
            versions[v] = proposed[r] /\ (applied[r] # 0 => v <= applied[r])

(* "When the pipeline has moved on since the request was made, the request *)
(* is stale and cannot be applied": an apply replaces the definition that  *)
(* its request was compared with, and no other, unless saves overlap, a    *)
(* version is missing, or the request was recorded with the base 0 of a    *)
(* list that could not be read: an apply that cannot read it either takes  *)
(* that for the version the pipeline has.                                  *)
StaleIsRefused ==
    [][\A a \in Appliers :
          (/\ cpc[a] = "checked" /\ cpc'[a] = "stored"
           /\ ~raced' /\ ~unversioned /\ base[target[a]] # 0) =>
              current = against[target[a]]]_vars
-----------------------------------------------------------------------------
(* Stated by the code, and refuted by TLC. *)

(* "its definition would overwrite changes its author never saw"           *)
(* (api/change_requests.go:15) is what a stale request is refused for. The *)
(* base version is the one at the time of the create, and not the one that *)
(* the author read: an edit in between is overwritten by the apply.        *)
UnseenIsNotOverwritten ==
    [][\A a \in Appliers :
          (cpc[a] = "checked" /\ cpc'[a] = "stored") =>
              current \subseteq saw[target[a]] \cup {target[a]}]_vars

(* "the pipeline has changed since this request was made (version %d);     *)
(* applying it would undo those changes" (api/change_requests.go:788) is   *)
(* not said of a request whose base could not be read, when the apply      *)
(* cannot read the version either: 0 is compared with 0, and whatever was  *)
(* saved in between is replaced.                                           *)
UnknownBaseIsRefused ==
    [][\A a \in Appliers :
          (cpc[a] = "checked" /\ cpc'[a] = "stored" /\ ~raced' /\ ~unversioned) =>
              current = against[target[a]]]_vars

(* The test has applied_version equal to the latest version                *)
(* (api/change_requests_test.go:150). It is 0 when the list cannot be read *)
(* after the save.                                                         *)
AppliedVersionIsKnown ==
    \A r \in Requests : status[r] = "applied" => applied[r] # 0
=============================================================================

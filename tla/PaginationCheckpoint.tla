------------------------ MODULE PaginationCheckpoint ------------------------
(***************************************************************************)
(* A source_api node that fetches page after page and saves its progress   *)
(* (src/engine/pagination_checkpoint_store.go, fetchSourceAPI in           *)
(* src/engine/node_handlers.go, fetchPaginated in                          *)
(* src/pkg/fetchers/rest_fetcher.go). A save appends the new records to    *)
(* one file and then renames the position over another; a retry of the     *)
(* node, a re-queued run, or a resume of a failed run starts from there.   *)
(*                                                                         *)
(* A page has one record, its number: a dataset is a sequence of page      *)
(* numbers. Pages come in order (fetchBatch keeps the order of a           *)
(* concurrent batch). A file is a sequence of rows, and of lines that      *)
(* cannot be decoded. Left out: max_records, a strategy that changes       *)
(* between two attempts, and the purge of old runs.                        *)
(***************************************************************************)
EXTENDS Integers, Sequences, FiniteSets

CONSTANTS
    Original,       \* the run that is resumed
    Resumes,        \* the runs that resume it
    Pages,          \* how many pages the source has
    Every,          \* checkpoint_every
    MaxFaults,      \* bound: failures and crashes
    TornWrites      \* whether a write of the records can stop half way

ASSUME CheckpointAssumption == {Pages, Every} \subseteq Nat \ {0} /\ MaxFaults \in Nat

Runs == {Original} \cup Resumes

VARIABLES
    records,    \* the NDJSON file of each run's key
    position,   \* its position file
    fpc,        \* where each run's fetch is
    key,        \* sourceRunID: the run whose files it writes
    all,        \* allRecords
    saved,      \* lastCheckpointedCount
    next,       \* the page to fetch
    faults,     \* how many faults there have been
    unclean,    \* history: the keys whose records were left ahead of their position
    shared      \* history: the keys that two runs have written at a time

fetchVars == <<fpc, key, all, saved, next>>
history == <<unclean, shared>>
vars == <<records, position, fetchVars, faults, history>>

Torn == 0                                   \* a piece of a row at the end, with no newline
Garbled == -1                               \* such a piece with another row behind it
NoPosition == [next |-> 1, count |-> -1]
Dataset == [n \in 1..Pages |-> n]           \* what the source holds

TypeOK ==
    /\ \A k \in Runs : \A n \in DOMAIN records[k] : records[k][n] \in Garbled..Pages
    /\ position \in [Runs -> [next : 1..Pages, count : -1..Pages]]
    /\ fpc \in [Runs -> {"idle", "fetch", "append", "rename", "clear", "clearRecords", "success", "failed"}]
    /\ key \in [Runs -> Runs]
    /\ \A r \in Runs : \A n \in DOMAIN all[r] : all[r][n] \in 1..Pages
    /\ saved \in [Runs -> 0..Pages] /\ next \in [Runs -> 1..(Pages + 1)]
    /\ faults \in 0..MaxFaults
    /\ unclean \subseteq Runs /\ shared \subseteq Runs

Init ==
    /\ records = [k \in Runs |-> <<>>]
    /\ position = [k \in Runs |-> NoPosition]
    /\ fpc = [r \in Runs |-> "idle"]
    /\ key = [r \in Runs |-> r]
    /\ all = [r \in Runs |-> <<>>]
    /\ saved = [r \in Runs |-> 0]
    /\ next = [r \in Runs |-> 1]
    /\ faults = 0
    /\ unclean = {} /\ shared = {}
-----------------------------------------------------------------------------
(* The store *)

(* appendCheckpointRecords opens the file with O_APPEND: behind a torn     *)
(* piece, the first row that comes is glued to it, and lost.               *)
Glued(file, rows) ==
    IF file # <<>> /\ rows # <<>> /\ file[Len(file)] = Torn
    THEN SubSeq(file, 1, Len(file) - 1) \o [rows EXCEPT ![1] = IF @ = Torn THEN Torn ELSE Garbled]
    ELSE file \o rows

\* ReadNDJSON fails at the first row that it cannot decode.
Decodes(file) == \A n \in DOMAIN file : file[n] > 0
Readable(k) == Decodes(records[k])

\* LoadCheckpoint finds a position, and no fewer rows than it claims.
Loads(k) ==
    /\ position[k] # NoPosition
    /\ Readable(k)
    /\ Len(records[k]) >= position[k].count

\* What a failing or dying append may leave: some of the rows, and a piece of the next.
Leftovers(delta) ==
    {SubSeq(delta, 1, n) : n \in 0..(Len(delta) - 1)}
        \cup {Append(SubSeq(delta, 1, n), Torn) : n \in 0..(Len(delta) - 1)}

Delta(r) == SubSeq(all[r], saved[r] + 1, Len(all[r]))

Fault == faults < MaxFaults /\ faults' = faults + 1
Go(r, to) == fpc' = [fpc EXCEPT ![r] = to]
Working(r) == fpc[r] \notin {"idle", "success", "failed"}
-----------------------------------------------------------------------------
(* The fetch *)

\* Faulty variant: what the checkpoint brought counts as not yet saved.
StartFromZero(r, k) ==
    /\ key' = [key EXCEPT ![r] = k]
    /\ all' = [all EXCEPT ![r] = SubSeq(records[k], 1, position[k].count)]
    /\ saved' = [saved EXCEPT ![r] = 0]
    /\ next' = [next EXCEPT ![r] = position[k].next]

\* The rows the position counts, and the page it names.
StartFrom(r, k) ==
    /\ key' = [key EXCEPT ![r] = k]
    /\ all' = [all EXCEPT ![r] = SubSeq(records[k], 1, position[k].count)]
    /\ saved' = [saved EXCEPT ![r] = position[k].count]
    /\ next' = [next EXCEPT ![r] = position[k].next]

StartFresh(r) ==
    /\ key' = [key EXCEPT ![r] = r]
    /\ all' = [all EXCEPT ![r] = <<>>]
    /\ saved' = [saved EXCEPT ![r] = 0]
    /\ next' = [next EXCEPT ![r] = 1]

\* A run is resumed once it has failed.
MayBegin(r) == fpc[r] = "idle" /\ (r \in Resumes => fpc[Original] = "failed")

(* fetchSourceAPI: the run's own checkpoint, else the one of the run it    *)
(* resumes, else page one. A checkpoint that cannot be read is left where  *)
(* it is.                                                                  *)
Begin(r) ==
    /\ MayBegin(r)
    /\ IF Loads(r) THEN StartFrom(r, r)
       ELSE IF r \in Resumes /\ Loads(Original) THEN StartFrom(r, Original)
       ELSE StartFresh(r)
    /\ Go(r, "fetch")
    /\ shared' = shared \cup {k \in {key'[r]} : \E s \in Runs \ {r} : Working(s) /\ key[s] = k}
    /\ UNCHANGED <<records, position, faults, unclean>>

\* The last page ends the fetch without a checkpoint.
NextPage(r) ==
    /\ fpc[r] = "fetch"
    /\ all' = [all EXCEPT ![r] = Append(@, next[r])]
    /\ next' = [next EXCEPT ![r] = @ + 1]
    /\ Go(r, IF next[r] = Pages THEN "clear" ELSE IF next[r] % Every = 0 THEN "append" ELSE "fetch")
    /\ UNCHANGED <<records, position, key, saved, faults, history>>

\* SaveCheckpoint, first half: appendCheckpointRecords.
AppendRecords(r) ==
    /\ fpc[r] = "append"
    /\ records' = [records EXCEPT ![key[r]] = Glued(@, Delta(r))]
    /\ Go(r, "rename")
    /\ UNCHANGED <<position, key, all, saved, next, faults, history>>

\* SaveCheckpoint, second half: the position is renamed into place.
RenamePosition(r) ==
    /\ fpc[r] = "rename"
    /\ position' = [position EXCEPT ![key[r]] = [next |-> next[r], count |-> Len(all[r])]]
    /\ saved' = [saved EXCEPT ![r] = Len(all[r])]
    /\ Go(r, "fetch")
    /\ UNCHANGED <<records, key, all, next, faults, history>>

\* DeleteCheckpoint: the position, then the records.
ClearPosition(r) ==
    /\ fpc[r] = "clear"
    /\ position' = [position EXCEPT ![key[r]] = NoPosition]
    /\ Go(r, "clearRecords")
    /\ UNCHANGED <<records, key, all, saved, next, faults, history>>

ClearRecords(r) ==
    /\ fpc[r] = "clearRecords"
    /\ records' = [records EXCEPT ![key[r]] = <<>>]
    /\ Go(r, "success")
    /\ UNCHANGED <<position, key, all, saved, next, faults, history>>
-----------------------------------------------------------------------------
(* Faults *)

\* A page cannot be fetched: the node is retried, or it fails and its run with it.
FetchFails(r) ==
    /\ fpc[r] = "fetch" /\ Fault
    /\ \E to \in {"idle", "failed"} : Go(r, to)
    /\ UNCHANGED <<records, position, key, all, saved, next, history>>

\* The save fails, having written something or nothing: the fetch goes on.
SaveFails(r) ==
    /\ fpc[r] \in {"append", "rename"} /\ Fault
    /\ Go(r, "fetch")
    /\ unclean' = unclean \cup {key[r]}
    /\ \/ TornWrites /\ fpc[r] = "append"
          /\ \E x \in Leftovers(Delta(r)) : records' = [records EXCEPT ![key[r]] = Glued(@, x)]
       \/ UNCHANGED records
    /\ UNCHANGED <<position, key, all, saved, next, shared>>

\* Clearing the checkpoint fails, which is only logged.
ClearFails(r) ==
    /\ fpc[r] \in {"clear", "clearRecords"} /\ Fault
    /\ Go(r, "success")
    /\ unclean' = unclean \cup {key[r]}
    /\ UNCHANGED <<records, position, key, all, saved, next, shared>>

(* The process dies. The run is re-queued, which starts its node again, or *)
(* it is failed; in the middle of a save the file may keep a part of it.   *)
Crash(r) ==
    /\ Working(r) /\ Fault
    /\ \E to \in {"idle", "failed"} : Go(r, to)
    /\ unclean' = IF fpc[r] \in {"append", "rename", "clearRecords"} THEN unclean \cup {key[r]} ELSE unclean
    /\ \/ TornWrites /\ fpc[r] = "append"
          /\ \E x \in Leftovers(Delta(r)) : records' = [records EXCEPT ![key[r]] = Glued(@, x)]
       \/ UNCHANGED records
    /\ UNCHANGED <<position, key, all, saved, next, shared>>
-----------------------------------------------------------------------------
Next ==
    \E r \in Runs :
        \/ Begin(r) \/ NextPage(r) \/ AppendRecords(r) \/ RenamePosition(r)
        \/ ClearPosition(r) \/ ClearRecords(r)
        \/ FetchFails(r) \/ SaveFails(r) \/ ClearFails(r) \/ Crash(r)

Spec == Init /\ [][Next]_vars
-----------------------------------------------------------------------------
(* Properties *)

(* A fetch that succeeds has every page once and in order, whatever        *)
(* retries, crashes and resumes it took, if the files it worked on were    *)
(* never left with more rows than their position counts and never written  *)
(* by two runs at a time.                                                  *)
ResultIsExact ==
    \A r \in Runs : (fpc[r] = "success" /\ key[r] \notin unclean \cup shared) => all[r] = Dataset

(* "The reverse should never happen given that ordering"                   *)
(* (engine/pagination_checkpoint_store.go:203): a file that can be read    *)
(* has the rows its position counts, through failed saves and crashes, as  *)
(* long as one run at a time works on it. SaveCheckpoint appends first,    *)
(* and folds a failed save's rows into the next one.                       *)
PositionIsCovered ==
    \A k \in Runs :
        k \notin shared /\ Readable(k) => Len(records[k]) >= position[k].count
-----------------------------------------------------------------------------
(* Stated by the code, and refuted by TLC. *)

(* "Trust the position, not incidental extra bytes on disk"                *)
(* (engine/pagination_checkpoint_store.go:199): the next save appends      *)
(* behind the extra rows, and the position then counts them in.            *)
ResumedResultIsExact == \A r \in Runs : fpc[r] = "success" => all[r] = Dataset

(* "it never claims more records than are actually on disk"                *)
(* (engine/pagination_checkpoint_store.go:103). A save that is cut short   *)
(* leaves a piece without a newline; the next save's first row is lost in  *)
(* it, and its position counts that row.                                   *)
ClaimedIsOnDisk ==
    \A k \in Runs :
        k \notin shared => Cardinality({n \in DOMAIN records[k] : records[k][n] > 0}) >= position[k].count
=============================================================================

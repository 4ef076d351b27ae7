-------------------------- MODULE ReportingProofs --------------------------
(***************************************************************************)
(* Theorems about what the outside hears of a run: no event is missed by   *)
(* the trigger dispatcher and no delivery it has finished is taken up      *)
(* again, whatever commits and fails in whatever order; and a browser that *)
(* watches a key has been handed every change of it.                       *)
(***************************************************************************)
EXTENDS MCReporting, SequenceTheorems, WellFoundedInduction, TLAPS

(* A transaction that is open is no older than it may become.              *)
OpenIsYoung ==
    \A i \in Ids : (ev[i] = "none" => age[i] = 0) /\ (ev[i] = "open" => age[i] <= MaxOpen)

\* The events that were asked about, or could not be.
Met == considered \cup passedOver

(* What was committed before this unit of time began was asked about when  *)
(* a whole match has been made in it, and before that a match that is      *)
(* under way has it in its batch. What was committed a unit earlier was    *)
(* asked about in any case. All of it while there is a trigger to ask.     *)
Asked(i) ==
    present /\ ev[i] = "done" =>
        /\ age[i] > MaxOpen + 1 => i \in Met
        /\ age[i] > MaxOpen /\ fresh => i \in Met
        /\ \A d \in Dispatchers :
              age[i] > MaxOpen /\ dpc[d] \in {"matching", "matched"} => i \in batch[d] \cup Met

(* The inductive invariant of the matches.                                 *)
MatchInv ==
    /\ ev \in [Ids -> {"none", "open", "done", "aborted"}]
    /\ age \in [Ids -> Nat]
    /\ dpc \in [Dispatchers -> {"idle", "matching", "matched", "send", "sending", "posting"}]
    /\ batch \in [Dispatchers -> SUBSET Ids]
    /\ \A d \in Dispatchers : dpc[d] = "matched" => batch[d] = {}
    /\ OpenIsYoung
    /\ \A i \in Ids : Asked(i)

\* Whether dispatcher d is posting deliveries.
AtPost(d) == dpc[d] \in {"sending", "posting"}

(* What a dispatcher has yet to post, or is posting, is still pending, as  *)
(* long as no other is at it too.                                          *)
DueIsPending(d) ==
    /\ ~AtPost(d) => due[d] = {}
    /\ dpc[d] = "posting" => post[d] \in Runs \X {"ok", "bad"} /\ post[d][1] \notin due[d]
    /\ ~overlap =>
          /\ \A e \in Dispatchers \ {d} : ~(AtPost(d) /\ AtPost(e))
          /\ \A r \in due[d] : del[r] = "pending"
          /\ dpc[d] = "posting" => del[post[d][1]] = "pending"

(* The inductive invariant of the posts.                                   *)
SendInv ==
    /\ del \in [Runs -> Finished \cup {"none", "pending"}]
    /\ dpc \in [Dispatchers -> {"idle", "matching", "matched", "send", "sending", "posting"}]
    /\ due \in [Dispatchers -> SUBSET Runs]
    /\ post \in [Dispatchers -> (Runs \X {"ok", "bad"}) \cup {<<>>}]
    /\ overlap \in BOOLEAN
    /\ \A d \in Dispatchers : DueIsPending(d)
-----------------------------------------------------------------------------
(* Matches                                                                 *)

\* Steps that leave the matches as they are, but for the place of one dispatcher.
LEMMA MatchFrame ==
    ASSUME MatchInv, UNCHANGED <<ev, age, considered, passedOver>>, present' => present, fresh' = fresh, batch' = batch,
           dpc' \in [Dispatchers -> {"idle", "matching", "matched", "send", "sending", "posting"}],
           \A d \in Dispatchers : dpc'[d] = dpc[d] \/ dpc'[d] \notin {"matching", "matched"}
    PROVE  MatchInv'
<1>1. \A i \in Ids : Asked(i)'
  BY DEF MatchInv, Asked, Met
<1>2. OpenIsYoung'
  BY DEF MatchInv, OpenIsYoung
<1> QED
  BY <1>1, <1>2 DEF MatchInv

\* The steps of a match.
LEMMA MatchPassStep ==
    ASSUME MatchInv, MaxOpen < Margin, NEW d \in Dispatchers, BeginPass(d) \/ Enqueue(d) \/ PassOver(d) \/ MoveCursor(d)
    PROVE  MatchInv'
<1>1. CASE BeginPass(d)
  <2> DEFINE found == {i \in Ids : Scanned(i)}
  <2>1. /\ UNCHANGED <<ev, age, considered, passedOver, present>>
        /\ dpc' = [dpc EXCEPT ![d] = AfterScan(found)]
        /\ batch' = [batch EXCEPT ![d] = IF present THEN found ELSE {}]
        /\ fresh' = (fresh \/ found = {})
    BY <1>1 DEF BeginPass, Go, log, rows, asked
  <2>2. ASSUME NEW i \in Ids, present, ev[i] = "done", age[i] > MaxOpen
        PROVE  i \in found \/ i \in Met
    <3>1. Asked(i) /\ age[i] \in Nat /\ MaxOpen \in Nat /\ Margin \in Nat
      BY ReportingAssumption DEF MatchInv
    <3>2. CASE age[i] <= Margin
      BY <2>2, <3>2 DEF Scanned
    <3>3. CASE age[i] > Margin
      BY <2>2, <3>1, <3>3 DEF Asked
    <3> QED
      BY <3>1, <3>2, <3>3
  <2>3. /\ AfterScan(found) \in {"send", "matching", "matched"} /\ (AfterScan(found) = "send" => found = {})
        /\ AfterScan(found) = "matched" => ~present
    BY DEF AfterScan
  <2>4. \A i \in Ids : Asked(i)'
    BY <2>1, <2>2, <2>3 DEF MatchInv, Asked, Met
  <2>5. OpenIsYoung'
    BY <2>1 DEF MatchInv, OpenIsYoung
  <2> QED
    BY <2>1, <2>3, <2>4, <2>5 DEF MatchInv
<1>2. CASE Enqueue(d) \/ PassOver(d)
  <2>1. PICK x : /\ batch' = [batch EXCEPT ![d] = @ \ {x}] /\ Met' = Met \cup {x}
                 /\ dpc' = [dpc EXCEPT ![d] = IF batch[d] = {x} THEN "matched" ELSE "matching"]
    BY <1>2 DEF Enqueue, PassOver, Takes, Go, Met
  <2>2. UNCHANGED <<ev, age, fresh, present>> /\ dpc[d] = "matching"
    BY <1>2 DEF Enqueue, PassOver, log, rows
  <2>3. \A i \in Ids : Asked(i)'
    BY <2>1, <2>2 DEF MatchInv, Asked
  <2>4. OpenIsYoung'
    BY <2>2 DEF MatchInv, OpenIsYoung
  <2> QED
    BY <2>1, <2>2, <2>3, <2>4 DEF MatchInv
<1>3. CASE MoveCursor(d)
  <2>1. /\ UNCHANGED <<ev, age, batch, considered, passedOver, present>>
        /\ dpc[d] = "matched" /\ fresh' /\ dpc' = [dpc EXCEPT ![d] = "send"]
    BY <1>3 DEF MoveCursor, Go, log, asked
  <2>2. \A i \in Ids : Asked(i)'
    BY <2>1 DEF MatchInv, Asked, Met
  <2>3. OpenIsYoung'
    BY <2>1 DEF MatchInv, OpenIsYoung
  <2> QED
    BY <2>1, <2>2, <2>3 DEF MatchInv
<1> QED
  BY <1>1, <1>2, <1>3

\* Events come, transactions end, and time passes when a match has been made.
LEMMA MatchClockStep ==
    ASSUME MatchInv, MaxOpen < Margin, ~MayStall,
           TimePasses \/ \E i \in Ids : Draw(i) \/ Commit(i)
    PROVE  MatchInv'
<1>0. MaxOpen \in Nat /\ Margin \in Nat
  BY ReportingAssumption
<1>1. ASSUME NEW i \in Ids, Draw(i) \/ Commit(i)
      PROVE  MatchInv'
  <2>1. /\ UNCHANGED <<age, dpc, batch, fresh, considered, passedOver, present>>
        /\ \E to \in {"open", "done", "aborted"} : ev' = [ev EXCEPT ![i] = to]
        /\ age[i] <= MaxOpen /\ ev[i] \in {"none", "open"}
    BY <1>0, <1>1 DEF Draw, Commit, pass, rows, asked, MatchInv, OpenIsYoung
  <2>2. \A j \in Ids : Asked(j)'
    BY <1>0, <2>1 DEF MatchInv, Asked, Met
  <2>3. OpenIsYoung'
    BY <1>0, <1>1, <2>1 DEF MatchInv, OpenIsYoung, Draw, Commit
  <2> QED
    BY <2>1, <2>2, <2>3 DEF MatchInv
<1>2. CASE TimePasses
  <2>1. /\ UNCHANGED <<ev, dpc, batch, considered, passedOver, present>>
        /\ fresh /\ ~Matching /\ ~fresh'
        /\ \A i \in Ids : ev[i] = "open" => age[i] < MaxOpen
        /\ age' = [i \in Ids |-> IF ev[i] = "none" THEN 0 ELSE Older(age[i], Margin + 1)]
    BY <1>2 DEF TimePasses, asked
  <2>2. ASSUME NEW i \in Ids
        PROVE  /\ age'[i] \in Nat
               /\ ev[i] = "none" => age'[i] = 0
               /\ ev[i] # "none" => age'[i] <= age[i] + 1 \/ (age'[i] = Margin + 1 /\ age[i] >= Margin + 1)
    BY <1>0, <2>1 DEF Older, MatchInv
  <2>3. ASSUME NEW i \in Ids
        PROVE  Asked(i)'
    <3>1. ev[i] = "done" /\ age'[i] > MaxOpen + 1 => age[i] > MaxOpen /\ age[i] \in Nat
      BY <1>0, <2>2 DEF MatchInv
    <3> QED
      BY <2>1, <3>1 DEF MatchInv, Asked, Matching, Met
  <2>4. OpenIsYoung'
    BY <1>0, <2>1, <2>2 DEF MatchInv, OpenIsYoung
  <2>5. age' \in [Ids -> Nat]
    BY <2>1, <2>2
  <2> QED
    BY <2>1, <2>3, <2>4, <2>5 DEF MatchInv
<1> QED
  BY <1>1, <1>2

\* What fails leaves no match behind it.
LEMMA MatchFaultStep ==
    ASSUME MatchInv, NEW d \in Dispatchers, MatchFails(d) \/ Crash(d)
    PROVE  MatchInv'
<1>1. /\ UNCHANGED <<ev, age, fresh, considered, passedOver, present>> /\ batch' = [batch EXCEPT ![d] = {}]
      /\ \E to \in {"send", "idle"} : dpc' = [dpc EXCEPT ![d] = to]
  BY DEF MatchFails, Crash, Go, log, rows, asked
<1>2. \A i \in Ids : Asked(i)'
  BY <1>1 DEF MatchInv, Asked, Met
<1>3. OpenIsYoung'
  BY <1>1 DEF MatchInv, OpenIsYoung
<1> QED
  BY <1>1, <1>2, <1>3 DEF MatchInv

(* Every step of the triggers keeps the invariant of the matches.          *)
LEMMA MatchStep ==
    ASSUME MatchInv, MaxOpen < Margin, ~MayStall, [Next]_vars
    PROVE  MatchInv'
<1>1. ASSUME NEW d \in Dispatchers, ReadDue(d) \/ Post(d) \/ Skip(d) \/ RecordAttempt(d) \/ EndPass(d)
      PROVE  MatchInv'
  <2>1. /\ UNCHANGED <<ev, age, considered, passedOver, present, fresh, batch>>
        /\ dpc' = dpc \/ \E to \in {"sending", "posting", "idle"} : dpc' = [dpc EXCEPT ![d] = to]
    BY <1>1 DEF ReadDue, Post, Skip, RecordAttempt, EndPass, Go, log, rows, asked
  <2>2. /\ dpc' \in [Dispatchers -> {"idle", "matching", "matched", "send", "sending", "posting"}]
        /\ \A e \in Dispatchers : dpc'[e] = dpc[e] \/ dpc'[e] \notin {"matching", "matched"}
    BY <2>1 DEF MatchInv
  <2> QED
    BY <2>1, <2>2, MatchFrame
<1>2. CASE UNCHANGED vars \/ DeleteTrigger
  <2>1. UNCHANGED <<ev, age, considered, passedOver, fresh, batch, dpc>> /\ (present' => present)
    BY <1>2 DEF vars, log, pass, rows, asked, DeleteTrigger
  <2> QED
    BY <2>1, MatchFrame DEF MatchInv
<1> QED
  BY <1>1, <1>2, MatchPassStep, MatchClockStep, MatchFaultStep DEF Next, PassStep
-----------------------------------------------------------------------------
(* Posts                                                                   *)

\* A step that is not about posting: a pending delivery stays so.
AsideOfPosts ==
    /\ UNCHANGED <<post, overlap>>
    /\ del' \in [Runs -> Finished \cup {"none", "pending"}]
    /\ dpc' \in [Dispatchers -> {"idle", "matching", "matched", "send", "sending", "posting"}]
    /\ due' \in [Dispatchers -> SUBSET Runs]
    /\ \A r \in Runs : del[r] = "pending" => del'[r] = "pending"
    /\ \A d \in Dispatchers : \/ dpc'[d] = dpc[d] /\ due'[d] = due[d]
                              \/ dpc'[d] \notin {"sending", "posting"} /\ due'[d] = {}

\* A step that is aside of posts.
LEMMA SendFrame ==
    ASSUME SendInv, AsideOfPosts
    PROVE  SendInv'
<1>1. ASSUME NEW d \in Dispatchers
      PROVE  DueIsPending(d)'
  <2>1. \A e \in Dispatchers : AtPost(e)' => AtPost(e) /\ dpc'[e] = dpc[e] /\ due'[e] = due[e]
    BY DEF AtPost, AsideOfPosts
  <2>2. due[d] \subseteq Runs /\ DueIsPending(d)
    BY DEF SendInv
  <2>3. ~AtPost(d)' => due'[d] = {}
    BY <2>2 DEF DueIsPending, AtPost, AsideOfPosts
  <2>4. dpc'[d] = "posting" => AtPost(d)' /\ post[d] \in Runs \X {"ok", "bad"} /\ post[d][1] \in Runs
    BY <2>1, <2>2 DEF DueIsPending, AtPost, AsideOfPosts
  <2> QED
    BY <2>1, <2>2, <2>3, <2>4 DEF DueIsPending, AtPost, AsideOfPosts
<1> QED
  BY <1>1 DEF SendInv, AsideOfPosts

\* A send begins, and nobody else's was under way or it is on record.
LEMMA ReadDueStep ==
    ASSUME SendInv, NEW d \in Dispatchers, ReadDue(d)
    PROVE  SendInv'
<1>1. /\ UNCHANGED <<del, post>> /\ dpc[d] = "send" /\ dpc' = [dpc EXCEPT ![d] = "sending"]
      /\ due' = [due EXCEPT ![d] = {r \in Runs : present /\ del[r] = "pending" /\ wait[r] = 0}]
      /\ overlap' = (overlap \/ \E e \in Dispatchers \ {d} : AtPost(e))
  BY DEF ReadDue, Go, rows, AtPost
<1>2. /\ dpc' \in [Dispatchers -> {"idle", "matching", "matched", "send", "sending", "posting"}]
      /\ due' \in [Dispatchers -> SUBSET Runs] /\ overlap' \in BOOLEAN
      /\ dpc'[d] = "sending" /\ due'[d] = {r \in Runs : present /\ del[r] = "pending" /\ wait[r] = 0}
      /\ \A e \in Dispatchers \ {d} : dpc'[e] = dpc[e] /\ due'[e] = due[e]
  BY <1>1 DEF SendInv
<1>3. ASSUME NEW e \in Dispatchers
      PROVE  DueIsPending(e)'
  <2>1. DueIsPending(e) /\ DueIsPending(d)
    BY DEF SendInv
  <2>2. CASE e = d
    BY <1>1, <1>2, <2>1, <2>2 DEF DueIsPending, AtPost
  <2>3. CASE e # d
    BY <1>1, <1>2, <2>1, <2>3 DEF DueIsPending, AtPost
  <2> QED
    BY <2>2, <2>3
<1> QED
  BY <1>1, <1>2, <1>3 DEF SendInv

\* A delivery is posted, skipped, or its attempt recorded: by the only one who sends.
LEMMA SendingStep ==
    ASSUME SendInv, NEW d \in Dispatchers, Post(d) \/ Skip(d) \/ RecordAttempt(d)
    PROVE  SendInv'
<1>1. AtPost(d) /\ DueIsPending(d) /\ overlap' = overlap
  BY DEF Post, Skip, RecordAttempt, AtPost, SendInv
<1>2. PICK r \in Runs :
         /\ \/ r \in due[d] /\ dpc[d] = "sending"
            \/ dpc[d] = "posting" /\ r \notin due[d] /\ dpc'[d] = "sending" /\ post'[d] = <<>>
         /\ due' = [due EXCEPT ![d] = @ \ {r}]
         /\ dpc' \in [Dispatchers -> {"idle", "matching", "matched", "send", "sending", "posting"}]
         /\ dpc'[d] \in {"sending", "posting"} /\ \A e \in Dispatchers \ {d} : dpc'[e] = dpc[e] /\ post'[e] = post[e]
         /\ dpc'[d] = "posting" => post'[d] \in Runs \X {"ok", "bad"} /\ post'[d][1] = r /\ del' = del /\ dpc[d] = "sending"
         /\ post' \in [Dispatchers -> (Runs \X {"ok", "bad"}) \cup {<<>>}]
         /\ del' \in [Runs -> Finished \cup {"none", "pending"}]
         /\ \A s \in Runs \ {r} : del'[s] = del[s]
  <2>1. CASE Post(d)
    <3>1. PICK r \in due[d], a \in {"ok", "bad"} :
             post' = [post EXCEPT ![d] = <<r, a>>] /\ due' = [due EXCEPT ![d] = @ \ {r}]
      BY <2>1 DEF Post
    <3>2. dpc[d] = "sending" /\ dpc' = [dpc EXCEPT ![d] = "posting"] /\ del' = del /\ r \in Runs
      BY <2>1, <3>1 DEF Post, Go, rows, SendInv
    <3>3. <<r, a>> \in Runs \X {"ok", "bad"} /\ <<r, a>>[1] = r
      BY <3>1, <3>2
    <3> QED
      BY <3>1, <3>2, <3>3 DEF SendInv
  <2>2. CASE Skip(d)
    <3>1. PICK r \in due[d] : del' = [del EXCEPT ![r] = "skipped"] /\ due' = [due EXCEPT ![d] = @ \ {r}]
      BY <2>2 DEF Skip
    <3>2. dpc[d] = "sending" /\ UNCHANGED <<dpc, post>> /\ r \in Runs
      BY <2>2, <3>1 DEF Skip, SendInv
    <3> QED
      BY <3>1, <3>2 DEF SendInv, Finished
  <2>3. CASE RecordAttempt(d)
    <3>1. dpc[d] = "posting" /\ post[d] \in Runs \X {"ok", "bad"} /\ post[d][1] \notin due[d] /\ post[d][1] \in Runs
      BY <1>1, <2>3 DEF RecordAttempt, DueIsPending
    <3>2. PICK r \in Runs : r = post[d][1]
      BY <3>1
    <3>3. /\ del' = [del EXCEPT ![r] = Outcome(r, post[d][2])] /\ UNCHANGED due
          /\ post' = [post EXCEPT ![d] = <<>>] /\ dpc' = [dpc EXCEPT ![d] = "sending"]
      BY <2>3, <3>2 DEF RecordAttempt, Go
    <3>4. Outcome(r, post[d][2]) \in {"delivered", "failed", "pending"}
      BY DEF Outcome
    <3> QED
      BY <3>1, <3>2, <3>3, <3>4 DEF SendInv, Finished
  <2> QED
    BY <2>1, <2>2, <2>3
<1>3. ASSUME NEW e \in Dispatchers
      PROVE  DueIsPending(e)'
  <2>1. DueIsPending(e) /\ due[d] \subseteq Runs /\ due[e] \subseteq Runs /\ due'[d] = due[d] \ {r}
    BY <1>2 DEF SendInv
  <2>2. CASE e = d
    <3>1. \A x \in Dispatchers \ {d} : AtPost(x)' => AtPost(x)
      BY <1>2 DEF AtPost
    <3> QED
      BY <1>1, <1>2, <2>1, <2>2, <3>1 DEF DueIsPending, AtPost
  <2>3. CASE e # d
    <3>1. dpc'[e] = dpc[e] /\ due'[e] = due[e] /\ post'[e] = post[e]
      BY <1>2, <2>3 DEF SendInv
    <3>2. \A x \in Dispatchers : AtPost(x)' => AtPost(x)
      BY <1>1, <1>2 DEF AtPost
    <3>3. ~overlap => ~AtPost(e) /\ due[e] = {}
      BY <1>1, <2>1, <2>3 DEF DueIsPending
    <3> QED
      BY <1>1, <2>1, <3>1, <3>2, <3>3 DEF DueIsPending, AtPost
  <2> QED
    BY <2>2, <2>3
<1> QED
  BY <1>1, <1>2, <1>3 DEF SendInv

(* Every step of the triggers keeps the invariant of the posts.            *)
LEMMA SendStep ==
    ASSUME SendInv, [Next]_vars
    PROVE  SendInv'
<1>1. CASE UNCHANGED vars \/ TimePasses \/ DeleteTrigger \/ \E i \in Ids : Draw(i) \/ Commit(i)
  <2>1. UNCHANGED <<del, dpc, due, post, overlap>>
    BY <1>1 DEF vars, rows, pass, TimePasses, DeleteTrigger, Draw, Commit
  <2>2. AsideOfPosts
    BY <2>1 DEF SendInv, AsideOfPosts
  <2> QED
    BY <2>2, SendFrame
<1>2. ASSUME NEW d \in Dispatchers, BeginPass(d) \/ MoveCursor(d) \/ EndPass(d) \/ PassOver(d) \/ MatchFails(d) \/ Crash(d)
      PROVE  SendInv'
  <2>0. DueIsPending(d) /\ due[d] \subseteq Runs
    BY DEF SendInv
  <2>1. /\ UNCHANGED <<del, overlap>>
        /\ \E to \in {"idle", "matching", "matched", "send"} : dpc' = [dpc EXCEPT ![d] = to]
        /\ \/ UNCHANGED <<due, post>> /\ due[d] = {}
           \/ due' = [due EXCEPT ![d] = {}] /\ post' = [post EXCEPT ![d] = <<>>]
    <3>1. CASE BeginPass(d) \/ MoveCursor(d) \/ PassOver(d) \/ MatchFails(d)
      BY <2>0, <3>1 DEF BeginPass, MoveCursor, PassOver, MatchFails, Takes, Go, rows, AfterScan, AtPost, DueIsPending
    <3>2. CASE EndPass(d)
      BY <3>2 DEF EndPass, Go, rows
    <3>3. CASE Crash(d)
      BY <3>3 DEF Crash, Go, rows
    <3> QED
      BY <1>2, <3>1, <3>2, <3>3
  <2>2. /\ dpc' \in [Dispatchers -> {"idle", "matching", "matched", "send", "sending", "posting"}]
        /\ due' \in [Dispatchers -> SUBSET Runs]
        /\ post' \in [Dispatchers -> (Runs \X {"ok", "bad"}) \cup {<<>>}]
        /\ \A e \in Dispatchers \ {d} : dpc'[e] = dpc[e] /\ due'[e] = due[e] /\ post'[e] = post[e]
        /\ due'[d] = {} /\ dpc'[d] \in {"idle", "matching", "matched", "send"}
    BY <2>1 DEF SendInv
  <2>3. ASSUME NEW e \in Dispatchers
        PROVE  DueIsPending(e)'
    <3>1. DueIsPending(e)
      BY DEF SendInv
    <3> QED
      BY <2>1, <2>2, <3>1 DEF DueIsPending, AtPost
  <2> QED
    BY <2>1, <2>2, <2>3 DEF SendInv
<1>3. ASSUME NEW d \in Dispatchers, Enqueue(d)
      PROVE  SendInv'
  <2>1. /\ post' = post /\ overlap' = overlap /\ due' = due
        /\ \E to \in {"matching", "matched"} : dpc' = [dpc EXCEPT ![d] = to]
        /\ dpc[d] = "matching"
        /\ \E new : /\ del' = [r \in Runs |-> IF r \in new THEN "pending" ELSE del[r]]
    BY <1>3 DEF Enqueue, Takes, Go
  <2>2. due[d] = {}
    BY <2>1 DEF SendInv, DueIsPending, AtPost
  <2>3. /\ del' \in [Runs -> Finished \cup {"none", "pending"}]
        /\ \A r \in Runs : del[r] = "pending" => del'[r] = "pending"
        /\ dpc' \in [Dispatchers -> {"idle", "matching", "matched", "send", "sending", "posting"}]
        /\ due' \in [Dispatchers -> SUBSET Runs]
    BY <2>1 DEF SendInv
  <2>4. ASSUME NEW e \in Dispatchers
        PROVE  \/ dpc'[e] = dpc[e] /\ due'[e] = due[e]
               \/ dpc'[e] \notin {"sending", "posting"} /\ due'[e] = {}
    BY <2>1, <2>2 DEF SendInv, AtPost
  <2> QED
    <3>1. AsideOfPosts
      BY <2>1, <2>3, <2>4 DEF AsideOfPosts
    <3> QED
      BY <3>1, SendFrame
<1> QED
  BY <1>1, <1>2, <1>3, ReadDueStep, SendingStep DEF Next, PassStep

(* While one at most posts, what is finished is not in its hands.          *)
LEMMA SendKeepsFinished ==
    ASSUME SendInv, [Next]_vars, ~overlap, NEW r \in Runs, del[r] \in Finished
    PROVE  del'[r] = del[r]
<1>1. del[r] # "pending" /\ del[r] # "none" /\ \A d \in Dispatchers : DueIsPending(d)
  BY DEF SendInv, Finished
<1>2. ASSUME NEW d \in Dispatchers, Enqueue(d)
      PROVE  del'[r] = del[r]
  BY <1>1, <1>2 DEF Enqueue, Records
<1>3. ASSUME NEW d \in Dispatchers, Skip(d)
      PROVE  del'[r] = del[r]
  <2>1. PICK s \in due[d] : del' = [del EXCEPT ![s] = "skipped"]
    BY <1>3 DEF Skip
  <2> QED
    BY <1>1, <2>1 DEF DueIsPending, SendInv
<1>4. ASSUME NEW d \in Dispatchers, RecordAttempt(d)
      PROVE  del'[r] = del[r]
  <2>1. dpc[d] = "posting" /\ del' = [del EXCEPT ![post[d][1]] = Outcome(post[d][1], post[d][2])]
    BY <1>4 DEF RecordAttempt
  <2> QED
    BY <1>1, <2>1 DEF DueIsPending, SendInv
<1> QED
  BY <1>2, <1>3, <1>4 DEF Next, PassStep, Draw, Commit, BeginPass, MoveCursor, ReadDue, Post, EndPass,
     PassOver, MatchFails, Crash, DeleteTrigger, TimePasses, vars, rows
-----------------------------------------------------------------------------
(* Events and deliveries, over all steps                                   *)

(* No event that is committed and older than the margin was left unasked,  *)
(* but for one whose run or pipeline could not be read, when there is a    *)
(* whole match in every unit of time and no transaction stays open for as  *)
(* long as the margin: recentMargin and match of                           *)
(* agent_trigger_dispatch.go, whatever commits in whatever order.          *)
THEOREM TriggersMissNothing ==
    ASSUME MaxOpen < Margin, ~MayStall
    PROVE  MCSpec => []NoEventIsMissed
<1>1. MCInit => MatchInv
  BY DEF MCInit, Init, MatchInv, OpenIsYoung, Asked
<1>2. MatchInv /\ [MCNext]_allVars => MatchInv'
  <2>1. [MCNext]_allVars => [Next]_vars
    BY DEF MCNext, Triggering, Watching, allVars
  <2> QED
    BY <2>1, MatchStep
<1>3. MatchInv => NoEventIsMissed
  BY ReportingAssumption DEF MatchInv, Asked, NoEventIsMissed, Met
<1> QED
  BY <1>1, <1>2, <1>3, PTL DEF MCSpec

(* A delivery that is delivered, skipped or given up stays so, as long as  *)
(* no two dispatchers have been posting at a time: deliver and             *)
(* RecordAttempt of agent_trigger_deliveries.go, which look at no status.  *)
THEOREM TriggersKeepFinished == MCSpec => FinishedStays
<1>1. ASSUME MCInit PROVE SendInv
  <2>1. /\ del = [r \in Runs |-> "none"] /\ dpc = [d \in Dispatchers |-> "idle"] /\ overlap = FALSE
        /\ due = [d \in Dispatchers |-> {}] /\ post = [d \in Dispatchers |-> <<>>]
    BY <1>1 DEF MCInit, Init
  <2>2. \A d \in Dispatchers : DueIsPending(d)
    BY <2>1 DEF DueIsPending, AtPost
  <2> QED
    BY <2>1, <2>2 DEF SendInv
<1>2. SendInv /\ [MCNext]_allVars => SendInv' /\ [Next]_vars
  <2>1. [MCNext]_allVars => [Next]_vars
    BY DEF MCNext, Triggering, Watching, allVars
  <2> QED
    BY <2>1, SendStep
<1>3. SendInv /\ [Next]_vars => [\A r \in Runs : (del[r] \in Finished /\ ~overlap) => del'[r] = del[r]]_vars
  BY SendKeepsFinished
<1> QED
  BY <1>1, <1>2, <1>3, PTL DEF MCSpec, FinishedStays
-----------------------------------------------------------------------------
(* A browser that watches a key                                            *)

\* A set of naturals that holds with every number the next one, and 0, has them all.
LEMMA NaturalsFollow ==
    ASSUME NEW T, 0 \in T, \A n \in Nat : n \in T => n + 1 \in T
    PROVE  Nat \subseteq T
<1> DEFINE U == Nat \ T
<1> SUFFICES ASSUME U # {}
             PROVE  FALSE
  OBVIOUS
<1>1. PICK x \in U : \A y \in U : ~(<<y, x>> \in OpToRel(<, Nat))
  <2>1. U \subseteq Nat
    OBVIOUS
  <2> HIDE DEF U
  <2> QED
    BY <2>1, NatLessThanWellFounded, WFMin
<1>2. \A y \in U : ~(y < x)
  BY <1>1 DEF OpToRel
<1>3. x \in Nat /\ x # 0 /\ x - 1 \in Nat /\ x - 1 < x /\ (x - 1) + 1 = x
  OBVIOUS
<1>4. x - 1 \notin U
  BY <1>2, <1>3
<1> QED
  BY <1>3, <1>4

Frame == [type : {"init", "delta"}, v : Nat, has : SUBSET Nat]
Yet == {delta[m] : m \in Mutators} \ {0}

\* One of the first k frames of s has change w.
InFirst(s, k, w) == \E j \in 1..k : w \in s[j].has

\* Change w was handed to client c or is queued for it; or it is known to its session at least.
Queued(c, w) == w \in got[c] \/ InFirst(send[c], Len(send[c]), w)
Known(c, w) == Queued(c, w) \/ InFirst(read[c], Len(read[c]), w) \/ w \in Yet

(* What the variables of the key hold.                                     *)
KeyTypes ==
    /\ version \in Nat /\ entry \in 0..version /\ value \subseteq 1..version
    /\ deltas \in Seq(1..version) /\ delta \in [Mutators -> 0..version]

(* The log goes up, and has whatever the value is made of since its first. *)
LogIsComplete ==
    /\ \A j, k \in 1..Len(deltas) : j < k => deltas[j] < deltas[k]
    /\ \A w \in value : deltas # <<>> /\ (w >= deltas[1] => \E k \in 1..Len(deltas) : deltas[k] = w)

(* What a session has, by what it is doing.                                *)
SessionTypes ==
    /\ conn \in [Clients -> {"off", "on", "subscribed", "read", "found", "replay"}]
    /\ sub \in [Clients -> BOOLEAN] /\ init \in [Clients -> BOOLEAN]
    /\ read \in [Clients -> Seq(Frame)] /\ send \in [Clients -> Seq(Frame)]
    /\ got \in [Clients -> SUBSET Nat] /\ seen \in [Clients -> Nat]
    /\ slow \in [Clients -> BOOLEAN] /\ raced \in [Clients -> BOOLEAN]

SessionShape(c) ==
    /\ conn[c] \in {"off", "found"} => ~sub[c]
    /\ conn[c] \in {"subscribed", "read", "replay"} => sub[c]
    /\ ~sub[c] => send[c] = <<>>
    /\ conn[c] \in {"off", "on", "subscribed"} => read[c] = <<>>
    /\ conn[c] = "read" => Len(read[c]) = 1
    /\ conn[c] \in {"found", "replay"} => read[c] # <<>> /\ init[c]
    /\ conn[c] \in {"subscribed", "read"} => \A k \in 1..Len(send[c]) : send[c][k].type = "delta"
    /\ ~init[c] => seen[c] = 0

\* Nothing is ahead of the version.
NothingAhead(c) ==
    /\ seen[c] <= version
    /\ \A k \in 1..Len(send[c]) : send[c][k].v <= version
    /\ \A k \in 1..Len(read[c]) : read[c][k].v <= version

\* Whatever the value is made of is known to the session of a client that watches.
NothingIsLost(c) ==
    (sub[c] \/ conn[c] = "found") /\ conn[c] # "subscribed" => \A w \in value : Known(c, w)

\* A frame whose version the client will remember comes after all that is older.
SendInOrder(c) ==
    \A k \in 1..Len(send[c]), w \in value :
        (init[c] \/ \E j \in 1..k : send[c][j].type = "init") /\ w <= send[c][k].v =>
            w \in got[c] \/ InFirst(send[c], k, w)
ReadInOrder(c) ==
    \A k \in 1..Len(read[c]), w \in value :
        w <= read[c][k].v => Queued(c, w) \/ InFirst(read[c], k, w)

\* The client was handed all that is older than the version it remembers.
SeenIsHanded(c) == init[c] => \A w \in value : w <= seen[c] => w \in got[c]

Undisturbed(c) == NothingIsLost(c) /\ SendInOrder(c) /\ ReadInOrder(c) /\ SeenIsHanded(c)

ClientInv(c) ==
    /\ SessionShape(c) /\ NothingAhead(c)
    /\ ~slow[c] /\ ~raced[c] => Undisturbed(c)

WatchInv ==
    /\ KeyTypes /\ LogIsComplete /\ SessionTypes
    /\ \A c \in Clients : ClientInv(c)
-----------------------------------------------------------------------------
(* The log                                                                 *)

\* f is what is selected of the log, delta by delta.
IsSelection(f, since, n) ==
    f = [k \in 0..n |-> IF k = 0 THEN <<>>
                        ELSE IF deltas[k] > since THEN Append(f[k - 1], deltas[k]) ELSE f[k - 1]]

\* The function that DeltasSince defines by recursion is there.
LEMMA SelectionExists ==
    ASSUME NEW since
    PROVE  \A n \in Nat : \E f : IsSelection(f, since, n)
<1> DEFINE T == {n \in Nat : \E f : IsSelection(f, since, n)}
           Next1(s, k) == IF deltas[k] > since THEN Append(s, deltas[k]) ELSE s
<1>1. 0 \in T
  <2> DEFINE f == [k \in 0..0 |-> <<>>]
  <2>1. IsSelection(f, since, 0)
    BY DEF IsSelection
  <2> QED
    BY <2>1
<1>2. ASSUME NEW n \in Nat, n \in T
      PROVE  n + 1 \in T
  <2>1. PICK f : IsSelection(f, since, n)
    BY <1>2
  <2> DEFINE g == [k \in 0..(n + 1) |-> IF k = n + 1 THEN Next1(f[n], n + 1) ELSE f[k]]
  <2>2. f = [k \in 0..n |-> IF k = 0 THEN <<>> ELSE Next1(f[k - 1], k)]
    BY <2>1 DEF IsSelection
  <2> HIDE DEF Next1
  <2>3. \A k \in 0..n : f[k] = IF k = 0 THEN <<>> ELSE Next1(f[k - 1], k)
    BY <2>2
  <2>4. ASSUME NEW k \in 0..(n + 1)
        PROVE  g[k] = IF k = 0 THEN <<>> ELSE Next1(g[k - 1], k)
    <3>1. CASE k = n + 1
      <4>1. g[k] = Next1(f[n], k) /\ g[k - 1] = f[n] /\ k # 0
        BY <3>1
      <4> QED
        BY <4>1
    <3>2. CASE k # n + 1 /\ k # 0
      <4>1. k \in 0..n /\ k - 1 \in 0..(n + 1) /\ k - 1 # n + 1
        BY <3>2
      <4>2. g[k] = f[k] /\ g[k - 1] = f[k - 1]
        BY <4>1, <3>2
      <4> QED
        BY <2>3, <3>2, <4>1, <4>2
    <3>3. CASE k = 0
      BY <2>3, <3>3
    <3> QED
      BY <3>1, <3>2, <3>3
  <2>5. g = [k \in 0..(n + 1) |-> IF k = 0 THEN <<>> ELSE Next1(g[k - 1], k)]
    <3>1. g = [k \in 0..(n + 1) |-> g[k]]
      OBVIOUS
    <3> HIDE DEF g
    <3> QED
      BY <2>4, <3>1
  <2>6. IsSelection(g, since, n + 1)
    BY <2>5 DEF IsSelection, Next1
  <2> QED
    BY <2>6
<1> HIDE DEF T
<1>3. Nat \subseteq T
  BY <1>1, <1>2, NaturalsFollow
<1> QED
  BY <1>3 DEF T

\* The sequence s has, in order, what the first k deltas of the log have after version since.
Selected(s, since, k) ==
    /\ s \in Seq(1..version)
    /\ \A j \in 1..Len(s) : s[j] > since /\ \E i \in 1..k : deltas[i] = s[j]
    /\ \A i \in 1..k : deltas[i] > since => \E j \in 1..Len(s) : s[j] = deltas[i]
    /\ \A i, j \in 1..Len(s) : i < j => s[i] < s[j]

(* DeltasSince (pkg/sodp/state.go) returns the deltas of the log that are  *)
(* later, all of them and oldest first.                                    *)
THEOREM DeltasAreSelected ==
    ASSUME KeyTypes, LogIsComplete, NEW since \in Nat
    PROVE  Selected(Live!DeltasSince(since), since, Len(deltas))
<1> DEFINE N == Len(deltas)
           w == CHOOSE f : IsSelection(f, since, N)
<1>1. N \in Nat /\ deltas \in Seq(1..version) /\ version \in Nat /\ \A k \in 1..N : deltas[k] \in 1..version
  BY DEF KeyTypes
<1>2. IsSelection(w, since, N)
  BY <1>1, SelectionExists
<1>3. Live!DeltasSince(since) = w[N]
  BY DEF Live!DeltasSince, IsSelection
<1> HIDE DEF w
<1>4. w[0] = <<>>
  BY <1>1, <1>2 DEF IsSelection
<1>5. ASSUME NEW k \in Nat, k + 1 <= N
      PROVE  w[k + 1] = IF deltas[k + 1] > since THEN Append(w[k], deltas[k + 1]) ELSE w[k]
  <2>1. k + 1 \in 0..N /\ k + 1 # 0 /\ (k + 1) - 1 = k
    BY <1>1, <1>5
  <2>2. w[k + 1] = IF k + 1 = 0 THEN <<>>
                   ELSE IF deltas[k + 1] > since THEN Append(w[(k + 1) - 1], deltas[k + 1]) ELSE w[(k + 1) - 1]
    BY <1>2, <2>1 DEF IsSelection
  <2> QED
    BY <2>1, <2>2
<1> DEFINE T == {k \in Nat : k <= N => Selected(w[k], since, k)}
<1>6. 0 \in T
  <2>1. <<>> \in Seq(1..version) /\ Len(<<>>) = 0
    BY EmptySeq
  <2>2. Selected(<<>>, since, 0)
    BY <2>1 DEF Selected
  <2> QED
    BY <1>4, <2>2
<1>7. ASSUME NEW k \in Nat, k \in T
      PROVE  k + 1 \in T
  <2> SUFFICES ASSUME k + 1 <= N
               PROVE  Selected(w[k + 1], since, k + 1)
    OBVIOUS
  <2> DEFINE s == w[k]
             x == deltas[k + 1]
  <2>1. k <= N /\ k + 1 \in 1..N
    BY <1>1
  <2>2. Selected(s, since, k) /\ x \in 1..version
    BY <1>1, <1>7, <2>1
  <2>3. CASE ~(x > since)
    <3>1. w[k + 1] = s
      BY <1>5, <2>3
    <3>2. \A i \in 1..(k + 1) : i \in 1..k \/ i = k + 1
      OBVIOUS
    <3>3. \A i \in 1..k : i \in 1..(k + 1)
      OBVIOUS
    <3> HIDE DEF s
    <3> QED
      BY <2>2, <2>3, <3>1, <3>2, <3>3 DEF Selected
  <2>4. CASE x > since
    <3>1. w[k + 1] = Append(s, x)
      BY <1>5, <2>4
    <3> DEFINE t == Append(s, x)
    <3> HIDE DEF s, x
    <3>2. /\ t \in Seq(1..version) /\ Len(t) = Len(s) + 1 /\ Len(s) \in Nat
          /\ t[Len(s) + 1] = x /\ \A j \in 1..Len(s) : t[j] = s[j]
      BY <2>2 DEF Selected
    <3> HIDE DEF t
    <3>3. \A j \in 1..Len(t) : j \in 1..Len(s) \/ j = Len(s) + 1
      BY <3>2
    <3>4. \A j \in 1..Len(t) : t[j] > since /\ \E i \in 1..(k + 1) : deltas[i] = t[j]
      <4> SUFFICES ASSUME NEW j \in 1..Len(t)
                   PROVE  t[j] > since /\ \E i \in 1..(k + 1) : deltas[i] = t[j]
        OBVIOUS
      <4>1. CASE j \in 1..Len(s)
        <5>1. PICK i \in 1..k : deltas[i] = s[j]
          BY <2>2, <4>1 DEF Selected
        <5>2. i \in 1..(k + 1) /\ deltas[i] = t[j]
          BY <3>2, <4>1, <5>1
        <5> QED
          BY <2>2, <3>2, <4>1, <5>2 DEF Selected
      <4>2. CASE j = Len(s) + 1
        BY <2>4, <3>2, <4>2 DEF x
      <4> QED
        BY <3>3, <4>1, <4>2
    <3>5. \A i \in 1..(k + 1) : deltas[i] > since => \E j \in 1..Len(t) : t[j] = deltas[i]
      <4> SUFFICES ASSUME NEW i \in 1..(k + 1), deltas[i] > since
                   PROVE  \E j \in 1..Len(t) : t[j] = deltas[i]
        OBVIOUS
      <4>1. CASE i = k + 1
        <5>1. Len(s) + 1 \in 1..Len(t) /\ t[Len(s) + 1] = deltas[i]
          BY <3>2, <4>1 DEF x
        <5> QED
          BY <5>1
      <4>2. CASE i \in 1..k
        <5>1. PICK j \in 1..Len(s) : s[j] = deltas[i]
          BY <2>2, <4>2 DEF Selected
        <5>2. j \in 1..Len(t) /\ t[j] = deltas[i]
          BY <3>2, <5>1
        <5> QED
          BY <5>2
      <4> QED
        BY <4>1, <4>2
    <3>6. \A i, j \in 1..Len(t) : i < j => t[i] < t[j]
      <4> SUFFICES ASSUME NEW i \in 1..Len(t), NEW j \in 1..Len(t), i < j
                   PROVE  t[i] < t[j]
        OBVIOUS
      <4>1. CASE j \in 1..Len(s)
        BY <2>2, <3>2, <4>1 DEF Selected
      <4>2. CASE j = Len(s) + 1
        <5>1. i \in 1..Len(s)
          BY <3>2, <3>3, <4>2
        <5>2. PICK h \in 1..k : deltas[h] = s[i]
          BY <2>2, <5>1 DEF Selected
        <5>3. deltas[h] < deltas[k + 1]
          <6>1. h \in 1..N /\ k + 1 \in 1..N /\ h < k + 1
            BY <1>1, <2>1
          <6> QED
            BY <6>1 DEF LogIsComplete
        <5> QED
          BY <3>2, <4>2, <5>1, <5>2, <5>3 DEF x
      <4> QED
        BY <3>3, <4>1, <4>2
    <3> QED
      BY <3>1, <3>2, <3>4, <3>5, <3>6 DEF Selected, t
  <2> QED
    BY <2>3, <2>4
<1> HIDE DEF T
<1>8. Nat \subseteq T
  BY <1>6, <1>7, NaturalsFollow
<1> QED
  BY <1>1, <1>3, <1>8 DEF T
-----------------------------------------------------------------------------
(* The key                                                                 *)

\* A change more in the log, and the oldest out of it.
LEMMA PushedLog ==
    ASSUME KeyTypes, LogIsComplete
    PROVE  LET t == Live!Push(deltas, version + 1)
           IN  /\ t \in Seq(1..(version + 1)) /\ Len(t) > 0 /\ t[Len(t)] = version + 1
               /\ \A j, k \in 1..Len(t) : j < k => t[j] < t[k]
               /\ \A k \in 1..Len(deltas) : deltas[k] >= t[1] => \E j \in 1..Len(t) : t[j] = deltas[k]
               /\ deltas # <<>> => t[1] >= deltas[1]
<1> DEFINE v == version + 1
           Kept == IF Len(deltas) = LogCap THEN Tail(deltas) ELSE deltas
           d == IF Len(deltas) = LogCap THEN 1 ELSE 0
           t == Append(Kept, v)
<1>1. Live!Push(deltas, v) = t
  BY DEF Live!Push
<1>2. /\ deltas \in Seq(1..version) /\ version \in Nat /\ Len(deltas) \in Nat
      /\ \A k \in 1..Len(deltas) : deltas[k] \in 1..version
  BY DEF KeyTypes
<1>3. /\ Kept \in Seq(1..v) /\ Len(Kept) = Len(deltas) - d /\ d \in {0, 1}
      /\ \A j \in 1..Len(Kept) : Kept[j] = deltas[j + d]
  <2>1. CASE Len(deltas) = LogCap
    <3>1. deltas # <<>> /\ deltas \in Seq(1..v)
      BY <1>2, <2>1, ReportingAssumption
    <3>2. Tail(deltas) \in Seq(1..v) /\ Len(Tail(deltas)) = Len(deltas) - 1
          /\ \A j \in 1..Len(Tail(deltas)) : Tail(deltas)[j] = deltas[j + 1]
      BY <1>2, <3>1, HeadTailProperties
    <3> QED
      BY <2>1, <3>2
  <2>2. CASE Len(deltas) # LogCap
    BY <1>2, <2>2
  <2> QED
    BY <2>1, <2>2
<1> HIDE DEF Kept, d
<1>4. /\ t \in Seq(1..v) /\ Len(t) = Len(Kept) + 1 /\ Len(Kept) \in Nat /\ t[Len(Kept) + 1] = v
      /\ \A j \in 1..Len(Kept) : t[j] = Kept[j]
  BY <1>2, <1>3
<1> HIDE DEF t
<1>5. ASSUME NEW j \in 1..Len(t), NEW k \in 1..Len(t), j < k
      PROVE  t[j] < t[k]
  <2>1. j \in 1..Len(Kept) /\ t[j] = deltas[j + d] /\ j + d \in 1..Len(deltas)
    BY <1>3, <1>4, <1>5
  <2>2. CASE k = Len(Kept) + 1
    BY <1>2, <1>4, <2>1, <2>2
  <2>3. CASE k \in 1..Len(Kept)
    <3>1. t[k] = deltas[k + d] /\ k + d \in 1..Len(deltas) /\ j + d < k + d
      BY <1>3, <1>4, <1>5, <2>3
    <3> QED
      BY <2>1, <3>1 DEF LogIsComplete
  <2> QED
    BY <1>4, <2>2, <2>3
<1>6. ASSUME NEW k \in 1..Len(deltas), deltas[k] >= t[1]
      PROVE  \E j \in 1..Len(t) : t[j] = deltas[k]
  <2>1. k - d >= 1
    <3>1. CASE d = 1 /\ k = 1
      <4>1. CASE Len(Kept) = 0
        BY <1>2, <1>4, <1>6, <4>1
      <4>2. CASE Len(Kept) > 0
        <5>1. 1 \in 1..Len(Kept) /\ t[1] = deltas[2] /\ 2 \in 1..Len(deltas)
          BY <1>3, <1>4, <3>1, <4>2
        <5>2. deltas[1] < deltas[2]
          BY <3>1, <5>1 DEF LogIsComplete
        <5> QED
          BY <1>2, <1>6, <3>1, <5>1, <5>2
      <4> QED
        BY <1>4, <4>1, <4>2
    <3> QED
      BY <1>3, <3>1
  <2>2. k - d \in 1..Len(Kept) /\ (k - d) + d = k
    BY <1>2, <1>3, <2>1
  <2>3. t[k - d] = deltas[k] /\ k - d \in 1..Len(t)
    BY <1>3, <1>4, <2>2
  <2> QED
    BY <2>3
<1>7. ASSUME deltas # <<>>
      PROVE  t[1] >= deltas[1]
  <2>1. 1 \in 1..Len(deltas)
    BY <1>2, <1>7
  <2>2. CASE Len(Kept) = 0
    BY <1>2, <1>4, <2>1, <2>2
  <2>3. CASE Len(Kept) > 0
    <3>1. t[1] = deltas[1 + d] /\ 1 + d \in 1..Len(deltas)
      BY <1>3, <1>4, <2>3
    <3>2. d = 1 => deltas[1] < deltas[1 + d]
      BY <2>1, <3>1 DEF LogIsComplete
    <3> QED
      BY <1>2, <1>3, <2>1, <3>1, <3>2
  <2> QED
    BY <1>4, <2>2, <2>3
<1> QED
  BY <1>1, <1>4, <1>5, <1>6, <1>7

\* A change that is new is yet to be broadcast.
KeyGoesOn ==
    /\ version' \in Nat /\ version <= version'
    /\ Yet \subseteq Yet'
    /\ \A w \in value' : w \in value \/ (w > version /\ w \in Yet')

\* A mutator changes the key.
LEMMA ChangeStep ==
    ASSUME KeyTypes, LogIsComplete, NEW m \in Mutators, NEW e, NEW val, Live!Change(m, e, val),
           e \in {0, version + 1}, val \subseteq value \cup {version + 1}
    PROVE  KeyTypes' /\ LogIsComplete' /\ KeyGoesOn
<1> DEFINE v == version + 1
           t == Live!Push(deltas, v)
<1>1. /\ delta[m] = 0 /\ version' = v /\ entry' = e /\ value' = val /\ deltas' = t
      /\ delta' = [delta EXCEPT ![m] = v]
  BY DEF Live!Change
<1>2. /\ version \in Nat /\ value \subseteq 1..version /\ delta \in [Mutators -> 0..version] /\ deltas \in Seq(1..version)
      /\ v \in Nat /\ v > version
  BY DEF KeyTypes
<1>3. /\ t \in Seq(1..v) /\ Len(t) > 0 /\ t[Len(t)] = v
      /\ \A j, k \in 1..Len(t) : j < k => t[j] < t[k]
      /\ \A k \in 1..Len(deltas) : deltas[k] >= t[1] => \E j \in 1..Len(t) : t[j] = deltas[k]
      /\ deltas # <<>> => t[1] >= deltas[1]
  BY PushedLog
<1> HIDE DEF t, v
<1>4. KeyTypes'
  <2>1. value' \subseteq 1..v /\ entry' \in 0..v /\ delta' \in [Mutators -> 0..v]
    BY <1>1, <1>2 DEF v
  <2> QED
    BY <1>1, <1>2, <1>3, <2>1 DEF KeyTypes
<1>5. Len(t) \in Nat /\ \A k \in 1..Len(t) : t[k] \in 1..v
  BY <1>2, <1>3
<1>6. ASSUME NEW w \in value'
      PROVE  t # <<>> /\ (w >= t[1] => \E k \in 1..Len(t) : t[k] = w)
  <2>1. t # <<>>
    BY <1>3
  <2>2. CASE w = v
    <3>1. Len(t) \in 1..Len(t)
      BY <1>3, <1>5
    <3> QED
      BY <1>3, <2>1, <2>2, <3>1
  <2>3. CASE w \in value
    <3> SUFFICES ASSUME w >= t[1]
                 PROVE  \E k \in 1..Len(t) : t[k] = w
      BY <2>1
    <3>1. deltas # <<>> /\ Len(deltas) \in Nat /\ Len(deltas) > 0 /\ 1 \in 1..Len(deltas)
      BY <1>2, <2>3 DEF LogIsComplete
    <3>2. t[1] \in 1..v /\ w \in 1..version
      BY <1>2, <1>3, <1>5, <2>3
    <3>3. CASE w >= deltas[1]
      <4>1. PICK k \in 1..Len(deltas) : deltas[k] = w
        BY <2>3, <3>3 DEF LogIsComplete
      <4> QED
        BY <1>3, <4>1
    <3>4. CASE ~(w >= deltas[1])
      <4>1. t[1] >= deltas[1]
        BY <1>3, <3>1
      <4>2. deltas[1] \in 1..version
        BY <1>2, <3>1
      <4> QED
        BY <3>2, <3>4, <4>1, <4>2
    <3> QED
      BY <3>3, <3>4
  <2> QED
    BY <1>1, <2>2, <2>3 DEF v
<1>7. LogIsComplete'
  BY <1>1, <1>3, <1>6 DEF LogIsComplete
<1>8. delta'[m] = v /\ (\A n \in Mutators : n # m => delta'[n] = delta[n]) /\ v # 0
  BY <1>1, <1>2
<1>9. Yet \subseteq Yet' /\ v \in Yet'
  BY <1>1, <1>8 DEF Yet
<1>10. KeyGoesOn
  BY <1>1, <1>2, <1>9 DEF KeyGoesOn, v
<1> QED
  BY <1>4, <1>7, <1>10

\* The store's own steps.
LEMMA KeyStep ==
    ASSUME KeyTypes, LogIsComplete,
           (\E m \in Mutators : Live!Apply(m) \/ Live!Delete(m)) \/ Live!ChangeElsewhere \/ Live!EvictCompleted
    PROVE  /\ KeyTypes' /\ LogIsComplete' /\ KeyGoesOn
           /\ UNCHANGED <<conn, sub, read, send, got, init, seen, slow, raced>>
<1>1. ASSUME NEW m \in Mutators, Live!Apply(m) \/ Live!Delete(m)
      PROVE  /\ KeyTypes' /\ LogIsComplete' /\ KeyGoesOn
             /\ UNCHANGED <<conn, sub, read, send, got, init, seen, slow, raced>>
  <2>1. CASE Live!Apply(m)
    <3> DEFINE val == (IF entry = 0 THEN {} ELSE value) \cup {version + 1}
    <3>1. Live!Change(m, version + 1, val) /\ val \subseteq value \cup {version + 1}
      BY <2>1 DEF Live!Apply
    <3>2. UNCHANGED <<conn, sub, read, send, got, init, seen, slow, raced>>
      BY <3>1 DEF Live!Change, Live!clientVars, Live!history
    <3> HIDE DEF val
    <3> QED
      BY <3>1, <3>2, ChangeStep
  <2>2. CASE Live!Delete(m)
    <3>1. Live!Change(m, 0, {version + 1})
      BY <2>2 DEF Live!Delete
    <3>2. UNCHANGED <<conn, sub, read, send, got, init, seen, slow, raced>>
      BY <3>1 DEF Live!Change, Live!clientVars, Live!history
    <3> QED
      BY <3>1, <3>2, ChangeStep
  <2> QED
    BY <1>1, <2>1, <2>2
<1>2. CASE Live!ChangeElsewhere
  <2>1. /\ version' = version + 1
        /\ UNCHANGED <<entry, value, deltas, delta, conn, sub, read, send, got, init, seen, slow, raced>>
    BY <1>2 DEF Live!ChangeElsewhere, Live!clientVars, Live!history
  <2>2. KeyTypes'
    <3>1. version \in Nat /\ deltas \in Seq(1..version) /\ 1..version \subseteq 1..(version + 1)
      BY DEF KeyTypes
    <3>2. deltas \in Seq(1..(version + 1))
      BY <3>1, SeqMonotonic
    <3> QED
      BY <2>1, <3>2 DEF KeyTypes
  <2>3. LogIsComplete' /\ KeyGoesOn
    BY <2>1 DEF LogIsComplete, KeyTypes, KeyGoesOn, Yet
  <2> QED
    BY <2>1, <2>2, <2>3
<1>3. CASE Live!EvictCompleted
  <2>1. /\ entry' = 0 /\ value' = {} /\ deltas' = <<>>
        /\ UNCHANGED <<version, delta, conn, sub, read, send, got, init, seen, slow, raced>>
    BY <1>3 DEF Live!EvictCompleted, Live!clientVars, Live!history
  <2>2. KeyTypes'
    <3>1. <<>> \in Seq(1..version)
      BY EmptySeq
    <3> QED
      BY <2>1, <3>1 DEF KeyTypes
  <2>3. LogIsComplete'
    BY <2>1, EmptySeq DEF LogIsComplete
  <2>4. KeyGoesOn
    BY <2>1 DEF KeyTypes, KeyGoesOn, Yet
  <2> QED
    BY <2>1, <2>2, <2>3, <2>4
<1> QED
  BY <1>1, <1>2, <1>3
-----------------------------------------------------------------------------
(* Frames                                                                  *)

\* A frame is added at the end.
LEMMA AppendedFrame ==
    ASSUME NEW s \in Seq(Frame), NEW f \in Frame
    PROVE  LET t == Append(s, f)
           IN  /\ t \in Seq(Frame) /\ Len(s) \in Nat /\ Len(t) = Len(s) + 1 /\ t[Len(s) + 1] = f
               /\ \A k \in 1..Len(s) : t[k] = s[k]
               /\ \A k \in 1..Len(t) : k \in 1..Len(s) \/ k = Len(s) + 1
               /\ \A k \in 1..Len(s) : \A w : InFirst(t, k, w) <=> InFirst(s, k, w)
               /\ \A w : InFirst(t, Len(s) + 1, w) <=> InFirst(s, Len(s), w) \/ w \in f.has
<1> DEFINE t == Append(s, f)
<1>1. /\ t \in Seq(Frame) /\ Len(s) \in Nat /\ Len(t) = Len(s) + 1 /\ t[Len(s) + 1] = f
      /\ \A k \in 1..Len(s) : t[k] = s[k]
  OBVIOUS
<1> HIDE DEF t
<1>2. \A k \in 1..Len(t) : k \in 1..Len(s) \/ k = Len(s) + 1
  BY <1>1
<1>3. ASSUME NEW k \in 1..Len(s), NEW w
      PROVE  InFirst(t, k, w) <=> InFirst(s, k, w)
  <2>1. \A j \in 1..k : j \in 1..Len(s)
    BY <1>1
  <2> QED
    BY <1>1, <2>1 DEF InFirst
<1>4. ASSUME NEW w
      PROVE  InFirst(t, Len(s) + 1, w) <=> InFirst(s, Len(s), w) \/ w \in f.has
  <2>1. Len(s) + 1 \in 1..(Len(s) + 1) /\ \A j \in 1..(Len(s) + 1) : j \in 1..Len(s) \/ j = Len(s) + 1
    BY <1>1
  <2>2. \A j \in 1..Len(s) : j \in 1..(Len(s) + 1)
    BY <1>1
  <2> QED
    BY <1>1, <2>1, <2>2 DEF InFirst
<1> QED
  BY <1>1, <1>2, <1>3, <1>4 DEF t

\* The first frame is taken.
LEMMA FirstFrameOff ==
    ASSUME NEW s \in Seq(Frame), s # <<>>
    PROVE  LET t == Tail(s)
           IN  /\ t \in Seq(Frame) /\ Len(s) \in Nat \ {0} /\ Len(t) = Len(s) - 1 /\ Len(t) \in Nat
               /\ Head(s) = s[1] /\ Head(s) \in Frame /\ 1 \in 1..Len(s)
               /\ \A k \in 1..Len(t) : t[k] = s[k + 1] /\ k + 1 \in 1..Len(s)
               /\ \A w : InFirst(s, 1, w) <=> w \in s[1].has
               /\ \A k \in 0..Len(t) : \A w : InFirst(s, k + 1, w) <=> w \in s[1].has \/ InFirst(t, k, w)
<1> DEFINE t == Tail(s)
<1>1. /\ t \in Seq(Frame) /\ Len(s) \in Nat \ {0} /\ Len(t) = Len(s) - 1 /\ Len(t) \in Nat
      /\ Head(s) = s[1] /\ 1 \in 1..Len(s)
      /\ \A k \in 1..Len(t) : t[k] = s[k + 1]
  BY HeadTailProperties, EmptySeq
<1>2. Head(s) \in Frame
  BY <1>1
<1> HIDE DEF t
<1>3. \A k \in 1..Len(t) : k + 1 \in 1..Len(s)
  BY <1>1
<1>4. ASSUME NEW k \in 0..Len(t), NEW w
      PROVE  InFirst(s, k + 1, w) <=> w \in s[1].has \/ InFirst(t, k, w)
  <2>1. ASSUME InFirst(s, k + 1, w)
        PROVE  w \in s[1].has \/ InFirst(t, k, w)
    <3>1. PICK j \in 1..(k + 1) : w \in s[j].has
      BY <2>1 DEF InFirst
    <3>2. CASE j # 1
      <4>1. j - 1 \in 1..k /\ j - 1 \in 1..Len(t) /\ (j - 1) + 1 = j
        BY <1>1, <3>2
      <4>2. w \in t[j - 1].has
        BY <1>1, <3>1, <4>1
      <4> QED
        BY <4>1, <4>2 DEF InFirst
    <3> QED
      BY <3>1, <3>2
  <2>2. ASSUME w \in s[1].has
        PROVE  InFirst(s, k + 1, w)
    <3>1. 1 \in 1..(k + 1)
      BY <1>1
    <3> QED
      BY <2>2, <3>1 DEF InFirst
  <2>3. ASSUME InFirst(t, k, w)
        PROVE  InFirst(s, k + 1, w)
    <3>1. PICK j \in 1..k : w \in t[j].has
      BY <2>3 DEF InFirst
    <3>2. j \in 1..Len(t) /\ j + 1 \in 1..(k + 1) /\ w \in s[j + 1].has
      BY <1>1, <3>1
    <3> QED
      BY <3>2 DEF InFirst
  <2> QED
    BY <2>1, <2>2, <2>3
<1>5. \A w : InFirst(s, 1, w) <=> w \in s[1].has
  BY DEF InFirst
<1> QED
  BY <1>1, <1>2, <1>3, <1>4, <1>5 DEF t

\* Nothing is in no frames.
LEMMA NoFrames == Len(<<>>) = 0 /\ <<>> \in Seq(Frame) /\ \A w : ~InFirst(<<>>, 0, w)
  BY EmptySeq DEF InFirst
-----------------------------------------------------------------------------
(* Sessions                                                                *)

\* Client e is where it was.
Same(e) ==
    /\ conn'[e] = conn[e] /\ sub'[e] = sub[e] /\ read'[e] = read[e] /\ send'[e] = send[e]
    /\ got'[e] = got[e] /\ init'[e] = init[e] /\ seen'[e] = seen[e]
    /\ slow'[e] = slow[e] /\ raced'[e] = raced[e]

\* What client c has, in terms that steps of others do not touch.
LEMMA ClientTypes ==
    ASSUME SessionTypes, NEW c \in Clients
    PROVE  /\ conn[c] \in {"off", "on", "subscribed", "read", "found", "replay"}
           /\ sub[c] \in BOOLEAN /\ init[c] \in BOOLEAN /\ slow[c] \in BOOLEAN /\ raced[c] \in BOOLEAN
           /\ read[c] \in Seq(Frame) /\ send[c] \in Seq(Frame)
           /\ got[c] \in SUBSET Nat /\ seen[c] \in Nat
           /\ Len(read[c]) \in Nat /\ Len(send[c]) \in Nat
           /\ \A k \in 1..Len(read[c]) : read[c][k] \in Frame /\ read[c][k].v \in Nat
           /\ \A k \in 1..Len(send[c]) : send[c][k] \in Frame /\ send[c][k].v \in Nat
<1>1. read[c] \in Seq(Frame) /\ send[c] \in Seq(Frame)
  BY DEF SessionTypes
<1>2. /\ Len(read[c]) \in Nat /\ Len(send[c]) \in Nat
      /\ \A k \in 1..Len(read[c]) : read[c][k] \in Frame
      /\ \A k \in 1..Len(send[c]) : send[c][k] \in Frame
  BY <1>1
<1>3. \A f \in Frame : f.v \in Nat
  BY DEF Frame
<1> QED
  BY <1>1, <1>2, <1>3 DEF SessionTypes

\* The store goes on, and the client does not.
LEMMA SameClient ==
    ASSUME KeyTypes, KeyTypes', SessionTypes, KeyGoesOn, NEW c \in Clients, ClientInv(c), Same(c)
    PROVE  ClientInv(c)'
<1>1. /\ version \in Nat /\ version' \in Nat /\ version <= version' /\ value \subseteq Nat
      /\ \A w \in value' : w \in value \/ (w > version /\ w \in Yet')
      /\ Yet \subseteq Yet'
  BY DEF KeyTypes, KeyGoesOn
<1>2. /\ Len(read[c]) \in Nat /\ Len(send[c]) \in Nat /\ seen[c] \in Nat
      /\ \A k \in 1..Len(read[c]) : read[c][k].v \in Nat
      /\ \A k \in 1..Len(send[c]) : send[c][k].v \in Nat
  BY ClientTypes
<1>3. SessionShape(c)'
  <2>1. SessionShape(c)
    BY DEF ClientInv
  <2> QED
    BY <2>1 DEF SessionShape, Same
<1>4. NothingAhead(c)'
  <2>1. /\ seen[c] <= version
        /\ \A k \in 1..Len(send[c]) : send[c][k].v <= version
        /\ \A k \in 1..Len(read[c]) : read[c][k].v <= version
    BY DEF ClientInv, NothingAhead
  <2>2. \A x \in Nat : x <= version => x <= version'
    BY <1>1
  <2>3. /\ seen[c] <= version'
        /\ \A k \in 1..Len(send[c]) : send[c][k].v <= version'
        /\ \A k \in 1..Len(read[c]) : read[c][k].v <= version'
    BY <1>2, <2>1, <2>2
  <2> QED
    BY <2>3 DEF NothingAhead, Same
<1> SUFFICES ASSUME ~slow[c], ~raced[c]
             PROVE  Undisturbed(c)'
  BY <1>3, <1>4 DEF ClientInv, Same
<1>5. Undisturbed(c) /\ NothingAhead(c)
  BY DEF ClientInv
<1>6. NothingIsLost(c)'
  <2>1. \A w : Known(c, w) => Known(c, w)'
    BY <1>1 DEF Known, Queued, Same
  <2>2. \A w : w \in Yet' => Known(c, w)'
    BY DEF Known
  <2>3. conn'[c] = conn[c] /\ sub'[c] = sub[c] /\ NothingIsLost(c)
    BY <1>5 DEF Same, Undisturbed
  <2> QED
    BY <1>1, <2>1, <2>2, <2>3 DEF NothingIsLost
<1>7. \A w \in value', v \in Nat : v <= version /\ w <= v => w \in value
  <2>1. \A w \in value' : w \in Nat
    BY DEF KeyTypes
  <2> QED
    BY <1>1, <2>1
<1>8. SendInOrder(c)'
  BY <1>2, <1>5, <1>7 DEF Undisturbed, SendInOrder, NothingAhead, Same
<1>9. ReadInOrder(c)'
  BY <1>2, <1>5, <1>7 DEF Undisturbed, ReadInOrder, Queued, NothingAhead, Same
<1>10. SeenIsHanded(c)'
  BY <1>2, <1>5, <1>7 DEF Undisturbed, SeenIsHanded, NothingAhead, Same
<1> QED
  BY <1>6, <1>8, <1>9, <1>10 DEF Undisturbed

\* One client goes on, and neither the store nor the others do.
LEMMA Alone ==
    ASSUME WatchInv, NEW c \in Clients, UNCHANGED <<version, entry, value, deltas, delta>>,
           SessionTypes', \A e \in Clients : e # c => Same(e), ClientInv(c)'
    PROVE  WatchInv'
<1>1. KeyTypes /\ KeyTypes' /\ SessionTypes /\ KeyGoesOn
  BY DEF WatchInv, KeyTypes, KeyGoesOn, Yet
<1>2. \A e \in Clients : ClientInv(e)'
  <2>1. ASSUME NEW e \in Clients, e # c
        PROVE  ClientInv(e)'
    <3>1. ClientInv(e) /\ Same(e)
      BY <2>1 DEF WatchInv
    <3> QED
      BY <1>1, <3>1, SameClient
  <2> QED
    BY <2>1
<1>3. LogIsComplete'
  BY DEF WatchInv, LogIsComplete
<1> QED
  BY <1>1, <1>2, <1>3 DEF WatchInv

\* A client that has come, has gone, or begins to watch: nothing is on its way to it.
LEMMA QuietClient ==
    ASSUME KeyTypes, NEW c \in Clients, SessionTypes, ClientInv(c), UNCHANGED <<version, value, delta>>,
           read'[c] = <<>>, send'[c] = <<>>, got'[c] = got[c], slow'[c] = slow[c], raced'[c] = raced[c],
           (init'[c] = init[c] /\ seen'[c] = seen[c]) \/ (~init'[c] /\ seen'[c] = 0),
           (conn'[c] \in {"off", "on"} /\ ~sub'[c]) \/ (conn'[c] = "subscribed" /\ sub'[c])
    PROVE  ClientInv(c)'
<1>1. Len(<<>>) = 0 /\ 1..0 = {} /\ version \in Nat
  BY NoFrames DEF KeyTypes
<1>2. SessionShape(c)'
  BY <1>1 DEF ClientInv, SessionShape
<1>3. NothingAhead(c)'
  BY <1>1 DEF ClientInv, NothingAhead
<1>4. value \subseteq 1..version
  BY DEF KeyTypes
<1>5. ASSUME Undisturbed(c)
      PROVE  Undisturbed(c)'
  <2>1. NothingIsLost(c)'
    BY DEF NothingIsLost
  <2>2. SendInOrder(c)' /\ ReadInOrder(c)'
    BY <1>1 DEF SendInOrder, ReadInOrder
  <2>3. SeenIsHanded(c)'
    BY <1>4, <1>5 DEF Undisturbed, SeenIsHanded
  <2> QED
    BY <2>1, <2>2, <2>3 DEF Undisturbed
<1> QED
  BY <1>2, <1>3, <1>5 DEF ClientInv

\* A client comes, goes, or begins to watch.
LEMMA ComeAndGoStep ==
    ASSUME WatchInv, NEW c \in Clients,
           \/ Live!Connect(c) \/ Live!Disconnect(c) \/ Live!Watch(c)
           \/ Live!ResumeAfresh(c) \/ Live!HandleUnwatch(c)
    PROVE  WatchInv'
<1>1. KeyTypes /\ SessionTypes /\ ClientInv(c) /\ SessionShape(c)
  BY DEF WatchInv, ClientInv
<1>2. UNCHANGED <<version, entry, value, deltas, delta, got, slow, raced>>
  BY DEF Live!Connect, Live!Disconnect, Live!Watch, Live!ResumeAfresh, Live!HandleUnwatch, Live!HandleWatch,
     Live!keyVars, Live!history
<1>3. PICK p \in {"off", "on", "subscribed"} : conn' = [conn EXCEPT ![c] = p]
  <2>1. CASE Live!HandleUnwatch(c)
    <3>1. conn' = [conn EXCEPT ![c] = "on"]
      BY <1>1, <2>1 DEF Live!HandleUnwatch, SessionTypes
    <3> QED
      BY <3>1
  <2>2. CASE ~Live!HandleUnwatch(c)
    BY <2>2 DEF Live!Connect, Live!Disconnect, Live!Watch, Live!ResumeAfresh, Live!HandleWatch, Live!Go
  <2> QED
    BY <2>1, <2>2
<1>4. /\ conn'[c] = p /\ \A e \in Clients : e # c => conn'[e] = conn[e]
      /\ conn' \in [Clients -> {"off", "on", "subscribed", "read", "found", "replay"}]
  BY <1>1, <1>3 DEF SessionTypes
<1> DEFINE Done == /\ sub' \in [Clients -> BOOLEAN] /\ init' \in [Clients -> BOOLEAN] /\ seen' \in [Clients -> Nat]
                   /\ send' \in [Clients -> Seq(Frame)] /\ read' \in [Clients -> Seq(Frame)]
                   /\ \A e \in Clients : e # c => /\ sub'[e] = sub[e] /\ read'[e] = read[e] /\ send'[e] = send[e]
                                                  /\ init'[e] = init[e] /\ seen'[e] = seen[e]
                   /\ send'[c] = <<>> /\ read'[c] = <<>>
                   /\ (init'[c] = init[c] /\ seen'[c] = seen[c]) \/ (~init'[c] /\ seen'[c] = 0)
                   /\ (p \in {"off", "on"} /\ ~sub'[c]) \/ (p = "subscribed" /\ sub'[c])
<1>5. Done
  <2>1. CASE Live!Connect(c)
    <3>1. UNCHANGED <<sub, read, send, init, seen>> /\ conn[c] = "off" /\ conn' = [conn EXCEPT ![c] = "on"]
      BY <2>1 DEF Live!Connect, Live!Go
    <3>2. p = "on" /\ ~sub[c] /\ read[c] = <<>> /\ send[c] = <<>>
      BY <1>1, <1>4, <3>1 DEF SessionShape, SessionTypes
    <3> QED
      BY <1>1, <3>1, <3>2 DEF SessionTypes
  <2>2. CASE Live!Disconnect(c)
    <3>1. /\ conn' = [conn EXCEPT ![c] = "off"] /\ sub' = [sub EXCEPT ![c] = FALSE]
          /\ send' = [send EXCEPT ![c] = <<>>] /\ read' = [read EXCEPT ![c] = <<>>] /\ UNCHANGED <<init, seen>>
      BY <2>2 DEF Live!Disconnect, Live!Go
    <3>2. p = "off"
      BY <1>1, <1>4, <3>1 DEF SessionTypes
    <3> QED
      BY <1>1, <3>1, <3>2, NoFrames DEF SessionTypes
  <2>3. CASE Live!Watch(c) \/ Live!ResumeAfresh(c)
    <3>1. /\ conn[c] = "on" /\ ~sub[c] /\ conn' = [conn EXCEPT ![c] = "subscribed"] /\ sub' = [sub EXCEPT ![c] = TRUE]
          /\ UNCHANGED <<read, send, init, seen>>
      BY <2>3 DEF Live!Watch, Live!ResumeAfresh, Live!HandleWatch, Live!Go
    <3>2. p = "subscribed" /\ read[c] = <<>> /\ send[c] = <<>>
      BY <1>1, <1>4, <3>1 DEF SessionShape, SessionTypes
    <3> QED
      BY <1>1, <3>1, <3>2 DEF SessionTypes
  <2>4. CASE Live!HandleUnwatch(c)
    <3>1. /\ conn[c] = "on" /\ conn' = conn /\ sub' = [sub EXCEPT ![c] = FALSE] /\ init' = [init EXCEPT ![c] = FALSE]
          /\ seen' = [seen EXCEPT ![c] = 0] /\ send' = [send EXCEPT ![c] = <<>>] /\ UNCHANGED read
      BY <2>4 DEF Live!HandleUnwatch
    <3>2. p = "on" /\ read[c] = <<>>
      BY <1>1, <1>4, <3>1 DEF SessionShape
    <3> QED
      BY <1>1, <3>1, <3>2, NoFrames DEF SessionTypes
  <2> QED
    BY <2>1, <2>2, <2>3, <2>4
<1>6. SessionTypes'
  BY <1>1, <1>2, <1>4, <1>5 DEF SessionTypes
<1>7. ClientInv(c)'
  BY <1>1, <1>2, <1>4, <1>5, QuietClient
<1>8. \A e \in Clients : e # c => Same(e)
  BY <1>2, <1>4, <1>5 DEF Same
<1> QED
  BY <1>2, <1>6, <1>7, <1>8, Alone

\* The state is read to be sent.
LEMMA ReadStep ==
    ASSUME WatchInv, NEW c \in Clients, Live!ReadState(c)
    PROVE  WatchInv'
<1> DEFINE f == Live!StateInit
<1>1. KeyTypes /\ SessionTypes /\ ClientInv(c) /\ SessionShape(c) /\ NothingAhead(c)
  BY DEF WatchInv, ClientInv
<1>2. /\ conn[c] = "subscribed" /\ read' = [read EXCEPT ![c] = <<f>>] /\ conn' = [conn EXCEPT ![c] = "read"]
      /\ UNCHANGED <<version, entry, value, deltas, delta, sub, send, got, init, seen, slow, raced>>
  BY DEF Live!ReadState, Live!Go, Live!keyVars, Live!history
<1>3. f \in Frame /\ f.has = value /\ f.v <= version
  BY <1>1 DEF Live!StateInit, Frame, KeyTypes
<1> HIDE DEF f
<1>4. Len(<<f>>) = 1 /\ <<f>>[1] = f /\ <<f>> \in Seq(Frame) /\ <<f>> # <<>>
  BY <1>3
<1> DEFINE s == <<f>>
<1> HIDE DEF s
<1>5. SessionTypes'
  BY <1>1, <1>2, <1>4 DEF SessionTypes, s
<1>6. read'[c] = s /\ conn'[c] = "read"
  BY <1>1, <1>2 DEF SessionTypes, s
<1>7. Len(s) = 1 /\ s[1] = f /\ s # <<>> /\ (\A k \in 1..Len(s) : k = 1) /\ \A w \in value : InFirst(s, 1, w)
  <2>1. Len(s) = 1 /\ s[1] = f /\ s # <<>>
    BY <1>4 DEF s
  <2> QED
    BY <1>3, <2>1 DEF InFirst
<1>8. SessionShape(c)' /\ NothingAhead(c)'
  BY <1>1, <1>2, <1>3, <1>6, <1>7 DEF SessionShape, NothingAhead
<1>9. ASSUME ~slow[c] /\ ~raced[c]
      PROVE  Undisturbed(c)'
  <2>1. Undisturbed(c)
    BY <1>1, <1>9 DEF ClientInv
  <2>2. NothingIsLost(c)' /\ ReadInOrder(c)'
    BY <1>2, <1>6, <1>7 DEF NothingIsLost, Known, ReadInOrder
  <2>3. SendInOrder(c)' /\ SeenIsHanded(c)'
    BY <1>2, <2>1 DEF Undisturbed, SendInOrder, SeenIsHanded
  <2> QED
    BY <2>2, <2>3 DEF Undisturbed
<1>10. ClientInv(c)'
  BY <1>2, <1>8, <1>9 DEF ClientInv
<1>11. \A e \in Clients : e # c => Same(e)
  BY <1>1, <1>2 DEF Same, SessionTypes
<1> QED
  BY <1>2, <1>5, <1>10, <1>11, Alone

\* A resume goes on to the subscription.
LEMMA SubscribeStep ==
    ASSUME WatchInv, NEW c \in Clients, Live!Subscribe(c)
    PROVE  WatchInv'
<1>1. SessionTypes /\ ClientInv(c) /\ SessionShape(c) /\ NothingAhead(c)
  BY DEF WatchInv, ClientInv
<1>2. /\ conn[c] = "found" /\ sub' = [sub EXCEPT ![c] = TRUE] /\ conn' = [conn EXCEPT ![c] = "replay"]
      /\ UNCHANGED <<version, entry, value, deltas, delta, read, send, got, init, seen, slow, raced>>
  BY DEF Live!Subscribe, Live!Go, Live!keyVars, Live!history
<1>3. SessionTypes' /\ sub'[c] /\ conn'[c] = "replay" /\ \A e \in Clients : e # c => Same(e)
  BY <1>1, <1>2 DEF SessionTypes, Same
<1>4. SessionShape(c)' /\ NothingAhead(c)'
  BY <1>1, <1>2, <1>3 DEF SessionShape, NothingAhead
<1>5. Undisturbed(c) => Undisturbed(c)'
  BY <1>2, <1>3 DEF Undisturbed, NothingIsLost, Known, Yet, Queued, SendInOrder, ReadInOrder, SeenIsHanded
<1>6. ClientInv(c)'
  BY <1>1, <1>2, <1>4, <1>5 DEF ClientInv
<1> QED
  BY <1>2, <1>3, <1>6, Alone

\* A resume finds deltas to replay.
LEMMA FoundStep ==
    ASSUME WatchInv, NEW c \in Clients, Live!ResumeFound(c)
    PROVE  WatchInv'
<1> DEFINE vs == Live!DeltasSince(seen[c])
           s == [k \in 1..Len(vs) |-> Live!Delta(vs[k])]
<1>1. KeyTypes /\ LogIsComplete /\ SessionTypes /\ ClientInv(c) /\ SessionShape(c) /\ NothingAhead(c) /\ seen[c] \in Nat
  BY ClientTypes DEF WatchInv, ClientInv
<1>2. /\ conn[c] = "on" /\ ~sub[c] /\ init[c] /\ deltas # <<>> /\ deltas[1] <= seen[c] + 1
      /\ vs # <<>> /\ read' = [read EXCEPT ![c] = s] /\ conn' = [conn EXCEPT ![c] = "found"]
      /\ UNCHANGED <<version, entry, value, deltas, delta, sub, send, got, init, seen, slow, raced>>
  BY DEF Live!ResumeFound, Live!Covers, Live!Go, Live!keyVars, Live!history
<1>3. Selected(vs, seen[c], Len(deltas))
  BY <1>1, DeltasAreSelected
<1> HIDE DEF vs
<1>4. /\ vs \in Seq(1..version) /\ version \in Nat /\ Len(vs) \in Nat /\ Len(vs) > 0
      /\ \A k \in 1..Len(vs) : vs[k] \in 1..version
  <2>1. vs \in Seq(1..version) /\ version \in Nat
    BY <1>1, <1>3 DEF Selected, KeyTypes
  <2> QED
    BY <1>2, <2>1, EmptySeq, LenProperties, ElementOfSeq
<1>5. \A v \in 1..version : Live!Delta(v) \in Frame /\ Live!Delta(v).v = v /\ v \in Live!Delta(v).has
  BY DEF Live!Delta, Frame
<1>6. /\ s \in Seq(Frame) /\ Len(s) = Len(vs) /\ s # <<>>
      /\ \A k \in 1..Len(s) : s[k].v = vs[k] /\ vs[k] \in s[k].has
  BY <1>4, <1>5
<1> HIDE DEF s
<1>7. SessionTypes' /\ read'[c] = s /\ conn'[c] = "found" /\ \A e \in Clients : e # c => Same(e)
  BY <1>1, <1>2, <1>6 DEF SessionTypes, Same
<1>8. SessionShape(c)' /\ NothingAhead(c)'
  <2>1. \A k \in 1..Len(s) : s[k].v <= version
    BY <1>4, <1>6
  <2> QED
    BY <1>1, <1>2, <1>6, <1>7, <2>1 DEF SessionShape, NothingAhead
<1>9. ASSUME ~slow[c] /\ ~raced[c]
      PROVE  Undisturbed(c)'
  <2>1. Undisturbed(c)
    BY <1>1, <1>9 DEF ClientInv
  <2>2. ASSUME NEW w \in value, ~(w <= seen[c])
        PROVE  \E k \in 1..Len(vs) : vs[k] = w
    <3>1. deltas[1] \in 1..version /\ w \in 1..version
      BY <1>1, <1>2 DEF KeyTypes
    <3>2. w >= deltas[1] /\ w > seen[c]
      BY <1>1, <1>2, <1>4, <2>2, <3>1
    <3>3. PICK i \in 1..Len(deltas) : deltas[i] = w
      BY <1>1, <3>2 DEF LogIsComplete
    <3> QED
      BY <1>3, <3>2, <3>3 DEF Selected
  <2>3. ASSUME NEW w \in value, ~(w <= seen[c])
        PROVE  \E k \in 1..Len(s) : vs[k] = w /\ \A j \in k..Len(s) : InFirst(s, j, w)
    <3>1. PICK k \in 1..Len(vs) : vs[k] = w
      BY <2>2, <2>3
    <3>2. k \in 1..Len(s) /\ w \in s[k].has
      BY <1>6, <3>1
    <3>3. \A j \in k..Len(s) : k \in 1..j
      BY <1>4, <3>1
    <3> QED
      BY <3>1, <3>2, <3>3 DEF InFirst
  <2>4. \A w \in value : w <= seen[c] => w \in got[c]
    BY <1>2, <2>1 DEF Undisturbed, SeenIsHanded
  <2>5. NothingIsLost(c)'
    <3> SUFFICES ASSUME NEW w \in value
                 PROVE  w \in got[c] \/ InFirst(s, Len(s), w)
      BY <1>2, <1>7 DEF NothingIsLost, Known, Queued
    <3>1. CASE ~(w <= seen[c])
      <4>1. PICK k \in 1..Len(s) : \A j \in k..Len(s) : InFirst(s, j, w)
        BY <2>3, <3>1
      <4>2. Len(s) \in k..Len(s)
        BY <1>4, <1>6
      <4> QED
        BY <4>1, <4>2
    <3> QED
      BY <2>4, <3>1
  <2>6. ReadInOrder(c)'
    <3> SUFFICES ASSUME NEW k \in 1..Len(s), NEW w \in value, w <= s[k].v
                 PROVE  w \in got[c] \/ InFirst(s, k, w)
      BY <1>2, <1>7 DEF ReadInOrder, Queued
    <3>1. CASE ~(w <= seen[c])
      <4>1. PICK h \in 1..Len(s) : vs[h] = w /\ \A j \in h..Len(s) : InFirst(s, j, w)
        BY <2>3, <3>1
      <4>2. ~(k < h)
        <5>1. k < h => vs[k] < vs[h]
          BY <1>3, <1>6 DEF Selected
        <5>2. vs[h] <= vs[k]
          BY <1>6, <4>1
        <5>3. vs[k] \in Nat /\ vs[h] \in Nat
          BY <1>4, <1>6
        <5> QED
          BY <5>1, <5>2, <5>3
      <4>3. k \in h..Len(s)
        BY <1>4, <1>6, <4>2
      <4> QED
        BY <4>1, <4>3
    <3> QED
      BY <2>4, <3>1
  <2>7. SendInOrder(c)' /\ SeenIsHanded(c)'
    BY <1>2, <2>1 DEF Undisturbed, SendInOrder, SeenIsHanded
  <2> QED
    BY <2>5, <2>6, <2>7 DEF Undisturbed
<1>10. ClientInv(c)'
  BY <1>2, <1>8, <1>9 DEF ClientInv
<1> QED
  BY <1>2, <1>7, <1>10, Alone

\* A frame goes from what the handler has read to the queue.
LEMMA FrameStep ==
    ASSUME WatchInv, NEW c \in Clients, Live!SendInit(c) \/ Live!Replay(c)
    PROVE  WatchInv'
<1> DEFINE r == read[c]
           s == send[c]
           f == Head(r)
           t == Tail(r)
           full == Live!Full(c)
           p == IF Len(r) = 1 THEN "on" ELSE "replay"
<1>1. /\ KeyTypes /\ SessionTypes /\ ClientInv(c) /\ SessionShape(c) /\ NothingAhead(c)
      /\ r \in Seq(Frame) /\ s \in Seq(Frame) /\ got[c] \in SUBSET Nat /\ slow[c] \in BOOLEAN
  BY ClientTypes DEF WatchInv, ClientInv
<1>2. /\ conn[c] \in {"read", "replay"} /\ (conn[c] = "read" => Len(r) = 1)
      /\ r # <<>> /\ sub[c] /\ (conn[c] = "replay" => init[c])
  BY <1>1, NoFrames DEF Live!SendInit, Live!Replay, SessionShape
<1>3. /\ t \in Seq(Frame) /\ Len(r) \in Nat \ {0} /\ Len(t) = Len(r) - 1 /\ Len(t) \in Nat
      /\ f = r[1] /\ f \in Frame /\ 1 \in 1..Len(r)
      /\ \A k \in 1..Len(t) : t[k] = r[k + 1] /\ k + 1 \in 1..Len(r)
      /\ \A w : InFirst(r, 1, w) <=> w \in r[1].has
      /\ \A k \in 0..Len(t) : \A w : InFirst(r, k + 1, w) <=> w \in r[1].has \/ InFirst(t, k, w)
  BY <1>1, <1>2, FirstFrameOff
<1>4. (Len(r) = 1 => t = <<>>) /\ (t = <<>> => Len(r) = 1)
  <2> DEFINE q == t
             n == Len(r)
  <2>1. q \in Seq(Frame) /\ n \in Nat /\ Len(q) = n - 1
    BY <1>3
  <2> HIDE DEF q, n
  <2>2. (n = 1 => q = <<>>) /\ (q = <<>> => n = 1)
    BY <2>1, EmptySeq
  <2> QED
    BY <2>2 DEF q, n
<1>5. /\ read' = [read EXCEPT ![c] = t] /\ conn' = [conn EXCEPT ![c] = p]
      /\ Live!Enqueue(c, f)
      /\ UNCHANGED <<version, entry, value, deltas, delta, sub, got, init, seen, raced>>
  <2>1. CASE Live!SendInit(c)
    BY <1>2, <1>4, <2>1 DEF Live!SendInit, Live!Go, Live!keyVars
  <2>2. CASE Live!Replay(c)
    BY <2>2 DEF Live!Replay, Live!Go, Live!keyVars
  <2> QED
    BY <2>1, <2>2
<1>6. /\ send' = IF full THEN send ELSE [send EXCEPT ![c] = Append(s, f)]
      /\ slow' = [slow EXCEPT ![c] = slow[c] \/ full]
  BY <1>5 DEF Live!Enqueue
<1> DEFINE u == Append(s, f)
<1>7. /\ u \in Seq(Frame) /\ Len(s) \in Nat /\ Len(u) = Len(s) + 1 /\ u[Len(s) + 1] = f
      /\ \A k \in 1..Len(s) : u[k] = s[k]
      /\ \A k \in 1..Len(u) : k \in 1..Len(s) \/ k = Len(s) + 1
      /\ \A k \in 1..Len(s) : \A w : InFirst(u, k, w) <=> InFirst(s, k, w)
      /\ \A w : InFirst(u, Len(s) + 1, w) <=> InFirst(s, Len(s), w) \/ w \in f.has
  BY <1>1, <1>3, AppendedFrame
<1> HIDE DEF f, t, u, full
<1>8. /\ read'[c] = t /\ conn'[c] = p /\ (send'[c] = s \/ send'[c] = u) /\ (~full => send'[c] = u)
      /\ (slow'[c] <=> slow[c] \/ full)
      /\ \A e \in Clients : e # c => Same(e)
  BY <1>1, <1>5, <1>6 DEF SessionTypes, Same, u
<1>9. SessionTypes'
  <2>1. slow' \in [Clients -> BOOLEAN]
    BY <1>1, <1>6 DEF SessionTypes, full, Live!Full
  <2>2. send' \in [Clients -> Seq(Frame)]
    BY <1>1, <1>6, <1>7 DEF SessionTypes, u
  <2>3. conn' \in [Clients -> {"off", "on", "subscribed", "read", "found", "replay"}]
    BY <1>1, <1>5 DEF SessionTypes
  <2> QED
    BY <1>1, <1>3, <1>5, <2>1, <2>2, <2>3 DEF SessionTypes
<1>10. SessionShape(c)'
  BY <1>1, <1>2, <1>4, <1>5, <1>8 DEF SessionShape
<1>11. NothingAhead(c)'
  <2>1. f.v <= version
    BY <1>1, <1>3 DEF NothingAhead
  <2>2. \A k \in 1..Len(u) : u[k].v <= version
    BY <1>1, <1>7, <2>1 DEF NothingAhead
  <2>3. \A k \in 1..Len(t) : t[k].v <= version
    BY <1>1, <1>3 DEF NothingAhead
  <2> QED
    BY <1>1, <1>5, <1>8, <2>2, <2>3 DEF NothingAhead
<1>12. ASSUME ~slow'[c] /\ ~raced'[c]
       PROVE  Undisturbed(c)'
  <2>1. Undisturbed(c) /\ send'[c] = u
    BY <1>1, <1>5, <1>8, <1>12 DEF ClientInv
  <2>2. ASSUME NEW w, Queued(c, w)
        PROVE  w \in got[c] \/ InFirst(u, Len(u), w)
    BY <1>7, <2>2 DEF Queued
  <2>3. ASSUME NEW w \in f.has
        PROVE  InFirst(u, Len(u), w)
    BY <1>7, <2>3
  <2>4. NothingIsLost(c)'
    <3> SUFFICES ASSUME NEW w \in value
                 PROVE  w \in got[c] \/ InFirst(u, Len(u), w) \/ InFirst(t, Len(t), w) \/ w \in Yet
      BY <1>5, <1>8, <2>1 DEF NothingIsLost, Known, Queued, Yet
    <3>1. Queued(c, w) \/ InFirst(r, Len(r), w) \/ w \in Yet
      BY <1>2, <2>1 DEF Undisturbed, NothingIsLost, Known
    <3>2. InFirst(r, Len(r), w) => w \in f.has \/ InFirst(t, Len(t), w)
      <4>1. Len(t) \in 0..Len(t) /\ Len(t) + 1 = Len(r)
        BY <1>3
      <4> QED
        BY <1>3, <4>1
    <3> QED
      BY <2>2, <2>3, <3>1, <3>2
  <2>5. SendInOrder(c)'
    <3> SUFFICES ASSUME NEW k \in 1..Len(u), NEW w \in value, init[c] \/ \E j \in 1..k : u[j].type = "init", w <= u[k].v
                 PROVE  w \in got[c] \/ InFirst(u, k, w)
      BY <1>5, <2>1 DEF SendInOrder
    <3>1. CASE k \in 1..Len(s)
      <4>1. \A j \in 1..k : u[j] = s[j]
        BY <1>7, <3>1
      <4>2. w \in got[c] \/ InFirst(s, k, w)
        BY <1>7, <2>1, <3>1, <4>1 DEF Undisturbed, SendInOrder
      <4> QED
        BY <1>7, <3>1, <4>2
    <3>2. CASE k = Len(s) + 1
      <4>1. w <= r[1].v
        BY <1>3, <1>7, <3>2
      <4>2. Queued(c, w) \/ InFirst(r, 1, w)
        BY <1>3, <2>1, <4>1 DEF Undisturbed, ReadInOrder
      <4> QED
        BY <1>3, <1>7, <2>2, <2>3, <3>2, <4>2
    <3> QED
      BY <1>7, <3>1, <3>2
  <2>6. ReadInOrder(c)'
    <3> SUFFICES ASSUME NEW k \in 1..Len(t), NEW w \in value, w <= t[k].v
                 PROVE  w \in got[c] \/ InFirst(u, Len(u), w) \/ InFirst(t, k, w)
      BY <1>5, <1>8, <2>1 DEF ReadInOrder, Queued
    <3>1. Queued(c, w) \/ InFirst(r, k + 1, w)
      BY <1>3, <2>1 DEF Undisturbed, ReadInOrder
    <3>2. k \in 0..Len(t)
      BY <1>3
    <3> QED
      BY <1>3, <2>2, <2>3, <3>1, <3>2
  <2>7. SeenIsHanded(c)'
    BY <1>5, <2>1 DEF Undisturbed, SeenIsHanded
  <2> QED
    BY <2>4, <2>5, <2>6, <2>7 DEF Undisturbed
<1>13. ClientInv(c)'
  BY <1>10, <1>11, <1>12 DEF ClientInv
<1> QED
  BY <1>5, <1>8, <1>9, <1>13, Alone

\* A frame is handed to the client.
LEMMA PumpStep ==
    ASSUME WatchInv, NEW c \in Clients, Live!WritePump(c)
    PROVE  WatchInv'
<1> DEFINE s == send[c]
           f == Head(s)
           t == Tail(s)
<1>1. /\ KeyTypes /\ SessionTypes /\ ClientInv(c) /\ SessionShape(c) /\ NothingAhead(c)
      /\ s \in Seq(Frame) /\ got[c] \in SUBSET Nat /\ init[c] \in BOOLEAN /\ seen[c] \in Nat
  BY ClientTypes DEF WatchInv, ClientInv
<1>2. /\ s # <<>> /\ send' = [send EXCEPT ![c] = t]
      /\ got' = [got EXCEPT ![c] = got[c] \cup f.has]
      /\ init' = [init EXCEPT ![c] = init[c] \/ f.type = "init"]
      /\ seen' = [seen EXCEPT ![c] = IF init'[c] /\ f.v > seen[c] THEN f.v ELSE seen[c]]
      /\ UNCHANGED <<version, entry, value, deltas, delta, conn, sub, read, slow, raced>>
  BY DEF Live!WritePump, Live!keyVars, Live!history
<1>3. /\ t \in Seq(Frame) /\ Len(s) \in Nat \ {0} /\ Len(t) = Len(s) - 1 /\ Len(t) \in Nat
      /\ f = s[1] /\ f \in Frame /\ 1 \in 1..Len(s)
      /\ \A k \in 1..Len(t) : t[k] = s[k + 1] /\ k + 1 \in 1..Len(s)
      /\ \A w : InFirst(s, 1, w) <=> w \in s[1].has
      /\ \A k \in 0..Len(t) : \A w : InFirst(s, k + 1, w) <=> w \in s[1].has \/ InFirst(t, k, w)
  BY <1>1, <1>2, FirstFrameOff
<1>4. f.has \in SUBSET Nat /\ f.v \in Nat /\ f.v <= version /\ version \in Nat
  BY <1>1, <1>3 DEF Frame, NothingAhead, KeyTypes
<1> HIDE DEF f, t
<1>5. /\ send'[c] = t /\ got'[c] = got[c] \cup f.has
      /\ (init'[c] <=> init[c] \/ f.type = "init")
      /\ seen'[c] = (IF init'[c] /\ f.v > seen[c] THEN f.v ELSE seen[c])
      /\ \A e \in Clients : e # c => Same(e)
  BY <1>1, <1>2 DEF SessionTypes, Same
<1>6. SessionTypes'
  <2>1. seen'[c] \in Nat
    BY <1>1, <1>4, <1>5
  <2>2. seen' \in [Clients -> Nat]
    BY <1>1, <1>2, <1>4 DEF SessionTypes
  <2>3. init' \in [Clients -> BOOLEAN]
    BY <1>1, <1>2 DEF SessionTypes
  <2> QED
    BY <1>1, <1>2, <1>3, <1>4, <2>2, <2>3 DEF SessionTypes
<1>7. SessionShape(c)'
  <2>1. sub[c]
    BY <1>1, <1>2 DEF SessionShape
  <2>2. conn[c] \in {"subscribed", "read"} => \A k \in 1..Len(t) : t[k].type = "delta"
    <3>1. conn[c] \in {"subscribed", "read"} => \A k \in 1..Len(s) : s[k].type = "delta"
      BY <1>1 DEF SessionShape
    <3> QED
      BY <1>3, <3>1
  <2>3. ~init'[c] => seen'[c] = 0
    BY <1>1, <1>5 DEF SessionShape
  <2> QED
    BY <1>1, <1>2, <1>5, <2>1, <2>2, <2>3 DEF SessionShape
<1>8. NothingAhead(c)'
  <2>1. \A k \in 1..Len(t) : t[k].v <= version
    BY <1>1, <1>3 DEF NothingAhead
  <2> QED
    BY <1>1, <1>2, <1>4, <1>5, <2>1 DEF NothingAhead
<1>9. ASSUME ~slow[c] /\ ~raced[c]
      PROVE  Undisturbed(c)'
  <2>1. Undisturbed(c)
    BY <1>1, <1>9 DEF ClientInv
  <2>2. ASSUME NEW w, Queued(c, w)
        PROVE  w \in got'[c] \/ InFirst(t, Len(t), w)
    <3>1. Len(t) \in 0..Len(t) /\ Len(t) + 1 = Len(s)
      BY <1>3
    <3> QED
      BY <1>3, <1>5, <2>2, <3>1 DEF Queued
  <2>3. NothingIsLost(c)'
    BY <1>2, <1>5, <2>1, <2>2 DEF Undisturbed, NothingIsLost, Known, Queued, Yet
  <2>4. ReadInOrder(c)'
    BY <1>2, <1>5, <2>1, <2>2 DEF Undisturbed, ReadInOrder, Queued
  <2>5. SendInOrder(c)'
    <3> SUFFICES ASSUME NEW k \in 1..Len(t), NEW w \in value, init'[c] \/ \E j \in 1..k : t[j].type = "init", w <= t[k].v
                 PROVE  w \in got'[c] \/ InFirst(t, k, w)
      BY <1>2, <1>5 DEF SendInOrder
    <3>1. k + 1 \in 1..Len(s) /\ w <= s[k + 1].v /\ k \in 0..Len(t)
      BY <1>3
    <3>2. init[c] \/ \E j \in 1..(k + 1) : s[j].type = "init"
      <4>1. CASE init'[c]
        <5>1. 1 \in 1..(k + 1) /\ (init[c] \/ s[1].type = "init")
          BY <1>3, <1>5, <4>1
        <5> QED
          BY <5>1
      <4>2. CASE \E j \in 1..k : t[j].type = "init"
        <5>1. PICK j \in 1..k : t[j].type = "init"
          BY <4>2
        <5>2. j \in 1..Len(t) /\ j + 1 \in 1..(k + 1)
          <6>1. k \in 1..Len(t) /\ Len(t) \in Nat
            BY <1>3
          <6> QED
            BY <6>1
        <5>3. s[j + 1].type = "init"
          BY <1>3, <5>1, <5>2
        <5> QED
          BY <5>2, <5>3
      <4> QED
        BY <4>1, <4>2
    <3>3. w \in got[c] \/ InFirst(s, k + 1, w)
      BY <2>1, <3>1, <3>2 DEF Undisturbed, SendInOrder
    <3> QED
      BY <1>3, <1>5, <3>1, <3>3
  <2>6. SeenIsHanded(c)'
    <3> SUFFICES ASSUME init'[c], NEW w \in value, w <= seen'[c]
                 PROVE  w \in got'[c]
      BY <1>2 DEF SeenIsHanded
    <3>1. CASE f.v > seen[c]
      <4>1. w <= s[1].v /\ (init[c] \/ \E j \in 1..1 : s[j].type = "init")
        BY <1>3, <1>5, <3>1
      <4>2. w \in got[c] \/ InFirst(s, 1, w)
        BY <1>3, <2>1, <4>1 DEF Undisturbed, SendInOrder
      <4> QED
        BY <1>3, <1>5, <4>2
    <3>2. CASE ~(f.v > seen[c])
      <4>1. w <= seen[c] /\ w \in 1..version
        BY <1>1, <1>5, <3>2 DEF KeyTypes
      <4>2. init[c]
        BY <1>1, <4>1 DEF SessionShape
      <4> QED
        BY <1>5, <2>1, <4>1, <4>2 DEF Undisturbed, SeenIsHanded
    <3> QED
      BY <3>1, <3>2
  <2> QED
    BY <2>3, <2>4, <2>5, <2>6 DEF Undisturbed
<1>10. ClientInv(c)'
  BY <1>2, <1>7, <1>8, <1>9 DEF ClientInv
<1> QED
  BY <1>2, <1>5, <1>6, <1>10, Alone

\* A change is broadcast to the clients that watch.
LEMMA BroadcastStep ==
    ASSUME WatchInv, NEW m \in Mutators, Live!Broadcast(m)
    PROVE  WatchInv'
<1> DEFINE v == delta[m]
           f == Live!Delta(v)
<1>1. KeyTypes /\ LogIsComplete /\ SessionTypes /\ \A c \in Clients : ClientInv(c)
  BY DEF WatchInv
<1>2. /\ delta[m] # 0 /\ delta' = [delta EXCEPT ![m] = 0]
      /\ send' = [c \in Clients |-> IF sub[c] /\ ~Live!Full(c) THEN Append(send[c], f) ELSE send[c]]
      /\ slow' = [c \in Clients |-> slow[c] \/ (sub[c] /\ Live!Full(c))]
      /\ raced' = [c \in Clients |-> raced[c] \/ Live!Resuming(c) \/ Live!Overtakes(m)]
      /\ UNCHANGED <<version, entry, value, deltas, conn, sub, read, got, init, seen>>
  BY DEF Live!Broadcast
<1>3. v \in 1..version /\ version \in Nat /\ delta \in [Mutators -> 0..version] /\ value \subseteq 1..version
  BY <1>1, <1>2 DEF KeyTypes
<1>4. f \in Frame /\ f.v = v /\ f.type = "delta" /\ v \in f.has
  BY <1>3 DEF Live!Delta, Frame
<1>5. ASSUME NEW w \in Yet
      PROVE  w = v \/ w \in Yet'
  BY <1>2, <1>3 DEF Yet
<1> HIDE DEF v, f
<1>6. KeyTypes' /\ LogIsComplete'
  <2>1. delta' \in [Mutators -> 0..version]
    BY <1>2, <1>3
  <2> QED
    BY <1>1, <1>2, <2>1 DEF KeyTypes, LogIsComplete
<1>7. ASSUME NEW c \in Clients
      PROVE  send'[c] \in Seq(Frame) /\ slow'[c] \in BOOLEAN /\ raced'[c] \in BOOLEAN
  <2>1. send[c] \in Seq(Frame) /\ sub[c] \in BOOLEAN /\ slow[c] \in BOOLEAN /\ raced[c] \in BOOLEAN
    BY <1>1, ClientTypes
  <2>2. send'[c] \in Seq(Frame)
    BY <1>2, <1>4, <2>1
  <2> QED
    BY <1>2, <2>1, <2>2
<1>8. SessionTypes'
  <2>1. send' \in [Clients -> Seq(Frame)]
    <3>1. send' = [c \in Clients |-> send'[c]]
      BY <1>2
    <3> QED
      BY <1>7, <3>1
  <2>2. slow' \in [Clients -> BOOLEAN] /\ raced' \in [Clients -> BOOLEAN]
    <3>1. slow' = [c \in Clients |-> slow'[c]] /\ raced' = [c \in Clients |-> raced'[c]]
      BY <1>2
    <3> QED
      BY <1>7, <3>1
  <2> QED
    BY <1>1, <1>2, <2>1, <2>2 DEF SessionTypes
<1>9. ASSUME NEW c \in Clients
      PROVE  ClientInv(c)'
  <2> DEFINE s == send[c]
             u == Append(s, f)
             full == Live!Full(c)
  <2>1. /\ ClientInv(c) /\ SessionShape(c) /\ NothingAhead(c)
        /\ s \in Seq(Frame) /\ sub[c] \in BOOLEAN /\ slow[c] \in BOOLEAN /\ raced[c] \in BOOLEAN
        /\ conn[c] \in {"off", "on", "subscribed", "read", "found", "replay"}
    BY <1>1, ClientTypes DEF ClientInv
  <2>2. /\ u \in Seq(Frame) /\ Len(s) \in Nat /\ Len(u) = Len(s) + 1 /\ u[Len(s) + 1] = f
        /\ \A k \in 1..Len(s) : u[k] = s[k]
        /\ \A k \in 1..Len(u) : k \in 1..Len(s) \/ k = Len(s) + 1
        /\ \A k \in 1..Len(s) : \A w : InFirst(u, k, w) <=> InFirst(s, k, w)
        /\ \A w : InFirst(u, Len(s) + 1, w) <=> InFirst(s, Len(s), w) \/ w \in f.has
    BY <1>4, <2>1, AppendedFrame
  <2>3. /\ send'[c] = IF sub[c] /\ ~full THEN u ELSE s
        /\ slow'[c] = (slow[c] \/ (sub[c] /\ full))
        /\ raced'[c] = (raced[c] \/ Live!Resuming(c) \/ Live!Overtakes(m))
    BY <1>2
  <2> HIDE DEF s, u, full
  <2>4. SessionShape(c)'
    <3>1. (\A k \in 1..Len(s) : s[k].type = "delta") => \A k \in 1..Len(u) : u[k].type = "delta"
      BY <1>4, <2>2
    <3> QED
      BY <1>2, <2>1, <2>3, <3>1 DEF SessionShape, s
  <2>5. NothingAhead(c)'
    <3>1. \A k \in 1..Len(s) : s[k].v <= version
      BY <2>1 DEF NothingAhead, s
    <3>2. \A k \in 1..Len(u) : u[k].v <= version
      BY <1>3, <1>4, <2>2, <3>1
    <3> QED
      BY <1>2, <2>1, <2>3, <3>1, <3>2 DEF NothingAhead
  <2>6. ASSUME ~slow'[c] /\ ~raced'[c]
        PROVE  Undisturbed(c)'
    <3>1. Undisturbed(c) /\ ~Live!Resuming(c) /\ ~Live!Overtakes(m) /\ (sub[c] => send'[c] = u) /\ (~sub[c] => send'[c] = s)
      BY <2>1, <2>3, <2>6 DEF ClientInv
    <3>2. ASSUME NEW w, Queued(c, w)
          PROVE  Queued(c, w)'
      BY <1>2, <2>2, <3>1, <3>2 DEF Queued, s
    <3>3. ReadInOrder(c)'
      BY <1>2, <3>1, <3>2 DEF Undisturbed, ReadInOrder
    <3>4. SeenIsHanded(c)'
      BY <1>2, <3>1 DEF Undisturbed, SeenIsHanded
    <3>5. NothingIsLost(c)'
      <4> SUFFICES ASSUME sub[c] \/ conn[c] = "found", conn[c] # "subscribed", NEW w \in value
                   PROVE  Queued(c, w)' \/ InFirst(read[c], Len(read[c]), w) \/ w \in Yet'
        BY <1>2 DEF NothingIsLost, Known
      <4>1. sub[c] /\ send'[c] = u
        BY <3>1 DEF Live!Resuming
      <4>2. Queued(c, w) \/ InFirst(read[c], Len(read[c]), w) \/ w \in Yet
        BY <3>1 DEF Undisturbed, NothingIsLost, Known
      <4>3. CASE w = v
        BY <1>4, <2>2, <4>1, <4>3 DEF Queued
      <4> QED
        BY <1>5, <3>2, <4>2, <4>3
    <3>6. SendInOrder(c)'
      <4>1. CASE ~sub[c]
        BY <1>2, <3>1, <4>1 DEF Undisturbed, SendInOrder, s
      <4>2. CASE sub[c]
        <5> SUFFICES ASSUME NEW k \in 1..Len(u), NEW w \in value,
                            init[c] \/ \E j \in 1..k : u[j].type = "init", w <= u[k].v
                     PROVE  w \in got[c] \/ InFirst(u, k, w)
          <6>1. send'[c] = u /\ init'[c] = init[c] /\ got'[c] = got[c] /\ value' = value
            BY <1>2, <3>1, <4>2
          <6> QED
            BY <6>1 DEF SendInOrder
        <5>1. CASE k \in 1..Len(s)
          <6>1. \A j \in 1..k : u[j] = s[j]
            BY <2>2, <5>1
          <6>2. w \in got[c] \/ InFirst(s, k, w)
            BY <2>2, <3>1, <5>1, <6>1 DEF Undisturbed, SendInOrder, s
          <6> QED
            BY <2>2, <5>1, <6>2
        <5>2. CASE k = Len(s) + 1
          <6>1. init[c] \/ \E j \in 1..Len(s) : s[j].type = "init"
            <7>1. ASSUME NEW j \in 1..k, u[j].type = "init"
                  PROVE  j \in 1..Len(s) /\ s[j].type = "init"
              <8>1. j \in 1..Len(u)
                BY <2>2, <5>2
              <8>2. j # Len(s) + 1
                BY <1>4, <2>2, <7>1
              <8> QED
                BY <2>2, <7>1, <8>1, <8>2
            <7> QED
              BY <7>1
          <6>2. conn[c] = "on"
            BY <2>1, <3>1, <4>2, <6>1 DEF SessionShape, Live!Resuming, s
          <6>3. read[c] = <<>>
            BY <2>1, <6>2 DEF SessionShape
          <6>4. Queued(c, w) \/ w \in Yet
            <7>1. Queued(c, w) \/ InFirst(<<>>, 0, w) \/ w \in Yet
              BY <3>1, <4>2, <6>2, <6>3, NoFrames DEF Undisturbed, NothingIsLost, Known
            <7> QED
              BY <7>1, NoFrames
          <6>5. w \in Yet => w = v
            <7> SUFFICES ASSUME NEW n \in Mutators, delta[n] = w, w # 0
                         PROVE  w = v
              BY DEF Yet
            <7>1. ~(w < v)
              BY <3>1 DEF Live!Overtakes, v
            <7>2. w <= v /\ w \in Nat /\ v \in Nat
              BY <1>3, <1>4, <2>2, <5>2
            <7> QED
              BY <7>1, <7>2
          <6> QED
            BY <1>4, <2>2, <5>2, <6>4, <6>5 DEF Queued, s
        <5> QED
          BY <2>2, <5>1, <5>2
      <4> QED
        BY <4>1, <4>2
    <3> QED
      BY <3>3, <3>4, <3>5, <3>6 DEF Undisturbed
  <2> QED
    BY <2>3, <2>4, <2>5, <2>6 DEF ClientInv
<1> QED
  BY <1>6, <1>8, <1>9 DEF WatchInv
-----------------------------------------------------------------------------
(* The watch, over all steps                                               *)

\* At the start nothing has changed and nobody watches.
LEMMA LiveInit == Live!Init => WatchInv
<1> SUFFICES ASSUME Live!Init
             PROVE  WatchInv
  OBVIOUS
<1>1. /\ version = 0 /\ entry = 0 /\ value = {} /\ deltas = <<>> /\ delta = [m \in Mutators |-> 0]
      /\ conn = [c \in Clients |-> "off"] /\ sub = [c \in Clients |-> FALSE]
      /\ read = [c \in Clients |-> <<>>] /\ send = [c \in Clients |-> <<>>] /\ got = [c \in Clients |-> {}]
      /\ init = [c \in Clients |-> FALSE] /\ seen = [c \in Clients |-> 0]
      /\ slow = [c \in Clients |-> FALSE] /\ raced = [c \in Clients |-> FALSE]
  BY DEF Live!Init
<1>2. <<>> \in Seq(1..version) /\ Len(<<>>) = 0 /\ 1..0 = {} /\ <<>> \in Seq(Frame)
  BY EmptySeq
<1>3. KeyTypes /\ LogIsComplete
  BY <1>1, <1>2 DEF KeyTypes, LogIsComplete
<1>4. SessionTypes
  BY <1>1, <1>2 DEF SessionTypes
<1>5. ASSUME NEW c \in Clients
      PROVE  ClientInv(c)
  <2>1. conn[c] = "off" /\ ~sub[c] /\ read[c] = <<>> /\ send[c] = <<>> /\ ~init[c] /\ seen[c] = 0
    BY <1>1
  <2>2. SessionShape(c) /\ NothingAhead(c)
    BY <1>1, <1>2, <2>1 DEF SessionShape, NothingAhead
  <2>3. Undisturbed(c)
    BY <1>1, <2>1 DEF Undisturbed, NothingIsLost, SendInOrder, ReadInOrder, SeenIsHanded
  <2> QED
    BY <2>2, <2>3 DEF ClientInv
<1> QED
  BY <1>3, <1>4, <1>5 DEF WatchInv

\* Every step keeps the invariant.
LEMMA LiveStep == WatchInv /\ (Live!Next \/ UNCHANGED liveVars) => WatchInv'
<1> SUFFICES ASSUME WatchInv, Live!Next \/ UNCHANGED liveVars
             PROVE  WatchInv'
  OBVIOUS
<1>1. KeyTypes /\ LogIsComplete /\ SessionTypes /\ \A c \in Clients : ClientInv(c)
  BY DEF WatchInv
<1>2. CASE UNCHANGED liveVars
  BY <1>1, <1>2 DEF liveVars, WatchInv, KeyTypes, LogIsComplete, SessionTypes, ClientInv, SessionShape, NothingAhead,
     Undisturbed, NothingIsLost, Known, Queued, Yet, SendInOrder, ReadInOrder, SeenIsHanded
<1>3. CASE (\E m \in Mutators : Live!Apply(m) \/ Live!Delete(m)) \/ Live!ChangeElsewhere \/ Live!EvictCompleted
  <2>1. /\ KeyTypes' /\ LogIsComplete' /\ KeyGoesOn
        /\ UNCHANGED <<conn, sub, read, send, got, init, seen, slow, raced>>
    BY <1>1, <1>3, KeyStep
  <2>2. SessionTypes'
    BY <1>1, <2>1 DEF SessionTypes
  <2>3. ASSUME NEW c \in Clients
        PROVE  ClientInv(c)'
    <3>1. Same(c)
      BY <2>1 DEF Same
    <3> QED
      BY <1>1, <2>1, <3>1, SameClient
  <2> QED
    BY <2>1, <2>2, <2>3 DEF WatchInv
<1>4. CASE \E m \in Mutators : Live!Broadcast(m)
  BY <1>4, BroadcastStep
<1>5. ASSUME NEW c \in Clients,
             \/ Live!Connect(c) \/ Live!Disconnect(c) \/ Live!WritePump(c)
             \/ Live!Watch(c) \/ Live!ReadState(c) \/ Live!SendInit(c) \/ Live!HandleUnwatch(c)
             \/ Live!ResumeFound(c) \/ Live!ResumeAfresh(c) \/ Live!Subscribe(c) \/ Live!Replay(c)
      PROVE  WatchInv'
  <2>1. CASE Live!Connect(c) \/ Live!Disconnect(c) \/ Live!Watch(c) \/ Live!ResumeAfresh(c) \/ Live!HandleUnwatch(c)
    BY <2>1, ComeAndGoStep
  <2>2. CASE Live!ReadState(c)
    BY <2>2, ReadStep
  <2>3. CASE Live!Subscribe(c)
    BY <2>3, SubscribeStep
  <2>4. CASE Live!ResumeFound(c)
    BY <2>4, FoundStep
  <2>5. CASE Live!SendInit(c) \/ Live!Replay(c)
    BY <2>5, FrameStep
  <2>6. CASE Live!WritePump(c)
    BY <2>6, PumpStep
  <2> QED
    BY <1>5, <2>1, <2>2, <2>3, <2>4, <2>5, <2>6
<1> QED
  BY <1>2, <1>3, <1>4, <1>5 DEF Live!Next

\* A client with nothing on its way to it knows nothing that it was not handed.
LEMMA AtRestIsCurrent == WatchInv => Live!EveryChangeIsHanded
<1> SUFFICES ASSUME WatchInv, NEW c \in Clients, Live!AtRest(c), ~slow[c], ~raced[c], NEW w \in value
             PROVE  w \in got[c]
  BY DEF Live!EveryChangeIsHanded
<1>1. ClientInv(c) /\ Undisturbed(c) /\ SessionShape(c)
  BY DEF WatchInv, ClientInv
<1>2. sub[c] /\ conn[c] = "on" /\ send[c] = <<>> /\ Yet = {}
  BY DEF Live!AtRest, Yet
<1>3. read[c] = <<>> /\ Known(c, w)
  BY <1>1, <1>2 DEF Undisturbed, NothingIsLost, SessionShape
<1>4. w \in got[c] \/ InFirst(<<>>, 0, w) \/ w \in Yet
  BY <1>2, <1>3, NoFrames DEF Known, Queued
<1> QED
  BY <1>2, <1>4, NoFrames

(* A browser that watches a key, and has nothing on its way to it, was     *)
(* handed every change its value is made of (pkg/sodp/server.go,           *)
(* handleWatch and handleResume), for any number of sessions, mutators and *)
(* changes, any log and any buffer.                                        *)
THEOREM WatchersAreCurrent == MCSpec => []WatcherIsCurrent
<1>1. MCInit => WatchInv
  BY LiveInit DEF MCInit
<1>2. WatchInv /\ [MCNext]_allVars => WatchInv'
  <2> SUFFICES ASSUME WatchInv, [MCNext]_allVars
               PROVE  WatchInv'
    OBVIOUS
  <2>1. Live!Next \/ UNCHANGED liveVars
    BY DEF MCNext, Triggering, Watching, allVars
  <2> QED
    BY <2>1, LiveStep
<1>3. WatchInv => WatcherIsCurrent
  BY AtRestIsCurrent DEF WatcherIsCurrent
<1> QED
  BY <1>1, <1>2, <1>3, PTL DEF MCSpec
=============================================================================

---------------------------- MODULE ReviewPipeline ----------------------------
(***************************************************************************)
(* One review on its way from its raw versions to a current analysis: the  *)
(* crawler and the webhook gateway append raw versions, the ingestion      *)
(* service keeps the reviews row at the newest of them, the analyzer makes *)
(* an analysis of what the row shows, and the ingestion service's          *)
(* reconciliation loop picks up what the two event streams lost.           *)
(*                                                                         *)
(*   backend/internal/store/store.go   InsertRawReviews, UpsertReview, ... *)
(*   backend/cmd/ingestion/main.go     ingestOne, reconcileOnce            *)
(*   analyzer/worker.py                analyze_one, mark_analyzed, handle  *)
(*                                                                         *)
(* Rows of different reviews are never written together, so one review is  *)
(* enough.  The model and the prompt version are fixed, which makes        *)
(* input_hash a function of the content.  A message waiting in a queue is  *)
(* a number of copies; the attempt count only decides when a nak'ed        *)
(* message is dropped, so every nak may drop it.                           *)
(***************************************************************************)
EXTENDS Naturals, FiniteSets

CONSTANTS
    Payload,        \* what the platform or the pushing party may send
    Content,        \* normalized content and rating
    ContentOf,      \* normalize.Normalize: an error for some payloads
    BadPayload,     \* that error
    NoPayload,      \* no such version yet
    NoContent,      \* no row, or no analysis, yet
    MaxRaws,        \* bound of the model: raw versions of the review
    MaxCopies,      \* bound of the model: copies of one event
    Ingester,       \* concurrent executions of the review.raw handler
    Sweeper,        \* reconciliation loops, one per ingestion process
    Analyst,        \* concurrent executions of analyze_one
    FaultBudget     \* bound of the model: how many faults may still happen

RawId == 1..MaxRaws     \* in the order of the ids, which breaks ties
NoRaw == 0

ASSUME ReviewAssumption ==
    /\ ContentOf \in [Payload -> Content \cup {BadPayload}]
    /\ BadPayload \notin Content
    /\ NoPayload \notin Payload
    /\ NoContent \notin Content
    /\ MaxRaws \in Nat \ {0}
    /\ MaxCopies \in Nat \ {0}
    /\ FaultBudget \in Nat

VARIABLES
    raw,            \* raw_reviews: the payload of each version, if inserted
    stamp,          \* raw_reviews.created_at, 0 before the insert
    horizon,        \* created_at up to which a raw counts as old (2 minutes)
    quarantine,     \* ingest_quarantine
    ptr,            \* reviews.raw_review_id, NoRaw while there is no row
    content,        \* reviews.content and rating
    status,         \* reviews.status
    deleted,        \* reviews.deleted_at is set
    aged,           \* reviews.updated_at is more than 15 minutes back
    current,        \* what the is_current analysis was made from
    rawEvents,      \* copies of review.raw, for each raw version
    createdEvents,  \* copies of review.created
    ingesting,      \* the raw each ingester has upserted and not yet announced
    sweep,          \* where each sweeper is in its pass, and with which raw
    task,           \* where each analyst is in analyze_one
    snap,           \* the content each analyst has read
    fresh,          \* reviews.version is still the one each analyst has read
    mismarked,      \* history: analyzed, though the content was never analysed
    faults          \* faults that may still happen

rawVars    == <<raw, stamp, horizon>>
rowVars    == <<ptr, content, status, aged, mismarked>>
ingestVars == <<ingesting, sweep>>
taskVars   == <<task, snap>>
vars == <<rawVars, quarantine, rowVars, deleted, current, rawEvents, createdEvents,
          ingestVars, taskVars, fresh, faults>>

-------------------------------------------------------------------------------
(* Helpers *)

Known == {i \in RawId : raw[i] # NoPayload}
OldRaws == {i \in Known : stamp[i] <= horizon}

\* ORDER BY created_at DESC, id DESC
Newer(i, j) == stamp[i] > stamp[j] \/ (stamp[i] = stamp[j] /\ i > j)
IsLatest(i, S) == i \in S /\ \A j \in S \ {i} : Newer(i, j)

Present == ptr # NoRaw /\ ~deleted
Normalized(i) == ContentOf[raw[i]]
Fault == faults > 0 /\ faults' = faults - 1
Plus(n) == IF n < MaxCopies THEN n + 1 ELSE n

Announce == createdEvents' = Plus(createdEvents)

\* A nak: delivered again, or dead-lettered if it was the last attempt.
NakRaw(i) == \E n \in {rawEvents[i], Plus(rawEvents[i])} :
                rawEvents' = [rawEvents EXCEPT ![i] = n]
NakCreated == createdEvents' \in {createdEvents, Plus(createdEvents)}

\* Every UPDATE of the row moves its version and its updated_at.
TouchRow == aged' = FALSE /\ fresh' = [a \in Analyst |-> FALSE]
RowUntouched == UNCHANGED <<rowVars, fresh>>

-------------------------------------------------------------------------------
(* The crawler and the webhook gateway *)

\* InsertRawReviews, then the publish of review.raw for whichever id it
\* returned; the publish may be lost.  created_at is the start of the
\* transaction, so a version may be stamped earlier than one already there.
StoreRaw(p) ==
    \E i \in RawId :
        /\ IF \E j \in Known : IsLatest(j, Known) /\ raw[j] = p
           THEN /\ IsLatest(i, Known)
                /\ UNCHANGED <<raw, stamp>>
           ELSE /\ i \notin Known
                /\ raw' = [raw EXCEPT ![i] = p]
                /\ \E t \in RawId :
                      /\ t > horizon
                      /\ t > 1 => \E j \in Known : stamp[j] >= t - 1
                      /\ stamp' = [stamp EXCEPT ![i] = t]
        /\ \/ /\ rawEvents' = [rawEvents EXCEPT ![i] = Plus(@)]
              /\ UNCHANGED faults
           \/ Fault /\ UNCHANGED rawEvents
    /\ UNCHANGED <<horizon, quarantine, rowVars, deleted, current, createdEvents,
                   ingestVars, taskVars, fresh>>

\* Two minutes pass for the oldest raws that are still young.
TimePasses ==
    /\ \E i \in Known : stamp[i] > horizon
    /\ horizon' = horizon + 1
    /\ UNCHANGED <<raw, stamp, quarantine, rowVars, deleted, current, rawEvents,
                   createdEvents, ingestVars, taskVars, fresh, faults>>

\* The row is soft-deleted by hand: no service does it.
SoftDelete ==
    /\ Present
    /\ deleted' = TRUE
    /\ TouchRow
    /\ UNCHANGED <<rawVars, quarantine, ptr, content, status, mismarked, current,
                   rawEvents, createdEvents, ingestVars, taskVars, faults>>

-------------------------------------------------------------------------------
(* Ingestion: ingestOne, run by the consumer and by the reconciliation loop *)

\* UpsertOutcome, and quarantine for what normalize rejects.
Outcome(i) ==
    IF Normalized(i) = BadPayload           THEN "quarantine"
    ELSE IF ptr = NoRaw                     THEN "applied"
    ELSE IF deleted                         THEN "deleted"
    ELSE IF ptr = i                         THEN "replay"
    ELSE IF stamp[i] < stamp[ptr]           THEN "stale"
    ELSE IF Normalized(i) # content         THEN "applied"
    ELSE "pointer_only"

\* Mutants: a payload normalize rejects is stored all the same; a soft-deleted
\* row is written to.
IngestUnchecked(i) ==
    /\ ptr' = i /\ content' = Normalized(i) /\ status' = "new" /\ mismarked' = FALSE
    /\ TouchRow
    /\ UNCHANGED quarantine

IngestDeletedToo(i) ==
    IF Outcome(i) \in {"applied", "deleted"}
    THEN /\ ptr' = i /\ content' = Normalized(i) /\ status' = "new" /\ mismarked' = FALSE
         /\ TouchRow
         /\ UNCHANGED quarantine
    ELSE RowUntouched /\ UNCHANGED quarantine

\* What ingestOne writes before it decides about the event.
Ingest(i) ==
    LET o == Outcome(i)
    IN  /\ quarantine' = IF o = "quarantine" THEN quarantine \cup {i} ELSE quarantine
        /\ IF o \in {"applied", "pointer_only"}
           THEN /\ ptr' = i
                /\ content' = Normalized(i)
                /\ status' = IF o = "applied" THEN "new" ELSE status
                /\ mismarked' = (o # "applied" /\ mismarked)
                /\ TouchRow
           ELSE RowUntouched

Announced == {"applied", "replay"}

\* Of two transactions that meet, the later one may fail (no row to lock yet, or
\* a row that has moved on): it is then retried, that is, takes place later.
IngestEvent(w, i) ==
    /\ ingesting[w] = NoRaw
    /\ rawEvents[i] > 0
    /\ rawEvents' = [rawEvents EXCEPT ![i] = @ - 1]
    /\ Ingest(i)
    /\ ingesting' = [ingesting EXCEPT ![w] = IF Outcome(i) \in Announced THEN i ELSE NoRaw]
    /\ UNCHANGED <<rawVars, deleted, current, createdEvents, sweep, taskVars, faults>>

\* A database error on every attempt: dead-lettered, nothing written.
RawEventLost(i) ==
    /\ rawEvents[i] > 0
    /\ rawEvents' = [rawEvents EXCEPT ![i] = @ - 1]
    /\ Fault
    /\ UNCHANGED <<rawVars, quarantine, rowVars, deleted, current, createdEvents,
                   ingestVars, taskVars, fresh>>

\* The ack is lost or late and the event is delivered once more.
RawEventAgain(i) ==
    /\ i \in Known
    /\ rawEvents[i] < MaxCopies
    /\ rawEvents' = [rawEvents EXCEPT ![i] = @ + 1]
    /\ Fault
    /\ UNCHANGED <<rawVars, quarantine, rowVars, deleted, current, createdEvents,
                   ingestVars, taskVars, fresh>>

PublishCreated(w) ==
    /\ ingesting[w] # NoRaw
    /\ Announce
    /\ ingesting' = [ingesting EXCEPT ![w] = NoRaw]
    /\ UNCHANGED <<rawVars, quarantine, rowVars, deleted, current, rawEvents, sweep,
                   taskVars, fresh, faults>>

\* The publish fails or the process dies before it; the raw event is retried.
PublishCreatedFails(w) ==
    /\ ingesting[w] # NoRaw
    /\ NakRaw(ingesting[w])
    /\ ingesting' = [ingesting EXCEPT ![w] = NoRaw]
    /\ Fault
    /\ UNCHANGED <<rawVars, quarantine, rowVars, deleted, current, createdEvents, sweep,
                   taskVars, fresh>>

-------------------------------------------------------------------------------
(* Reconciliation: reconcileOnce, every 60 seconds.  LIMIT 20 is assumed    *)
(* not to cut a pass.                                                      *)

SetSweep(k, at, i) == sweep' = [sweep EXCEPT ![k] = [pc |-> at, raw |-> i]]

\* Mutant: a raw is only looked for as long as the review has no row.
FindMissingRows(k) ==
    /\ sweep[k].pc = "idle"
    /\ \/ \E i \in OldRaws : /\ IsLatest(i, OldRaws)
                             /\ ptr = NoRaw /\ i \notin quarantine
                             /\ SetSweep(k, "ingest", i)
       \/ /\ \A i \in OldRaws : IsLatest(i, OldRaws) => ptr # NoRaw \/ i \in quarantine
          /\ SetSweep(k, "select", NoRaw)
    /\ UNCHANGED <<rawVars, quarantine, rowVars, deleted, current, rawEvents,
                   createdEvents, ingesting, taskVars, fresh, faults>>

\* The latest old raw, unless the row is at it already or it is quarantined.
FindUnreflectedRaws(k) ==
    /\ sweep[k].pc = "idle"
    /\ \/ \E i \in OldRaws : /\ IsLatest(i, OldRaws)
                             /\ ptr # i /\ i \notin quarantine
                             /\ SetSweep(k, "ingest", i)
       \/ /\ \A i \in OldRaws : IsLatest(i, OldRaws) => ptr = i \/ i \in quarantine
          /\ SetSweep(k, "select", NoRaw)
    /\ UNCHANGED <<rawVars, quarantine, rowVars, deleted, current, rawEvents,
                   createdEvents, ingesting, taskVars, fresh, faults>>

ReIngest(k) ==
    /\ sweep[k].pc = "ingest"
    /\ Ingest(sweep[k].raw)
    /\ IF Outcome(sweep[k].raw) \in Announced
       THEN SetSweep(k, "announce", sweep[k].raw)
       ELSE SetSweep(k, "select", NoRaw)
    /\ UNCHANGED <<rawVars, deleted, current, rawEvents, createdEvents, ingesting,
                   taskVars, faults>>

AnnounceReIngested(k) ==
    /\ sweep[k].pc = "announce"
    /\ Announce
    /\ SetSweep(k, "select", NoRaw)
    /\ UNCHANGED <<rawVars, quarantine, rowVars, deleted, current, rawEvents, ingesting,
                   taskVars, fresh, faults>>

\* Mutant: the second leg is missing.
FindNoStaleReviews(k) ==
    /\ sweep[k].pc = "select"
    /\ SetSweep(k, "idle", NoRaw)
    /\ UNCHANGED <<rawVars, quarantine, rowVars, deleted, current, rawEvents,
                   createdEvents, ingesting, taskVars, fresh, faults>>

FindStaleNewReviews(k) ==
    /\ sweep[k].pc = "select"
    /\ SetSweep(k, IF Present /\ status = "new" /\ aged THEN "republish" ELSE "idle", NoRaw)
    /\ UNCHANGED <<rawVars, quarantine, rowVars, deleted, current, rawEvents,
                   createdEvents, ingesting, taskVars, fresh, faults>>

RepublishCreated(k) ==
    /\ sweep[k].pc = "republish"
    /\ Announce
    /\ SetSweep(k, "idle", NoRaw)
    /\ UNCHANGED <<rawVars, quarantine, rowVars, deleted, current, rawEvents, ingesting,
                   taskVars, fresh, faults>>

\* A failed publish or query, or a crash: the next pass looks again.
SweepFails(k) ==
    /\ sweep[k].pc # "idle"
    /\ \E next \in IF sweep[k].pc \in {"ingest", "announce"} THEN {"select", "idle"}
                   ELSE {"idle"} : SetSweep(k, next, NoRaw)
    /\ Fault
    /\ UNCHANGED <<rawVars, quarantine, rowVars, deleted, current, rawEvents,
                   createdEvents, ingesting, taskVars, fresh>>

AgeRow ==
    /\ Present
    /\ ~aged
    /\ aged' = TRUE
    /\ UNCHANGED <<rawVars, quarantine, ptr, content, status, mismarked, deleted, current,
                   rawEvents, createdEvents, ingestVars, taskVars, fresh, faults>>

-------------------------------------------------------------------------------
(* The analyzer: handle and analyze_one *)

Goto(a, l) == task' = [task EXCEPT ![a] = l]

\* What was read is needed no more.
Finish(a, l) == Goto(a, l) /\ snap' = [snap EXCEPT ![a] = NoContent]
Forget(a) == fresh' = [fresh EXCEPT ![a] = FALSE]

\* Takes a copy of the event and reads the row; a deleted one is skipped.
ReadReview(a) ==
    /\ task[a] = "idle"
    /\ createdEvents > 0
    /\ createdEvents' = createdEvents - 1
    /\ IF deleted
       THEN UNCHANGED <<taskVars, fresh>>
       ELSE /\ snap' = [snap EXCEPT ![a] = content]
            /\ fresh' = [fresh EXCEPT ![a] = TRUE]
            /\ Goto(a, "check")
    /\ UNCHANGED <<rawVars, quarantine, rowVars, deleted, current, rawEvents, ingestVars,
                   faults>>

\* Is the current analysis of the very content that was read?  If not, the
\* model is called, which takes a while.
CheckCurrent(a) ==
    /\ task[a] = "check"
    /\ IF current = snap[a]
       THEN Finish(a, "mark") /\ Forget(a)
       ELSE Goto(a, "commit") /\ UNCHANGED <<snap, fresh>>
    /\ UNCHANGED <<rawVars, quarantine, rowVars, deleted, current, rawEvents,
                   createdEvents, ingestVars, faults>>

\* UPDATE ... WHERE status = 'new': it does not look at version.
MarkAnalyzed(a) ==
    /\ task[a] = "mark"
    /\ IF status = "new" /\ ~deleted
       THEN /\ status' = "analyzed"
            /\ mismarked' = (content # current)
            /\ TouchRow
            /\ UNCHANGED <<ptr, content>>
       ELSE RowUntouched
    /\ Goto(a, "publish")
    /\ UNCHANGED <<rawVars, quarantine, deleted, current, rawEvents, createdEvents,
                   ingestVars, snap, faults>>

\* Mutant: the version fence is gone.
CommitUnfenced(a) ==
    /\ task[a] = "commit"
    /\ current' = snap[a]
    /\ IF status = "new"
       THEN status' = "analyzed" /\ TouchRow /\ UNCHANGED <<ptr, content, mismarked>>
       ELSE UNCHANGED rowVars /\ Forget(a)
    /\ Finish(a, "publish")
    /\ UNCHANGED <<rawVars, quarantine, deleted, rawEvents, createdEvents, ingestVars,
                   faults>>

\* The transaction that makes the new analysis current, if version is still
\* the one that was read (FOR UPDATE) and the review is not deleted.
CommitAnalysis(a) ==
    /\ task[a] = "commit"
    /\ ~deleted
    /\ fresh[a]
    /\ current' = snap[a]
    /\ mismarked' = FALSE
    /\ IF status = "new"
       THEN status' = "analyzed" /\ TouchRow /\ UNCHANGED <<ptr, content>>
       ELSE UNCHANGED <<ptr, content, status, aged>> /\ Forget(a)
    /\ Finish(a, "publish")
    /\ UNCHANGED <<rawVars, quarantine, deleted, rawEvents, createdEvents, ingestVars,
                   faults>>

DiscardAnalysis(a) ==
    /\ task[a] = "commit"
    /\ deleted
    /\ Finish(a, "idle")
    /\ Forget(a)
    /\ UNCHANGED <<rawVars, quarantine, rowVars, deleted, current, rawEvents,
                   createdEvents, ingestVars, faults>>

\* StaleReviewError: the event is retried and the new content read.
StaleAnalysis(a) ==
    /\ task[a] = "commit"
    /\ ~deleted
    /\ ~fresh[a]
    /\ NakCreated
    /\ Finish(a, "idle")
    /\ UNCHANGED <<rawVars, quarantine, rowVars, deleted, current, rawEvents, ingestVars,
                   fresh, faults>>

\* review.analyzed is published and the event acknowledged.
PublishAnalyzed(a) ==
    /\ task[a] = "publish"
    /\ Goto(a, "idle")
    /\ UNCHANGED <<rawVars, quarantine, rowVars, deleted, current, rawEvents,
                   createdEvents, ingestVars, snap, fresh, faults>>

\* The model or the database fails, the publish fails, or the process dies.
AnalyzeFails(a) ==
    /\ task[a] # "idle"
    /\ NakCreated
    /\ Finish(a, "idle")
    /\ Forget(a)
    /\ Fault
    /\ UNCHANGED <<rawVars, quarantine, rowVars, deleted, current, rawEvents, ingestVars>>

\* The copy is dead-lettered without having been handled, or comes again.
CreatedEventLost ==
    /\ createdEvents > 0
    /\ createdEvents' = createdEvents - 1
    /\ Fault
    /\ UNCHANGED <<rawVars, quarantine, rowVars, deleted, current, rawEvents, ingestVars,
                   taskVars, fresh>>

CreatedEventAgain ==
    /\ ptr # NoRaw
    /\ createdEvents < MaxCopies
    /\ createdEvents' = createdEvents + 1
    /\ Fault
    /\ UNCHANGED <<rawVars, quarantine, rowVars, deleted, current, rawEvents, ingestVars,
                   taskVars, fresh>>

-------------------------------------------------------------------------------
Init ==
    /\ raw = [i \in RawId |-> NoPayload]
    /\ stamp = [i \in RawId |-> 0]
    /\ horizon = 0
    /\ quarantine = {}
    /\ ptr = NoRaw
    /\ content = NoContent
    /\ status = "none"
    /\ deleted = FALSE
    /\ aged = FALSE
    /\ current = NoContent
    /\ rawEvents = [i \in RawId |-> 0]
    /\ createdEvents = 0
    /\ ingesting = [w \in Ingester |-> NoRaw]
    /\ sweep = [k \in Sweeper |-> [pc |-> "idle", raw |-> NoRaw]]
    /\ task = [a \in Analyst |-> "idle"]
    /\ snap = [a \in Analyst |-> NoContent]
    /\ fresh = [a \in Analyst |-> FALSE]
    /\ mismarked = FALSE
    /\ faults = FaultBudget

IngesterStep(w) == PublishCreated(w) \/ \E i \in RawId : IngestEvent(w, i)

SweeperStep(k) ==
    \/ FindUnreflectedRaws(k) \/ ReIngest(k) \/ AnnounceReIngested(k)
    \/ FindStaleNewReviews(k) \/ RepublishCreated(k)

AnalystStep(a) ==
    \/ ReadReview(a) \/ CheckCurrent(a) \/ MarkAnalyzed(a) \/ CommitAnalysis(a)
    \/ DiscardAnalysis(a) \/ StaleAnalysis(a) \/ PublishAnalyzed(a)

Failure ==
    \/ \E i \in RawId : RawEventLost(i) \/ RawEventAgain(i)
    \/ CreatedEventLost \/ CreatedEventAgain
    \/ \E w \in Ingester : PublishCreatedFails(w)
    \/ \E k \in Sweeper : SweepFails(k)
    \/ \E a \in Analyst : AnalyzeFails(a)

Next ==
    \/ \E p \in Payload : StoreRaw(p)
    \/ SoftDelete
    \/ \E w \in Ingester : IngesterStep(w)
    \/ \E k \in Sweeper : SweeperStep(k)
    \/ \E a \in Analyst : AnalystStep(a)
    \/ TimePasses \/ AgeRow
    \/ Failure

Spec == Init /\ [][Next]_vars

\* Services that are up keep running and time passes; nobody has to write
\* another review, and nothing has to fail.
Fairness ==
    /\ \A w \in Ingester : WF_vars(IngesterStep(w))
    /\ \A k \in Sweeper : WF_vars(SweeperStep(k))
    /\ \A a \in Analyst : WF_vars(AnalystStep(a))
    /\ WF_vars(TimePasses)
    /\ WF_vars(AgeRow)

FairSpec == Spec /\ Fairness

-------------------------------------------------------------------------------
(* Properties *)

\* Every variable keeps its type: what normalize rejects never gets into the row.
TypeOK ==
    /\ raw \in [RawId -> Payload \cup {NoPayload}]
    /\ stamp \in [RawId -> 0..MaxRaws]
    /\ horizon \in 0..MaxRaws
    /\ quarantine \in SUBSET RawId
    /\ ptr \in RawId \cup {NoRaw}
    /\ content \in Content \cup {NoContent}
    /\ status \in {"none", "new", "analyzed"}
    /\ deleted \in BOOLEAN
    /\ aged \in BOOLEAN
    /\ current \in Content \cup {NoContent}
    /\ rawEvents \in [RawId -> 0..MaxCopies]
    /\ createdEvents \in 0..MaxCopies
    /\ ingesting \in [Ingester -> RawId \cup {NoRaw}]
    /\ sweep \in [Sweeper ->
                    [pc : {"idle", "ingest", "announce", "select", "republish"},
                     raw : RawId \cup {NoRaw}]]
    /\ task \in [Analyst -> {"idle", "check", "mark", "commit", "publish"}]
    /\ snap \in [Analyst -> Content \cup {NoContent}]
    /\ fresh \in [Analyst -> BOOLEAN]
    /\ mismarked \in BOOLEAN
    /\ faults \in 0..FaultBudget

\* A review that counts as analyzed shows what its current analysis was made
\* from, except after mark_analyzed flipped a row it had not looked at again:
\* the fence of analyze_one lets no analysis of an older content through.
AnalyzedMatchesContent ==
    status = "analyzed" => current = content \/ mismarked

\* Once a review is soft-deleted neither a version still in a queue nor an
\* analysis still with the model changes it or its analysis again.
DeletedStaysUntouched ==
    [][deleted => UNCHANGED <<ptr, content, status, current>>]_vars

\* status becomes analyzed only when the current analysis is of what the row
\* shows ("... or status would be flipped by mistake and the stale-new net
\* taken down", comment in analyze_one).
FlipMeansAnalyzed ==
    [][status = "new" /\ status' = "analyzed" => current' = content']_vars

\* Again and again the row catches up with the newest version of the review,
\* whichever events about it were lost, repeated or late (FindUnreflectedRaws).
Reflected ==
    \A i \in Known :
        IsLatest(i, Known) /\ Normalized(i) # BadPayload /\ ~deleted => ptr = i

LatestIsReflected == []<>Reflected

\* A review that is new is analyzed as it is then shown, if mark_analyzed has
\* not taken it off the list before (FindStaleNewReviews).
NewIsAnalyzed ==
    status = "new" ~> current = content \/ mismarked \/ deleted
===============================================================================

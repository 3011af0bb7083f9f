------------------------- MODULE ReviewPipelineProofs -------------------------
(***************************************************************************)
(* Theorems about ReviewPipeline, for any number of raw versions, payloads,*)
(* contents, ingesters, sweepers, analysts, event copies and faults.       *)
(***************************************************************************)
EXTENDS ReviewPipeline, TLAPS

USE ReviewAssumption

-------------------------------------------------------------------------------
(* Type correctness *)

\* Whoever has a raw version in hand has one that is in the table: together
\* with TypeOK this is inductive, because normalize is only asked about those.
NamesKnown ==
    /\ \A i \in RawId : rawEvents[i] > 0 => i \in Known
    /\ \A w \in Ingester : ingesting[w] # NoRaw => ingesting[w] \in Known
    /\ \A k \in Sweeper : sweep[k].pc = "ingest" => sweep[k].raw \in Known

TypeInv == TypeOK /\ NamesKnown

LEMMA PlusType ==
    ASSUME NEW n \in 0..MaxCopies
    PROVE  Plus(n) \in 0..MaxCopies
BY DEF Plus

LEMMA InitType == Init => TypeInv
<1> SUFFICES ASSUME Init PROVE TypeOK /\ NamesKnown
  BY DEF TypeInv
<1>1. TypeOK
  <2>1. /\ raw \in [RawId -> Payload \cup {NoPayload}]
        /\ stamp \in [RawId -> 0..MaxRaws]
        /\ rawEvents \in [RawId -> 0..MaxCopies]
        /\ createdEvents \in 0..MaxCopies /\ faults \in 0..FaultBudget
        /\ horizon \in 0..MaxRaws
    BY DEF Init
  <2>2. /\ ingesting \in [Ingester -> RawId \cup {NoRaw}]
        /\ task \in [Analyst -> {"idle", "check", "mark", "commit", "publish"}]
        /\ snap \in [Analyst -> Content \cup {NoContent}]
        /\ fresh \in [Analyst -> BOOLEAN]
    BY DEF Init
  <2>3. sweep \in [Sweeper ->
                     [pc : {"idle", "ingest", "announce", "select", "republish"},
                      raw : RawId \cup {NoRaw}]]
    BY DEF Init
  <2>4. QED
    BY <2>1, <2>2, <2>3 DEF Init, TypeOK
<1>2. NamesKnown
  BY DEF Init, NamesKnown
<1>3. QED
  BY <1>1, <1>2

\* What a task, an event or a sweep needs when the raws stay as they are.
LEMMA KnownStays ==
    ASSUME UNCHANGED raw
    PROVE  Known' = Known
BY DEF Known

\* Ingesting a known raw version writes a well-formed row.
LEMMA IngestType ==
    ASSUME TypeOK, NEW i \in Known, Ingest(i)
    PROVE  /\ quarantine' \in SUBSET RawId
           /\ ptr' \in RawId \cup {NoRaw}
           /\ content' \in Content \cup {NoContent}
           /\ status' \in {"none", "new", "analyzed"}
           /\ aged' \in BOOLEAN
           /\ mismarked' \in BOOLEAN
           /\ fresh' \in [Analyst -> BOOLEAN]
<1>1. i \in RawId /\ raw[i] \in Payload
  BY DEF Known, TypeOK
<1>2. Outcome(i) # "quarantine" => Normalized(i) \in Content
  BY <1>1 DEF Outcome, Normalized
<1>3. CASE Outcome(i) \in {"applied", "pointer_only"}
  <2>1. /\ ptr' = i
        /\ content' = Normalized(i)
        /\ status' = IF Outcome(i) = "applied" THEN "new" ELSE status
        /\ mismarked' = (Outcome(i) # "applied" /\ mismarked)
        /\ aged' = FALSE
        /\ fresh' = [a \in Analyst |-> FALSE]
        /\ quarantine' = quarantine
    BY <1>3 DEF Ingest, TouchRow
  <2>2. mismarked' \in BOOLEAN
    BY <2>1 DEF TypeOK
  <2>3. QED
    BY <1>1, <1>2, <1>3, <2>1, <2>2 DEF TypeOK
<1>4. CASE Outcome(i) \notin {"applied", "pointer_only"}
  BY <1>1, <1>4 DEF Ingest, RowUntouched, rowVars, TypeOK
<1>5. QED
  BY <1>3, <1>4

LEMMA StoreRawType ==
    ASSUME TypeInv, NEW p \in Payload, StoreRaw(p)
    PROVE  TypeInv'
<1> USE DEF TypeInv
<1>1. PICK i \in RawId :
        /\ \/ IsLatest(i, Known) /\ UNCHANGED <<raw, stamp>>
           \/ /\ raw' = [raw EXCEPT ![i] = p]
              /\ \E t \in RawId : stamp' = [stamp EXCEPT ![i] = t]
        /\ \/ rawEvents' = [rawEvents EXCEPT ![i] = Plus(@)] /\ UNCHANGED faults
           \/ Fault /\ UNCHANGED rawEvents
  BY DEF StoreRaw
<1>2. /\ raw' \in [RawId -> Payload \cup {NoPayload}]
      /\ stamp' \in [RawId -> 0..MaxRaws]
      /\ i \in Known'
      /\ Known \subseteq Known'
  <2>1. CASE IsLatest(i, Known) /\ UNCHANGED <<raw, stamp>>
    BY <2>1 DEF TypeOK, Known, IsLatest
  <2>2. CASE /\ raw' = [raw EXCEPT ![i] = p]
             /\ \E t \in RawId : stamp' = [stamp EXCEPT ![i] = t]
    <3>1. raw' \in [RawId -> Payload \cup {NoPayload}]
      BY <2>2 DEF TypeOK
    <3>2. stamp' \in [RawId -> 0..MaxRaws]
      BY <2>2 DEF TypeOK, RawId
    <3>3. p # NoPayload
      OBVIOUS
    <3>4. i \in Known' /\ Known \subseteq Known'
      BY <2>2, <3>3 DEF TypeOK, Known
    <3>5. QED
      BY <3>1, <3>2, <3>4
  <2>3. QED
    BY <1>1, <2>1, <2>2
<1>3. rawEvents[i] \in 0..MaxCopies
  BY DEF TypeOK
<1>4. /\ rawEvents' \in [RawId -> 0..MaxCopies]
      /\ faults' \in 0..FaultBudget
      /\ \A j \in RawId : rawEvents'[j] > 0 => rawEvents[j] > 0 \/ j = i
  BY <1>1, <1>3, PlusType DEF TypeOK, Fault
<1>5. UNCHANGED <<horizon, quarantine, rowVars, deleted, current, createdEvents,
                  ingestVars, taskVars, fresh>>
  BY DEF StoreRaw
<1>6. TypeOK'
  BY <1>2, <1>4, <1>5 DEF TypeOK, rowVars, ingestVars, taskVars
<1>7. NamesKnown'
  BY <1>2, <1>4, <1>5 DEF NamesKnown, ingestVars
<1>8. QED
  BY <1>6, <1>7

LEMMA TimeType ==
    ASSUME TypeInv, TimePasses \/ AgeRow \/ SoftDelete
    PROVE  TypeInv'
<1>1. CASE TimePasses
  BY <1>1 DEF TimePasses, TypeInv, TypeOK, NamesKnown, Known, rowVars, ingestVars, taskVars
<1>2. CASE AgeRow
  BY <1>2 DEF AgeRow, TypeInv, TypeOK, NamesKnown, Known, rawVars, ingestVars, taskVars
<1>3. CASE SoftDelete
  BY <1>3 DEF SoftDelete, TouchRow, TypeInv, TypeOK, NamesKnown, Known, rawVars, ingestVars,
              taskVars
<1>4. QED
  BY <1>1, <1>2, <1>3

LEMMA IngesterType ==
    ASSUME TypeInv, NEW w \in Ingester, IngesterStep(w)
    PROVE  TypeInv'
<1>1. CASE PublishCreated(w)
  BY <1>1, PlusType DEF PublishCreated, Announce, TypeInv, TypeOK, NamesKnown, Known, rawVars,
                        rowVars, taskVars
<1>2. ASSUME NEW i \in RawId, IngestEvent(w, i)
      PROVE  TypeInv'
  <2>1. i \in Known
    BY <1>2 DEF IngestEvent, TypeInv, NamesKnown
  <2>2. rawEvents' = [rawEvents EXCEPT ![i] = @ - 1] /\ rawEvents[i] > 0
    BY <1>2 DEF IngestEvent
  <2>3. /\ rawEvents' \in [RawId -> 0..MaxCopies]
        /\ \A j \in RawId : rawEvents'[j] > 0 => rawEvents[j] > 0
    BY <2>2 DEF TypeInv, TypeOK
  <2>4. /\ ingesting' \in [Ingester -> RawId \cup {NoRaw}]
        /\ \A v \in Ingester : ingesting'[v] # NoRaw => ingesting'[v] \in Known
    BY <1>2, <2>1 DEF IngestEvent, TypeInv, TypeOK, NamesKnown
  <2>5. Ingest(i) /\ UNCHANGED <<rawVars, deleted, current, createdEvents, sweep, taskVars,
                                 faults>>
    BY <1>2 DEF IngestEvent
  <2>6. QED
    BY <2>1, <2>3, <2>4, <2>5, IngestType
       DEF TypeInv, TypeOK, NamesKnown, Known, rawVars, taskVars
<1>3. QED
  BY <1>1, <1>2 DEF IngesterStep

LEMMA SweeperType ==
    ASSUME TypeInv, NEW k \in Sweeper, SweeperStep(k)
    PROVE  TypeInv'
<1> USE DEF TypeInv, SetSweep
<1>1. CASE FindUnreflectedRaws(k)
  BY <1>1, SMTT(30)
     DEF FindUnreflectedRaws, IsLatest, OldRaws, TypeOK, NamesKnown, Known, rawVars,
              rowVars, taskVars
<1>2. CASE ReIngest(k)
  <2>1. sweep[k].raw \in Known /\ sweep[k].raw \in RawId
    BY <1>2 DEF ReIngest, NamesKnown, Known
  <2>2. sweep' \in [Sweeper ->
                      [pc : {"idle", "ingest", "announce", "select", "republish"},
                       raw : RawId \cup {NoRaw}]]
    BY <1>2, <2>1 DEF ReIngest, TypeOK
  <2>3. \A j \in Sweeper : sweep'[j].pc = "ingest" => sweep'[j] = sweep[j]
    BY <1>2 DEF ReIngest, TypeOK
  <2>4. Ingest(sweep[k].raw) /\ UNCHANGED <<rawVars, deleted, current, rawEvents,
                                            createdEvents, ingesting, taskVars, faults>>
    BY <1>2 DEF ReIngest
  <2>5. TypeOK'
    BY <2>1, <2>2, <2>4, IngestType DEF TypeOK, rawVars, taskVars
  <2>6. NamesKnown'
    BY <2>3, <2>4 DEF NamesKnown, Known, rawVars
  <2>7. QED
    BY <2>5, <2>6
<1>3. CASE AnnounceReIngested(k)
  BY <1>3, PlusType DEF AnnounceReIngested, Announce, TypeOK, NamesKnown, Known, rawVars,
                        rowVars, taskVars
<1>4. CASE FindStaleNewReviews(k)
  BY <1>4 DEF FindStaleNewReviews, TypeOK, NamesKnown, Known, rawVars, rowVars, taskVars
<1>5. CASE RepublishCreated(k)
  BY <1>5, PlusType DEF RepublishCreated, Announce, TypeOK, NamesKnown, Known, rawVars,
                        rowVars, taskVars
<1>6. QED
  BY <1>1, <1>2, <1>3, <1>4, <1>5 DEF SweeperStep

LEMMA AnalystType ==
    ASSUME TypeInv, NEW a \in Analyst, AnalystStep(a)
    PROVE  TypeInv'
<1> USE DEF TypeInv, Goto, Finish, Forget
<1>1. CASE ReadReview(a)
  <2>0. createdEvents' \in 0..MaxCopies
    BY <1>1 DEF ReadReview, TypeOK
  <2>1. /\ snap' \in [Analyst -> Content \cup {NoContent}]
        /\ fresh' \in [Analyst -> BOOLEAN]
        /\ task' \in [Analyst -> {"idle", "check", "mark", "commit", "publish"}]
    <3>1. CASE deleted
      BY <1>1, <3>1 DEF ReadReview, TypeOK, taskVars
    <3>2. CASE ~deleted
      <4>1. /\ snap' = [snap EXCEPT ![a] = content]
            /\ fresh' = [fresh EXCEPT ![a] = TRUE]
            /\ task' = [task EXCEPT ![a] = "check"]
        BY <1>1, <3>2 DEF ReadReview
      <4>2. /\ content \in Content \cup {NoContent}
            /\ snap \in [Analyst -> Content \cup {NoContent}]
            /\ fresh \in [Analyst -> BOOLEAN]
            /\ task \in [Analyst -> {"idle", "check", "mark", "commit", "publish"}]
        BY DEF TypeOK
      <4>3. QED
        BY <4>1, <4>2
    <3>3. QED
      BY <3>1, <3>2
  <2>2. UNCHANGED <<rawVars, quarantine, rowVars, deleted, current, rawEvents, ingestVars,
                    faults>>
    BY <1>1 DEF ReadReview
  <2>3. QED
    BY <2>0, <2>1, <2>2 DEF TypeOK, NamesKnown, Known, rawVars, rowVars, ingestVars
<1>2. CASE CheckCurrent(a)
  BY <1>2 DEF CheckCurrent, TypeOK, NamesKnown, Known, rawVars, rowVars, ingestVars
<1>3. CASE MarkAnalyzed(a)
  <2>1. /\ status' \in {"new", "analyzed", "none"}
        /\ mismarked' \in BOOLEAN
        /\ aged' \in BOOLEAN
        /\ fresh' \in [Analyst -> BOOLEAN]
        /\ UNCHANGED <<ptr, content>>
    BY <1>3, ZenonT(40) DEF MarkAnalyzed, TouchRow, RowUntouched, TypeOK, rowVars
  <2>2. task' \in [Analyst -> {"idle", "check", "mark", "commit", "publish"}]
    BY <1>3 DEF MarkAnalyzed, TypeOK
  <2>3. UNCHANGED <<rawVars, quarantine, deleted, current, rawEvents, createdEvents,
                    ingestVars, snap, faults>>
    BY <1>3 DEF MarkAnalyzed
  <2>4. QED
    BY <2>1, <2>2, <2>3 DEF TypeOK, NamesKnown, Known, rawVars, ingestVars
<1>4. CASE CommitAnalysis(a)
  <2>1. /\ current' \in Content \cup {NoContent}
        /\ status' \in {"none", "new", "analyzed"}
        /\ mismarked' = FALSE
        /\ aged' \in BOOLEAN
        /\ fresh' \in [Analyst -> BOOLEAN]
        /\ UNCHANGED <<ptr, content>>
    BY <1>4, ZenonT(40) DEF CommitAnalysis, TouchRow, TypeOK
  <2>2. /\ snap' \in [Analyst -> Content \cup {NoContent}]
        /\ task' \in [Analyst -> {"idle", "check", "mark", "commit", "publish"}]
    BY <1>4 DEF CommitAnalysis, TypeOK
  <2>3. UNCHANGED <<rawVars, quarantine, deleted, rawEvents, createdEvents, ingestVars,
                    faults>>
    BY <1>4 DEF CommitAnalysis
  <2>4. QED
    BY <2>1, <2>2, <2>3 DEF TypeOK, NamesKnown, Known, rawVars, ingestVars
<1>5. CASE DiscardAnalysis(a)
  BY <1>5 DEF DiscardAnalysis, TypeOK, NamesKnown, Known, rawVars, rowVars, ingestVars
<1>6. CASE StaleAnalysis(a)
  BY <1>6, PlusType DEF StaleAnalysis, NakCreated, TypeOK, NamesKnown, Known, rawVars,
                        rowVars, ingestVars
<1>7. CASE PublishAnalyzed(a)
  BY <1>7 DEF PublishAnalyzed, TypeOK, NamesKnown, Known, rawVars, rowVars, ingestVars
<1>8. QED
  BY <1>1, <1>2, <1>3, <1>4, <1>5, <1>6, <1>7 DEF AnalystStep

LEMMA FailureType ==
    ASSUME TypeInv, Failure
    PROVE  TypeInv'
<1> USE DEF TypeInv, Fault
<1>1. ASSUME NEW i \in RawId, RawEventLost(i) PROVE TypeInv'
  BY <1>1 DEF RawEventLost, TypeOK, NamesKnown, Known, rawVars, rowVars, ingestVars, taskVars
<1>2. ASSUME NEW i \in RawId, RawEventAgain(i) PROVE TypeInv'
  BY <1>2 DEF RawEventAgain, TypeOK, NamesKnown, Known, rawVars, rowVars, ingestVars, taskVars
<1>3. CASE CreatedEventLost
  BY <1>3 DEF CreatedEventLost, TypeOK, NamesKnown, Known, rawVars, rowVars, ingestVars,
              taskVars
<1>4. CASE CreatedEventAgain
  BY <1>4 DEF CreatedEventAgain, TypeOK, NamesKnown, Known, rawVars, rowVars, ingestVars,
              taskVars
<1>5. ASSUME NEW w \in Ingester, PublishCreatedFails(w) PROVE TypeInv'
  <2>1. ingesting[w] \in RawId
    BY <1>5 DEF PublishCreatedFails, TypeOK
  <2>2. rawEvents[ingesting[w]] \in 0..MaxCopies
    BY <2>1 DEF TypeOK
  <2>3. ingesting[w] \in Known
    BY <1>5 DEF PublishCreatedFails, NamesKnown
  <2>4. /\ rawEvents' \in [RawId -> 0..MaxCopies]
        /\ \A j \in RawId : rawEvents'[j] > 0 => rawEvents[j] > 0 \/ j = ingesting[w]
    BY <1>5, <2>1, <2>2, PlusType DEF PublishCreatedFails, NakRaw, TypeOK
  <2>5. /\ ingesting' \in [Ingester -> RawId \cup {NoRaw}]
        /\ \A v \in Ingester : ingesting'[v] # NoRaw => ingesting'[v] = ingesting[v]
    BY <1>5 DEF PublishCreatedFails, TypeOK
  <2>6. faults' \in 0..FaultBudget
    BY <1>5 DEF PublishCreatedFails, TypeOK
  <2>7. UNCHANGED <<rawVars, quarantine, rowVars, deleted, current, createdEvents, sweep,
                    taskVars, fresh>>
    BY <1>5 DEF PublishCreatedFails
  <2>8. TypeOK'
    BY <2>4, <2>5, <2>6, <2>7 DEF TypeOK, rawVars, rowVars, taskVars
  <2>9. QED
    BY <2>3, <2>4, <2>5, <2>7, <2>8 DEF NamesKnown, Known, rawVars
<1>6. ASSUME NEW k \in Sweeper, SweepFails(k) PROVE TypeInv'
  BY <1>6 DEF SweepFails, SetSweep, TypeOK, NamesKnown, Known, rawVars, rowVars, taskVars
<1>7. ASSUME NEW a \in Analyst, AnalyzeFails(a) PROVE TypeInv'
  BY <1>7, PlusType DEF AnalyzeFails, NakCreated, Goto, Finish, Forget, TypeOK, NamesKnown,
                        Known, rawVars, rowVars, ingestVars
<1>8. QED
  BY <1>1, <1>2, <1>3, <1>4, <1>5, <1>6, <1>7 DEF Failure

LEMMA NextType ==
    ASSUME TypeInv, [Next]_vars
    PROVE  TypeInv'
<1>1. CASE UNCHANGED vars
  BY <1>1 DEF vars, rawVars, rowVars, ingestVars, taskVars, TypeInv, TypeOK, NamesKnown, Known
<1>2. CASE Next
  BY <1>2, StoreRawType, TimeType, IngesterType, SweeperType, AnalystType, FailureType DEF Next
<1>3. QED
  BY <1>1, <1>2

\* TypeOK holds in every reachable state, whatever the constants.
THEOREM TypeCorrect == Spec => []TypeOK
<1>1. Init => TypeInv
  BY InitType
<1>2. TypeInv /\ [Next]_vars => TypeInv'
  BY NextType
<1>3. TypeInv => TypeOK
  BY DEF TypeInv
<1>4. QED
  BY <1>1, <1>2, <1>3, PTL DEF Spec

-------------------------------------------------------------------------------
(* The version fence *)

\* As long as the row's version is the one an analyst has read, the row shows
\* what it has read: every write of content moves the version as well.
FenceHolds == \A a \in Analyst : fresh[a] => snap[a] = content

AnalysisInv == TypeInv /\ FenceHolds /\ AnalyzedMatchesContent

\* An ingested version leaves no analyst with an unmoved version, and a row
\* whose content changed is new again.
LEMMA IngestFence ==
    ASSUME AnalysisInv, NEW i \in Known, Ingest(i), UNCHANGED <<current, snap>>
    PROVE  FenceHolds' /\ AnalyzedMatchesContent'
<1> USE DEF AnalysisInv
<1>1. CASE Outcome(i) \in {"applied", "pointer_only"}
  <2>1. FenceHolds'
    BY <1>1 DEF Ingest, TouchRow, FenceHolds
  <2>2. /\ content' = Normalized(i)
        /\ status' = IF Outcome(i) = "applied" THEN "new" ELSE status
        /\ mismarked' = (Outcome(i) # "applied" /\ mismarked)
    BY <1>1 DEF Ingest
  <2>3. CASE Outcome(i) = "applied"
    BY <2>1, <2>2, <2>3 DEF AnalyzedMatchesContent
  <2>4. CASE Outcome(i) = "pointer_only"
    <3>1. Normalized(i) = content
      BY <2>4 DEF Outcome
    <3>2. mismarked' = mismarked
      BY <2>2, <2>4 DEF TypeInv, TypeOK
    <3>3. QED
      BY <2>1, <2>2, <2>4, <3>1, <3>2 DEF AnalyzedMatchesContent
  <2>5. QED
    BY <1>1, <2>1, <2>3, <2>4
<1>2. CASE Outcome(i) \notin {"applied", "pointer_only"}
  BY <1>2 DEF Ingest, RowUntouched, rowVars, FenceHolds, AnalyzedMatchesContent
<1>3. QED
  BY <1>1, <1>2

LEMMA AnalystFence ==
    ASSUME AnalysisInv, NEW a \in Analyst, AnalystStep(a)
    PROVE  FenceHolds' /\ AnalyzedMatchesContent'
<1> USE DEF AnalysisInv, TypeInv, TypeOK
<1>1. CASE ReadReview(a)
  <2>1. FenceHolds'
    BY <1>1 DEF ReadReview, FenceHolds, rowVars, taskVars
  <2>2. AnalyzedMatchesContent'
    BY <1>1 DEF ReadReview, AnalyzedMatchesContent, rowVars
  <2>3. QED
    BY <2>1, <2>2
<1>2. CASE CheckCurrent(a)
  BY <1>2 DEF CheckCurrent, Finish, Forget, Goto, FenceHolds, AnalyzedMatchesContent, rowVars
<1>3. CASE MarkAnalyzed(a)
  <2>1. CASE status = "new" /\ ~deleted
    BY <1>3, <2>1 DEF MarkAnalyzed, TouchRow, FenceHolds, AnalyzedMatchesContent
  <2>2. CASE ~(status = "new" /\ ~deleted)
    BY <1>3, <2>2 DEF MarkAnalyzed, RowUntouched, rowVars, FenceHolds, AnalyzedMatchesContent
  <2>3. QED
    BY <2>1, <2>2
<1>4. CASE CommitAnalysis(a)
  <2>1. current' = content /\ content' = content
    BY <1>4 DEF CommitAnalysis, FenceHolds
  <2>2. \A b \in Analyst : fresh'[b] => fresh[b] /\ b # a
    BY <1>4 DEF CommitAnalysis, TouchRow, Forget
  <2>3. \A b \in Analyst \ {a} : snap'[b] = snap[b]
    BY <1>4 DEF CommitAnalysis, Finish
  <2>4. QED
    BY <2>1, <2>2, <2>3 DEF FenceHolds, AnalyzedMatchesContent
<1>5. CASE DiscardAnalysis(a)
  BY <1>5 DEF DiscardAnalysis, Finish, Forget, FenceHolds, AnalyzedMatchesContent, rowVars
<1>6. CASE StaleAnalysis(a)
  BY <1>6 DEF StaleAnalysis, Finish, FenceHolds, AnalyzedMatchesContent, rowVars
<1>7. CASE PublishAnalyzed(a)
  BY <1>7 DEF PublishAnalyzed, FenceHolds, AnalyzedMatchesContent, rowVars
<1>8. QED
  BY <1>1, <1>2, <1>3, <1>4, <1>5, <1>6, <1>7 DEF AnalystStep

\* The steps that neither write the row nor belong to an analyst.
LEMMA QuietFence ==
    ASSUME AnalysisInv, UNCHANGED <<content, status, mismarked, current, snap>>,
           \/ UNCHANGED fresh
           \/ fresh' = [a \in Analyst |-> FALSE]
    PROVE  FenceHolds' /\ AnalyzedMatchesContent'
BY DEF AnalysisInv, FenceHolds, AnalyzedMatchesContent

LEMMA NextFence ==
    ASSUME AnalysisInv, [Next]_vars
    PROVE  AnalysisInv'
<1>1. TypeInv'
  BY NextType DEF AnalysisInv
<1>2. CASE UNCHANGED vars
  BY <1>1, <1>2, QuietFence DEF vars, rowVars, taskVars, AnalysisInv
<1>3. ASSUME NEW p \in Payload, StoreRaw(p) PROVE AnalysisInv'
  BY <1>1, <1>3, QuietFence DEF StoreRaw, rowVars, taskVars, AnalysisInv
<1>4. CASE TimePasses \/ AgeRow \/ SoftDelete
  BY <1>1, <1>4, QuietFence DEF TimePasses, AgeRow, SoftDelete, TouchRow, rowVars, taskVars,
                                AnalysisInv
<1>5. ASSUME NEW w \in Ingester, IngesterStep(w) PROVE AnalysisInv'
  <2>1. CASE PublishCreated(w)
    BY <1>1, <2>1, QuietFence DEF PublishCreated, rowVars, taskVars, AnalysisInv
  <2>2. ASSUME NEW i \in RawId, IngestEvent(w, i) PROVE AnalysisInv'
    <3>1. i \in Known
      BY <2>2 DEF IngestEvent, AnalysisInv, TypeInv, NamesKnown
    <3>2. QED
      BY <1>1, <2>2, <3>1, IngestFence DEF IngestEvent, taskVars, AnalysisInv
  <2>3. QED
    BY <1>5, <2>1, <2>2 DEF IngesterStep
<1>6. ASSUME NEW k \in Sweeper, SweeperStep(k) PROVE AnalysisInv'
  <2>1. CASE ReIngest(k)
    <3>1. sweep[k].raw \in Known
      BY <2>1 DEF ReIngest, AnalysisInv, TypeInv, NamesKnown
    <3>2. QED
      BY <1>1, <2>1, <3>1, IngestFence DEF ReIngest, taskVars, AnalysisInv
  <2>2. CASE ~ReIngest(k)
    BY <1>1, <1>6, <2>2, QuietFence
       DEF SweeperStep, FindUnreflectedRaws, AnnounceReIngested, FindStaleNewReviews,
           RepublishCreated, rowVars, taskVars, AnalysisInv
  <2>3. QED
    BY <2>1, <2>2
<1>7. ASSUME NEW a \in Analyst, AnalystStep(a) PROVE AnalysisInv'
  BY <1>1, <1>7, AnalystFence DEF AnalysisInv
<1>8. CASE Failure
  <2>1. ASSUME NEW a \in Analyst, AnalyzeFails(a) PROVE AnalysisInv'
    BY <1>1, <2>1 DEF AnalyzeFails, Finish, Forget, rowVars, AnalysisInv, TypeInv, TypeOK,
                      FenceHolds, AnalyzedMatchesContent
  <2>2. ASSUME \/ \E i \in RawId : RawEventLost(i) \/ RawEventAgain(i)
               \/ CreatedEventLost \/ CreatedEventAgain
               \/ \E w \in Ingester : PublishCreatedFails(w)
               \/ \E k \in Sweeper : SweepFails(k)
        PROVE  AnalysisInv'
    <3>1. UNCHANGED <<rowVars, current, taskVars, fresh>>
      BY <2>2 DEF RawEventLost, RawEventAgain, CreatedEventLost, CreatedEventAgain,
                  PublishCreatedFails, SweepFails
    <3>2. QED
      BY <1>1, <3>1, QuietFence DEF rowVars, taskVars, AnalysisInv
  <2>3. QED
    BY <1>8, <2>1, <2>2 DEF Failure
<1>9. QED
  BY <1>2, <1>3, <1>4, <1>5, <1>6, <1>7, <1>8 DEF Next

\* A review counts as analyzed only with an analysis of what it shows, unless
\* mark_analyzed mis-marked it: for any number of analysts and versions.
THEOREM AnalysesMatchContent == Spec => []AnalyzedMatchesContent
<1>1. Init => AnalysisInv
  <2> SUFFICES ASSUME Init PROVE AnalysisInv
    OBVIOUS
  <2>1. TypeInv
    BY InitType
  <2>2. FenceHolds /\ AnalyzedMatchesContent
    BY DEF Init, FenceHolds, AnalyzedMatchesContent
  <2>3. QED
    BY <2>1, <2>2 DEF AnalysisInv
<1>2. AnalysisInv /\ [Next]_vars => AnalysisInv'
  BY NextFence
<1>3. AnalysisInv => AnalyzedMatchesContent
  BY DEF AnalysisInv
<1>4. QED
  BY <1>1, <1>2, <1>3, PTL DEF Spec

-------------------------------------------------------------------------------
(* Soft deletion *)

\* Ingesting into a soft-deleted row leaves it alone; a deleted review has a
\* row, so it is never taken for one that is missing.
DeletedHasRow == deleted => ptr # NoRaw

LEMMA IngestDeleted ==
    ASSUME DeletedHasRow, deleted, NEW i \in RawId, Ingest(i)
    PROVE  UNCHANGED <<ptr, content, status>>
<1>1. Outcome(i) \in {"quarantine", "deleted"}
  BY DEF Outcome, DeletedHasRow
<1>2. QED
  BY <1>1 DEF Ingest, RowUntouched, rowVars

LEMMA NextDeleted ==
    ASSUME TypeInv, DeletedHasRow, [Next]_vars
    PROVE  /\ DeletedHasRow'
           /\ deleted => UNCHANGED <<ptr, content, status, current>>
<1>1. CASE ~deleted /\ deleted'
  <2>1. SoftDelete
    BY <1>1 DEF Next, vars, StoreRaw, IngesterStep, PublishCreated, IngestEvent, SweeperStep,
       FindUnreflectedRaws, ReIngest, AnnounceReIngested, FindStaleNewReviews,
       RepublishCreated, AnalystStep, ReadReview, CheckCurrent, MarkAnalyzed, CommitAnalysis,
       DiscardAnalysis, StaleAnalysis, PublishAnalyzed, TimePasses, AgeRow, Failure,
       RawEventLost, RawEventAgain, CreatedEventLost, CreatedEventAgain, PublishCreatedFails,
       SweepFails, AnalyzeFails
  <2>2. QED
    BY <1>1, <2>1 DEF SoftDelete, Present, DeletedHasRow
<1>2. CASE ~deleted /\ ~deleted'
  BY <1>2 DEF DeletedHasRow
<1>3. CASE deleted
  <2>1. UNCHANGED <<ptr, content, status, current>>
    <3>1. CASE UNCHANGED vars
      BY <3>1 DEF vars, rowVars
    <3>2. ASSUME NEW p \in Payload, StoreRaw(p) PROVE UNCHANGED <<ptr, content, status, current>>
      BY <3>2 DEF StoreRaw, rowVars
    <3>3. CASE TimePasses \/ AgeRow \/ SoftDelete
      BY <3>3 DEF TimePasses, AgeRow, SoftDelete, rowVars
    <3>4. ASSUME NEW w \in Ingester, IngesterStep(w)
          PROVE  UNCHANGED <<ptr, content, status, current>>
      BY <1>3, <3>4, IngestDeleted DEF IngesterStep, PublishCreated, IngestEvent, rowVars
    <3>5. ASSUME NEW k \in Sweeper, SweeperStep(k)
          PROVE  UNCHANGED <<ptr, content, status, current>>
      <4>1. CASE ReIngest(k)
        <5>1. sweep[k].raw \in RawId
          BY <4>1 DEF ReIngest, TypeInv, NamesKnown, Known
        <5>2. QED
          BY <1>3, <4>1, <5>1, IngestDeleted DEF ReIngest
      <4>2. CASE ~ReIngest(k)
        BY <3>5, <4>2 DEF SweeperStep, FindUnreflectedRaws, AnnounceReIngested,
                          FindStaleNewReviews, RepublishCreated, rowVars
      <4>3. QED
        BY <4>1, <4>2
    <3>6. ASSUME NEW a \in Analyst, AnalystStep(a)
          PROVE  UNCHANGED <<ptr, content, status, current>>
      BY <1>3, <3>6 DEF AnalystStep, ReadReview, CheckCurrent, MarkAnalyzed, CommitAnalysis,
                        DiscardAnalysis, StaleAnalysis, PublishAnalyzed, RowUntouched, rowVars
    <3>7. CASE Failure
      BY <3>7 DEF Failure, RawEventLost, RawEventAgain, CreatedEventLost, CreatedEventAgain,
                  PublishCreatedFails, SweepFails, AnalyzeFails, rowVars
    <3>8. QED
      BY <3>1, <3>2, <3>3, <3>4, <3>5, <3>6, <3>7 DEF Next
  <2>2. QED
    BY <2>1, <1>3 DEF DeletedHasRow
<1>4. QED
  BY <1>1, <1>2, <1>3

\* A soft-deleted review and its analysis are never written to again.
THEOREM DeletedReviewsStay == Spec => DeletedStaysUntouched
<1>1. Init => TypeInv /\ DeletedHasRow
  BY InitType DEF Init, DeletedHasRow
<1>2. TypeInv /\ DeletedHasRow /\ [Next]_vars => (TypeInv /\ DeletedHasRow)'
  BY NextType, NextDeleted
<1>3. /\ TypeInv /\ DeletedHasRow /\ [Next]_vars
      => [deleted => UNCHANGED <<ptr, content, status, current>>]_vars
  BY NextDeleted
<1>4. QED
  BY <1>1, <1>2, <1>3, PTL DEF Spec, DeletedStaysUntouched

-------------------------------------------------------------------------------
(* The row and the raw version it names *)

\* The row shows what its raw version normalizes to; no row, nothing to show.
RowShowsItsVersion ==
    /\ ptr # NoRaw => ptr \in Known /\ content = Normalized(ptr) /\ content \in Content
    /\ ptr = NoRaw => content = NoContent /\ status = "none"

\* Only a version that normalize rejects is kept out of the row for good.
QuarantineIsDeserved ==
    \A i \in quarantine : i \in Known /\ Normalized(i) = BadPayload

\* The row never moves to a version that was stored before its own; versions of
\* the same instant may take turns.
RowNeverGoesBack ==
    [][ptr # NoRaw => ptr' # NoRaw /\ stamp'[ptr'] >= stamp[ptr]]_vars

RowInv == RowShowsItsVersion /\ QuarantineIsDeserved

\* A stored version is never changed.
LEMMA VersionsStay ==
    ASSUME TypeInv, Next, NEW i \in Known
    PROVE  i \in Known' /\ raw'[i] = raw[i] /\ stamp'[i] = stamp[i]
<1>1. CASE UNCHANGED rawVars
  BY <1>1 DEF rawVars, Known
<1>2. CASE TimePasses
  BY <1>2 DEF TimePasses, Known
<1>3. ASSUME NEW p \in Payload, StoreRaw(p)
      PROVE  i \in Known' /\ raw'[i] = raw[i] /\ stamp'[i] = stamp[i]
  BY <1>3 DEF StoreRaw, Known, TypeInv, TypeOK
<1>4. QED
  BY <1>1, <1>2, <1>3
     DEF Next, SoftDelete, IngesterStep, PublishCreated, IngestEvent, SweeperStep,
         FindUnreflectedRaws, ReIngest, AnnounceReIngested, FindStaleNewReviews,
         RepublishCreated, AnalystStep, ReadReview, CheckCurrent, MarkAnalyzed,
         CommitAnalysis, DiscardAnalysis, StaleAnalysis, PublishAnalyzed, AgeRow, Failure,
         RawEventLost, RawEventAgain, CreatedEventLost, CreatedEventAgain,
         PublishCreatedFails, SweepFails, AnalyzeFails

\* Only ingestion moves the row; the analyzer flips the status of a new one.
LEMMA OnlyIngestMovesRow ==
    ASSUME TypeInv, Next
    PROVE  \/ \E i \in Known : Ingest(i) /\ UNCHANGED rawVars
           \/ UNCHANGED <<ptr, content, quarantine>> /\ (status' = status \/ status = "new")
<1>1. ASSUME NEW w \in Ingester, NEW i \in RawId, IngestEvent(w, i)
      PROVE  i \in Known /\ Ingest(i) /\ UNCHANGED rawVars
  BY <1>1 DEF IngestEvent, TypeInv, NamesKnown
<1>2. ASSUME NEW k \in Sweeper, ReIngest(k)
      PROVE  sweep[k].raw \in Known /\ Ingest(sweep[k].raw) /\ UNCHANGED rawVars
  BY <1>2 DEF ReIngest, TypeInv, NamesKnown
<1>3. QED
  BY <1>1, <1>2
     DEF Next, StoreRaw, SoftDelete, IngesterStep, PublishCreated, SweeperStep,
         FindUnreflectedRaws, AnnounceReIngested, FindStaleNewReviews,
         RepublishCreated, AnalystStep, ReadReview, CheckCurrent, MarkAnalyzed,
         CommitAnalysis, DiscardAnalysis, StaleAnalysis, PublishAnalyzed, TimePasses, AgeRow,
         Failure, RawEventLost, RawEventAgain, CreatedEventLost, CreatedEventAgain,
         PublishCreatedFails, SweepFails, AnalyzeFails, rowVars, RowUntouched

LEMMA IngestRow ==
    ASSUME TypeInv, RowInv, NEW i \in Known, Ingest(i), UNCHANGED rawVars
    PROVE  /\ RowInv'
           /\ ptr # NoRaw => ptr' # NoRaw /\ stamp'[ptr'] >= stamp[ptr]
<1>1. i \in RawId /\ raw[i] \in Payload /\ i # NoRaw /\ stamp[i] \in Nat
  BY DEF Known, TypeInv, TypeOK, RawId, NoRaw
<1>2. Known' = Known /\ raw' = raw /\ stamp' = stamp
  BY DEF rawVars, Known
<1>3. ptr # NoRaw => ptr \in Known /\ stamp[ptr] \in Nat
  BY DEF RowInv, RowShowsItsVersion, Known, TypeInv, TypeOK, RawId
<1>4. CASE Outcome(i) \in {"applied", "pointer_only"}
  <2>1. ptr' = i /\ content' = Normalized(i) /\ quarantine' = quarantine
    BY <1>4 DEF Ingest
  <2>2. Normalized(i) # BadPayload /\ Normalized(i) \in Content
    BY <1>1, <1>4 DEF Outcome, Normalized
  <2>3. ptr # NoRaw => stamp[i] >= stamp[ptr]
    BY <1>1, <1>3, <1>4 DEF Outcome
  <2>4. QED
    BY <1>1, <1>2, <2>1, <2>2, <2>3
       DEF RowInv, RowShowsItsVersion, QuarantineIsDeserved, Normalized
<1>5. CASE Outcome(i) \notin {"applied", "pointer_only"}
  <2>1. UNCHANGED <<ptr, content, status>>
    BY <1>5 DEF Ingest, RowUntouched, rowVars
  <2>2. quarantine' = quarantine \/ (quarantine' = quarantine \cup {i}
                                       /\ Normalized(i) = BadPayload)
    BY DEF Ingest, Outcome
  <2>3. QED
    BY <1>2, <1>3, <2>1, <2>2
       DEF RowInv, RowShowsItsVersion, QuarantineIsDeserved, Normalized
<1>6. QED
  BY <1>4, <1>5

LEMMA RowNext ==
    ASSUME TypeInv, RowInv, [Next]_vars
    PROVE  /\ RowInv'
           /\ [ptr # NoRaw => ptr' # NoRaw /\ stamp'[ptr'] >= stamp[ptr]]_vars
<1>1. CASE UNCHANGED vars
  BY <1>1 DEF vars, rawVars, rowVars, RowInv, RowShowsItsVersion, QuarantineIsDeserved,
              Known, Normalized
<1>2. CASE Next
  <2>1. CASE \E i \in Known : Ingest(i) /\ UNCHANGED rawVars
    BY <2>1, IngestRow
  <2>2. CASE UNCHANGED <<ptr, content, quarantine>> /\ (status' = status \/ status = "new")
    <3>1. RowShowsItsVersion'
      BY <1>2, <2>2, VersionsStay DEF RowInv, RowShowsItsVersion, Normalized
    <3>2. QuarantineIsDeserved'
      BY <1>2, <2>2, VersionsStay DEF RowInv, QuarantineIsDeserved, Normalized
    <3>3. ASSUME ptr # NoRaw
          PROVE  ptr' = ptr /\ stamp'[ptr] = stamp[ptr] /\ stamp[ptr] \in Nat
      <4>1. ptr \in Known
        BY <3>3 DEF RowInv, RowShowsItsVersion
      <4>2. stamp'[ptr] = stamp[ptr]
        BY <1>2, <4>1, VersionsStay
      <4>3. stamp[ptr] \in Nat
        BY <4>1 DEF Known, TypeInv, TypeOK, RawId
      <4>4. QED
        BY <2>2, <4>2, <4>3
    <3>4. QED
      BY <3>1, <3>2, <3>3 DEF RowInv
  <2>3. QED
    BY <1>2, <2>1, <2>2, OnlyIngestMovesRow
<1>3. QED
  BY <1>1, <1>2

\* Whichever order the events arrive in, and whoever else ingests, the row
\* shows the version it names, that version is one of the stored ones, and it
\* only ever gives way to one that is as new; what is quarantined deserves it,
\* so the sweep never passes over a version that could have been shown.
THEOREM RowFollowsItsVersion ==
    Spec => []RowShowsItsVersion /\ []QuarantineIsDeserved /\ RowNeverGoesBack
<1>1. Init => TypeInv /\ RowInv
  BY InitType DEF Init, RowInv, RowShowsItsVersion, QuarantineIsDeserved
<1>2. TypeInv /\ RowInv /\ [Next]_vars => (TypeInv /\ RowInv)'
  BY NextType, RowNext
<1>3. /\ TypeInv /\ RowInv /\ [Next]_vars
      => [ptr # NoRaw => ptr' # NoRaw /\ stamp'[ptr'] >= stamp[ptr]]_vars
  BY RowNext
<1>4. RowInv => RowShowsItsVersion /\ QuarantineIsDeserved
  BY DEF RowInv
<1>5. QED
  BY <1>1, <1>2, <1>3, <1>4, PTL DEF Spec, RowNeverGoesBack

-------------------------------------------------------------------------------
(* What mis-marks a review *)

\* Nobody changes the row's content or the current analysis between an
\* analyst's read of the row and the status = 'new' UPDATE of mark_analyzed.
Undisturbed ==
    (\E a \in Analyst : task[a] \in {"check", "mark"}) => UNCHANGED <<content, current>>

\* What the analyst found out is still so when it acts on it.
ReadIsCurrent ==
    \A a \in Analyst :
        /\ task[a] = "check" => snap[a] = content
        /\ task[a] = "mark" => current = content

MarkInv == ReadIsCurrent /\ ~mismarked

\* How an analyst gets to its check and to its mark.
LEMMA AnalystGetsTo ==
    ASSUME TypeInv, Next, NEW a \in Analyst
    PROVE  /\ task'[a] = "check" =>
                \/ task[a] = "check" /\ snap'[a] = snap[a]
                \/ snap'[a] = content /\ content' = content
           /\ task'[a] = "mark" =>
                \/ task[a] = "mark"
                \/ task[a] = "check" /\ current = snap[a]
<1>1. CASE UNCHANGED taskVars
  BY <1>1 DEF taskVars
<1>2. ASSUME NEW b \in Analyst, AnalystStep(b) \/ AnalyzeFails(b)
      PROVE  /\ task'[a] = "check" =>
                  \/ task[a] = "check" /\ snap'[a] = snap[a]
                  \/ snap'[a] = content /\ content' = content
             /\ task'[a] = "mark" =>
                  \/ task[a] = "mark"
                  \/ task[a] = "check" /\ current = snap[a]
  <2>1. CASE ReadReview(b)
    BY <2>1 DEF ReadReview, Goto, taskVars, rowVars, TypeInv, TypeOK
  <2>2. CASE CheckCurrent(b)
    BY <2>2 DEF CheckCurrent, Finish, Goto, TypeInv, TypeOK
  <2>3. CASE ~ReadReview(b) /\ ~CheckCurrent(b)
    BY <1>2, <2>3 DEF AnalystStep, MarkAnalyzed, CommitAnalysis, DiscardAnalysis,
       StaleAnalysis, PublishAnalyzed, AnalyzeFails, Finish, Goto, TypeInv, TypeOK
  <2>4. QED
    BY <2>1, <2>2, <2>3
<1>3. QED
  BY <1>1, <1>2
     DEF Next, StoreRaw, SoftDelete, IngesterStep, PublishCreated, IngestEvent, SweeperStep,
         FindUnreflectedRaws, ReIngest, AnnounceReIngested, FindStaleNewReviews,
         RepublishCreated, TimePasses, AgeRow, Failure, RawEventLost, RawEventAgain,
         CreatedEventLost, CreatedEventAgain, PublishCreatedFails, SweepFails

\* Only mark_analyzed mis-marks, and only over an analysis of something else.
LEMMA OnlyMarkMismarks ==
    ASSUME TypeInv, Next, mismarked', ~mismarked
    PROVE  \E a \in Analyst : task[a] = "mark" /\ content # current
<1>1. \A i \in RawId : ~Ingest(i)
  BY DEF Ingest, RowUntouched, rowVars
<1>2. \A k \in Sweeper : ~ReIngest(k)
  BY <1>1 DEF ReIngest, TypeInv, NamesKnown, Known
<1>3. QED
  BY <1>1, <1>2
     DEF Next, StoreRaw, SoftDelete, IngesterStep, PublishCreated, IngestEvent, SweeperStep,
         FindUnreflectedRaws, AnnounceReIngested, FindStaleNewReviews, RepublishCreated,
         AnalystStep, ReadReview, CheckCurrent, MarkAnalyzed, CommitAnalysis,
         DiscardAnalysis, StaleAnalysis, PublishAnalyzed, TimePasses, AgeRow, Failure,
         RawEventLost, RawEventAgain, CreatedEventLost, CreatedEventAgain,
         PublishCreatedFails, SweepFails, AnalyzeFails, RowUntouched, rowVars

LEMMA MarkNext ==
    ASSUME TypeInv, MarkInv, [Next /\ Undisturbed]_vars
    PROVE  MarkInv'
<1>1. CASE UNCHANGED vars
  BY <1>1 DEF vars, rowVars, taskVars, MarkInv, ReadIsCurrent
<1>2. CASE Next /\ Undisturbed
  <2>1. ReadIsCurrent'
    BY <1>2, AnalystGetsTo DEF MarkInv, ReadIsCurrent, Undisturbed
  <2>2. ~mismarked'
    BY <1>2, OnlyMarkMismarks DEF MarkInv, ReadIsCurrent
  <2>3. QED
    BY <2>1, <2>2 DEF MarkInv
<1>3. QED
  BY <1>1, <1>2

\* The promise of analyze_one's comment, which ReviewMismark refutes, is broken
\* in one way only: the row's content or its current analysis changes while an
\* analyst is between its read and its mark.
THEOREM MismarkNeedsRace ==
    Spec /\ [][Undisturbed]_vars => FlipMeansAnalyzed /\ []~mismarked
<1>1. Init => AnalysisInv /\ MarkInv
  BY InitType
     DEF Init, MarkInv, ReadIsCurrent, AnalysisInv, FenceHolds, AnalyzedMatchesContent
<1>2. AnalysisInv /\ [Next]_vars => AnalysisInv'
  BY NextFence
<1>3. AnalysisInv /\ MarkInv /\ [Next /\ Undisturbed]_vars => MarkInv'
  BY MarkNext DEF AnalysisInv
<1>4. (AnalysisInv /\ MarkInv)' => [status = "new" /\ status' = "analyzed"
                                      => current' = content']_vars
  BY DEF AnalysisInv, MarkInv, AnalyzedMatchesContent
<1>5. MarkInv => ~mismarked
  BY DEF MarkInv
<1>6. QED
  BY <1>1, <1>2, <1>3, <1>4, <1>5, PTL DEF Spec, FlipMeansAnalyzed
===============================================================================

---------------------------- MODULE CrawlJobsProofs ----------------------------
(***************************************************************************)
(* Theorems about CrawlJobs, for any number of jobs, workers, schedulers,  *)
(* reviews, pages, deliveries and faults.                                  *)
(***************************************************************************)
EXTENDS CrawlJobs, TLAPS

USE CrawlAssumption

-------------------------------------------------------------------------------
(* Type correctness *)

SPlaces == {"standby", "ping", "reap", "open", "plan", "create", "publish"}

Places == Crawling \cup {"idle", "claim", "ack", "nak"}

\* A busy worker handles a delivery of some job.
LEMMA BusyHasTarget ==
    ASSUME TypeOK, NEW w \in Worker, pc[w] # "idle"
    PROVE  /\ job[w] \in Delivery
           /\ Target(w) \in Job
           /\ job[w].attempt \in 1..MaxDeliver
<1>1. job[w] \in Delivery
  BY DEF TypeOK
<1>2. QED
  BY <1>1 DEF Delivery, Target

LEMMA CrawlType ==
    ASSUME TypeOK, NEW w \in Worker
    PROVE  /\ crawl[w] \in Crawl
           /\ crawl[w].since \in Time
           /\ crawl[w].newest \in Time
           /\ crawl[w].edge \in 0..(MaxTime + 1)
           /\ crawl[w].page \in 0..MaxPages
           /\ crawl[w].got \in [Review -> Time]
BY DEF TypeOK, Crawl

LEMMA NoCrawlType == NoCrawl \in Crawl
BY DEF NoCrawl, Crawl, Time

LEMMA FreeSlotType == FreeSlot \in Slot
BY DEF Slot

\* A held delivery that is released leaves every slot well formed.
LEMMA RequeueType ==
    ASSUME TypeOK, NEW j \in Job, queue[j].st = "held"
    PROVE  Requeue(j) \in [Job -> Slot]
<1>1. queue \in [Job -> Slot]
  BY DEF TypeOK
<1>2. queue[j].n \in 1..MaxDeliver
  BY <1>1 DEF Slot, FreeSlot
<1>3. queue[j].n < MaxDeliver => [st |-> "ready", n |-> queue[j].n] \in Slot
  BY <1>2 DEF Slot
<1>4. QED
  BY <1>1, <1>3, FreeSlotType DEF Requeue

LEMMA FaultType ==
    ASSUME TypeOK, Fault
    PROVE  faults' \in 0..FaultBudget
BY DEF TypeOK, Fault

LEMMA LaterType ==
    ASSUME NEW a \in Time, NEW b \in Time
    PROVE  /\ Later(a, b) \in Time
           /\ a <= Later(a, b) /\ b <= Later(a, b)
           /\ Later(a, b) = a \/ Later(a, b) = b
BY DEF Later, Time

LEMMA InitType == Init => TypeOK
<1> SUFFICES ASSUME Init PROVE TypeOK
  OBVIOUS
<1>1. /\ clock \in Time /\ edited \in [Review -> Time] /\ cursor \in [Job -> Time]
      /\ stored \in [Review -> Time] /\ peak \in [Review -> Time]
      /\ plan \in [Scheduler -> Time]
  BY DEF Init, Time
<1>2. /\ status \in [Job -> Status] /\ aged \in [Job -> BOOLEAN]
      /\ later \in [Job -> SUBSET Job] /\ queue \in [Job -> Slot]
  BY FreeSlotType DEF Init, Status
<1>3. /\ spc \in [Scheduler -> SPlaces] /\ made \in [Scheduler -> Job \cup {"none"}]
      /\ \A s \in Scheduler : made[s] # "none" <=> spc[s] = "publish"
      /\ lock \in Scheduler \cup {"none"}
  BY DEF Init, SPlaces
<1>4. /\ pc \in [Worker -> Places] /\ job \in [Worker -> Delivery \cup {NoJob}]
      /\ \A w \in Worker : job[w] = NoJob <=> pc[w] = "idle"
      /\ crawl \in [Worker -> Crawl]
  BY NoCrawlType DEF Init, Places
<1>5. /\ due \in BOOLEAN /\ announced \in SUBSET Review /\ passed \in SUBSET Review
      /\ stacked \in BOOLEAN /\ split \in BOOLEAN
  BY Zenon DEF Init
<1>6. faults \in 0..FaultBudget
  BY DEF Init
<1>7. QED
  BY <1>1, <1>2, <1>3, <1>4, <1>5, <1>6 DEF TypeOK, SPlaces, Places

\* The last cursor of a succeeded job is a cursor of some job, or none.
LEMMA LastCursorType ==
    ASSUME TypeOK
    PROVE  \/ LastSucceededCursor = 0
           \/ \E j \in Job : LastSucceededCursor = cursor[j]
<1> DEFINE last == {j \in Succeeded : Succeeded \cap later[j] = {}}
<1>1. CASE last = {}
  BY <1>1 DEF LastSucceededCursor
<1>2. CASE last # {}
  <2>1. (CHOOSE j \in last : TRUE) \in last
    BY <1>2
  <2>2. last \subseteq Job
    BY DEF Succeeded
  <2>3. LastSucceededCursor = cursor[CHOOSE j \in last : TRUE]
    BY <1>2 DEF LastSucceededCursor
  <2>4. QED
    BY <2>1, <2>2, <2>3
<1>3. QED
  BY <1>1, <1>2

LEMMA SchedulerType ==
    ASSUME TypeOK, NEW s \in Scheduler, SchedulerStep(s) \/ SchedulerFault(s)
    PROVE  TypeOK'
<1> USE DEF platform, rows, raws, workVars, SGoto
<1>1. CASE AcquireLeaderLock(s)
  BY <1>1 DEF AcquireLeaderLock, TypeOK
<1>2. CASE Ping(s)
  BY <1>2 DEF Ping, TypeOK
<1>3. CASE ReapStaleJobs(s)
  <2>1. status' \in [Job -> Status] /\ aged' \in [Job -> BOOLEAN]
    BY <1>3 DEF ReapStaleJobs, TypeOK, Status
  <2>2. QED
    BY <1>3, <2>1 DEF ReapStaleJobs, TypeOK
<1>4. CASE LookForOpenJob(s)
  BY <1>4 DEF LookForOpenJob, TypeOK
<1>5. CASE PlanJob(s)
  <2>1. LastSucceededCursor \in Time
    BY LastCursorType DEF TypeOK, Time
  <2>2. QED
    BY <1>5, <2>1 DEF PlanJob, TypeOK
<1>6. ASSUME NEW j \in Job, CreateJob(s, j) PROVE TypeOK'
  <2>1. /\ status' \in [Job -> Status] /\ cursor' \in [Job -> Time]
        /\ aged' \in [Job -> BOOLEAN] /\ later' \in [Job -> SUBSET Job]
    BY <1>6 DEF CreateJob, TypeOK, Status
  <2>2. 0 \in Time
    BY DEF Time
  <2>3. /\ made' \in [Scheduler -> Job \cup {"none"}]
        /\ spc' \in [Scheduler -> SPlaces]
        /\ \A t \in Scheduler : made'[t] # "none" <=> spc'[t] = "publish"
    BY <1>6 DEF CreateJob, TypeOK, SPlaces
  <2>4. QED
    BY <1>6, <2>1, <2>2, <2>3 DEF CreateJob, TypeOK, SPlaces
<1>7. CASE NoRowLeft(s)
  <2>1. 0 \in Time
    BY DEF Time
  <2>2. QED
    BY <1>7, <2>1 DEF NoRowLeft, TypeOK
<1>8. CASE PublishCrawlJob(s)
  <2>1. made[s] \in Job /\ [st |-> "ready", n |-> 0] \in Slot
    BY <1>8 DEF PublishCrawlJob, TypeOK, Slot
  <2>2. QED
    BY <1>8, <2>1 DEF PublishCrawlJob, TypeOK
<1>9. CASE CrashScheduler(s) \/ TickFails(s)
  <2>1. 0 \in Time
    BY DEF Time
  <2>2. /\ made' \in [Scheduler -> Job \cup {"none"}]
        /\ spc' \in [Scheduler -> SPlaces]
        /\ \A t \in Scheduler : made'[t] # "none" <=> spc'[t] = "publish"
    BY <1>9 DEF CrashScheduler, TickFails, TypeOK, SPlaces
  <2>3. QED
    BY <1>9, <2>1, <2>2, FaultType DEF CrashScheduler, TickFails, TypeOK, SPlaces
<1>10. QED
  BY <1>1, <1>2, <1>3, <1>4, <1>5, <1>6, <1>7, <1>8, <1>9
     DEF SchedulerStep, SchedulerFault

LEMMA AnswerType ==
    ASSUME TypeOK, NEW w \in Worker, NEW q \in [Job -> Slot], Answer(w, q)
    PROVE  TypeOK'
<1>1. queue' \in [Job -> Slot]
  BY DEF Answer, TypeOK
<1>2. /\ pc' \in [Worker -> Places]
      /\ job' \in [Worker -> Delivery \cup {NoJob}]
      /\ \A v \in Worker : job'[v] = NoJob <=> pc'[v] = "idle"
  BY DEF Answer, Leave, Goto, TypeOK, Places
<1>3. crawl' \in [Worker -> Crawl]
  BY NoCrawlType DEF Answer, Leave, TypeOK
<1>4. QED
  BY <1>1, <1>2, <1>3 DEF Answer, TypeOK, Places, platform, rows, raws, schedVars

LEMMA QueueType ==
    ASSUME TypeOK, NEW w \in Worker,
           (\E j \in Job : Receive(w, j)) \/ Ack(w) \/ Nak(w)
    PROVE  TypeOK'
<1> USE DEF platform, rows, raws, schedVars
<1>1. ASSUME NEW j \in Job, Receive(w, j) PROVE TypeOK'
  <2>1. queue[j].n \in 0..(MaxDeliver - 1)
    BY <1>1 DEF Receive, TypeOK, Slot, FreeSlot
  <2>2. [st |-> "held", n |-> queue[j].n + 1] \in Slot
    BY <2>1 DEF Slot
  <2>3. [id |-> j, attempt |-> queue[j].n + 1] \in Delivery
    BY <2>1 DEF Delivery
  <2>4. [id |-> j, attempt |-> queue[j].n + 1] # NoJob
    BY DEF NoJob
  <2>5. queue' \in [Job -> Slot]
    BY <1>1, <2>2 DEF Receive, TypeOK
  <2>6. /\ pc' \in [Worker -> Places]
        /\ job' \in [Worker -> Delivery \cup {NoJob}]
        /\ \A v \in Worker : job'[v] = NoJob <=> pc'[v] = "idle"
    BY <1>1, <2>3, <2>4 DEF Receive, Goto, TypeOK, Places
  <2>7. crawl' \in [Worker -> Crawl]
    BY <1>1, CrawlType, ZenonT(40) DEF Receive, TypeOK, Crawl
  <2>8. QED
    BY <1>1, <2>5, <2>6, <2>7 DEF Receive, TypeOK, Places
<1>2. CASE Ack(w)
  <2>1. [queue EXCEPT ![Target(w)] = FreeSlot] \in [Job -> Slot]
    BY FreeSlotType DEF TypeOK
  <2>2. QED
    BY <1>2, <2>1, AnswerType DEF Ack
<1>3. CASE Nak(w)
  <2>1. Target(w) \in Job
    BY <1>3, BusyHasTarget DEF Nak
  <2>2. queue \in [Job -> Slot]
    BY DEF TypeOK
  <2>3. CASE queue[Target(w)].st = "held"
    BY <1>3, <2>1, <2>3, RequeueType, AnswerType DEF Nak
  <2>4. CASE queue[Target(w)].st # "held"
    BY <1>3, <2>2, <2>4, AnswerType DEF Nak
  <2>5. QED
    BY <2>3, <2>4
<1>4. QED
  BY <1>1, <1>2, <1>3

\* What FinishJob does to the row and to what the worker has fetched.
LEMMA FinishType ==
    ASSUME TypeOK, NEW w \in Worker, Target(w) \in Job,
           NEW st \in Status, NEW c \in Time, FinishJob(w, st, c)
    PROVE  /\ status' \in [Job -> Status]
           /\ cursor' \in [Job -> Time]
           /\ later' \in [Job -> SUBSET Job]
           /\ crawl' \in [Worker -> Crawl]
BY NoCrawlType DEF FinishJob, TypeOK

\* A worker that goes on with its delivery.
LEMMA GotoType ==
    ASSUME TypeOK, NEW w \in Worker, pc[w] # "idle", UNCHANGED job,
           NEW l \in Places \ {"idle"}, Goto(w, l)
    PROVE  /\ pc' \in [Worker -> Places]
           /\ job' \in [Worker -> Delivery \cup {NoJob}]
           /\ \A v \in Worker : job'[v] = NoJob <=> pc'[v] = "idle"
BY DEF Goto, TypeOK, Places

LEMMA LeaveType ==
    ASSUME TypeOK, NEW w \in Worker, Leave(w)
    PROVE  /\ pc' \in [Worker -> Places]
           /\ job' \in [Worker -> Delivery \cup {NoJob}]
           /\ \A v \in Worker : job'[v] = NoJob <=> pc'[v] = "idle"
           /\ crawl' \in [Worker -> Crawl]
BY NoCrawlType DEF Leave, Goto, TypeOK, Places

LEMMA FinishStepType ==
    ASSUME TypeOK, NEW w \in Worker,
           FinishSucceeded(w) \/ FinishFailed(w) \/ GiveUp(w)
    PROVE  TypeOK'
<1>1. pc[w] # "idle" /\ UNCHANGED job
  BY DEF FinishSucceeded, FinishFailed, GiveUp
<1>2. Target(w) \in Job
  BY <1>1, BusyHasTarget
<1>3. \E l \in {"ack", "nak"} : Goto(w, l)
  BY DEF FinishSucceeded, FinishFailed, GiveUp
<1>4. \E st \in Status, c \in Time : FinishJob(w, st, c)
  BY CrawlType DEF FinishSucceeded, FinishFailed, GiveUp, Status
<1>5. /\ pc' \in [Worker -> Places]
      /\ job' \in [Worker -> Delivery \cup {NoJob}]
      /\ \A v \in Worker : job'[v] = NoJob <=> pc'[v] = "idle"
  BY <1>1, <1>3, GotoType DEF Places
<1>6. /\ status' \in [Job -> Status] /\ cursor' \in [Job -> Time]
      /\ later' \in [Job -> SUBSET Job] /\ crawl' \in [Worker -> Crawl]
  BY <1>2, <1>4, FinishType
<1>7. UNCHANGED <<platform, aged, due, raws, queue, schedVars, stacked, faults>>
  BY DEF FinishSucceeded, FinishFailed, GiveUp
<1>8. QED
  BY <1>5, <1>6, <1>7 DEF TypeOK, Places, platform, raws, schedVars

LEMMA ClaimType ==
    ASSUME TypeOK, NEW w \in Worker, ClaimJob(w)
    PROVE  TypeOK'
<1>1. pc[w] # "idle" /\ UNCHANGED job
  BY DEF ClaimJob
<1>2. \E l \in {"fetch", "ack"} : Goto(w, l)
  BY DEF ClaimJob
<1>3. /\ pc' \in [Worker -> Places]
      /\ job' \in [Worker -> Delivery \cup {NoJob}]
      /\ \A v \in Worker : job'[v] = NoJob <=> pc'[v] = "idle"
  BY <1>1, <1>2, GotoType DEF Places, Crawling
<1>4. status' \in [Job -> Status] /\ aged' \in [Job -> BOOLEAN]
  BY DEF ClaimJob, TypeOK, Status
<1>5. crawl' \in [Worker -> Crawl]
  <2>1. MaxTime + 1 \in 0..(MaxTime + 1)
    OBVIOUS
  <2>2. [crawl EXCEPT ![w].newest = crawl[w].since] \in [Worker -> Crawl]
    BY CrawlType, ZenonT(40) DEF TypeOK, Crawl
  <2>3. [crawl EXCEPT ![w].newest = crawl[w].since, ![w].edge = MaxTime + 1]
           \in [Worker -> Crawl]
    BY <2>1, <2>2 DEF Crawl
  <2>4. QED
    BY <2>3 DEF ClaimJob, TypeOK
<1>6. stacked' \in BOOLEAN
  BY DEF ClaimJob, TypeOK
<1>7. QED
  BY <1>3, <1>4, <1>5, <1>6 DEF ClaimJob, TypeOK, Places, platform, raws, schedVars

LEMMA FetchType ==
    ASSUME TypeOK, NEW w \in Worker, FetchPage(w)
    PROVE  TypeOK'
<1>1. PICK top \in Unread(w), last \in Unread(w) :
         crawl' = [crawl EXCEPT
                ![w].newest = Later(@, edited[top]),
                ![w].edge = edited[last],
                ![w].page = @ + 1,
                ![w].got = [r \in Review |->
                              IF r \in Unread(w) /\ edited[last] <= edited[r]
                              THEN edited[r] ELSE @[r]]]
  BY DEF FetchPage
<1> DEFINE got == [r \in Review |-> IF r \in Unread(w) /\ edited[last] <= edited[r]
                                   THEN edited[r] ELSE crawl[w].got[r]]
           next == [since |-> crawl[w].since,
                    newest |-> Later(crawl[w].newest, edited[top]),
                    edge |-> edited[last],
                    page |-> crawl[w].page + 1,
                    got |-> got]
<1>2. edited \in [Review -> Time] /\ edited[top] \in Time /\ edited[last] \in Time
  BY DEF Unread, TypeOK
<1>3. got \in [Review -> Time]
  BY <1>2, CrawlType
<1>4. Later(crawl[w].newest, edited[top]) \in Time
  BY <1>2, CrawlType, LaterType
<1>5. crawl[w].page + 1 \in 0..MaxPages
  BY CrawlType DEF FetchPage
<1>6. edited[last] \in 0..(MaxTime + 1)
  BY <1>2 DEF Time
<1>7. next \in Crawl
  BY <1>3, <1>4, <1>5, <1>6, CrawlType DEF Crawl
<1>8. crawl' = [crawl EXCEPT ![w] = next]
  BY <1>1, CrawlType DEF TypeOK, Crawl
<1>9. crawl' \in [Worker -> Crawl]
  BY <1>7, <1>8 DEF TypeOK
<1>10. QED
  BY <1>9 DEF FetchPage, TypeOK, platform, rows, raws, schedVars

LEMMA StoreType ==
    ASSUME TypeOK, NEW w \in Worker,
           FetchDone(w) \/ InsertRawReviews(w) \/ PublishReviewRaw(w)
    PROVE  TypeOK'
<1> USE DEF platform, rows, schedVars
<1>1. CASE FetchDone(w)
  <2>1. /\ pc' \in [Worker -> Places]
        /\ job' \in [Worker -> Delivery \cup {NoJob}]
        /\ \A v \in Worker : job'[v] = NoJob <=> pc'[v] = "idle"
    BY <1>1, GotoType DEF FetchDone, Places, Crawling
  <2>2. passed' \in SUBSET Review
    BY <1>1 DEF FetchDone, Unread, TypeOK
  <2>3. QED
    BY <1>1, <2>1, <2>2 DEF FetchDone, TypeOK, Places
<1>2. CASE InsertRawReviews(w)
  <2>1. /\ pc' \in [Worker -> Places]
        /\ job' \in [Worker -> Delivery \cup {NoJob}]
        /\ \A v \in Worker : job'[v] = NoJob <=> pc'[v] = "idle"
    BY <1>2, GotoType DEF InsertRawReviews, Places, Crawling
  <2>2. stored' \in [Review -> Time] /\ peak' \in [Review -> Time]
    BY <1>2, CrawlType, LaterType DEF InsertRawReviews, TypeOK
  <2>3. QED
    BY <1>2, <2>1, <2>2 DEF InsertRawReviews, TypeOK, Places
<1>3. CASE PublishReviewRaw(w)
  <2>1. PICK r \in Review : /\ announced' = announced \cup {q \in {r} : crawl[w].got[q] = edited[q]}
                            /\ crawl' = [crawl EXCEPT ![w].got[r] = 0]
    BY <1>3 DEF PublishReviewRaw
  <2>2. announced' \in SUBSET Review
    BY <2>1 DEF TypeOK
  <2>3. [crawl[w].got EXCEPT ![r] = 0] \in [Review -> Time]
    BY CrawlType DEF Time
  <2>4. [crawl[w] EXCEPT !.got = [crawl[w].got EXCEPT ![r] = 0]] \in Crawl
    BY <2>3, CrawlType DEF Crawl
  <2>5. crawl' \in [Worker -> Crawl]
    BY <2>1, <2>4 DEF TypeOK
  <2>6. QED
    BY <1>3, <2>2, <2>5 DEF PublishReviewRaw, TypeOK
<1>4. QED
  BY <1>1, <1>2, <1>3

LEMMA WorkerFaultType ==
    ASSUME TypeOK, NEW w \in Worker, WorkerFault(w)
    PROVE  TypeOK'
<1> USE DEF platform, rows, raws, schedVars
<1>1. CASE CallFails(w) \/ UnknownAdapter(w)
  <2>1. /\ pc[w] # "idle" /\ UNCHANGED job
        /\ \E l \in {"nak", "ack", "fail", "giveUp"} : Goto(w, l)
    BY <1>1 DEF CallFails, UnknownAdapter
  <2>2. /\ pc' \in [Worker -> Places]
        /\ job' \in [Worker -> Delivery \cup {NoJob}]
        /\ \A v \in Worker : job'[v] = NoJob <=> pc'[v] = "idle"
    BY <2>1, GotoType DEF Places, Crawling
  <2>3. faults' \in 0..FaultBudget
    BY <1>1, FaultType DEF CallFails, UnknownAdapter
  <2>4. UNCHANGED <<platform, rows, due, raws, queue, schedVars, crawl, stacked>>
    BY <1>1 DEF CallFails, UnknownAdapter
  <2>5. QED
    BY <2>2, <2>3, <2>4 DEF TypeOK, Places
<1>2. CASE CrashWorker(w)
  BY <1>2, LeaveType, FaultType DEF CrashWorker, TypeOK, Places
<1>3. QED
  BY <1>1, <1>2 DEF WorkerFault

LEMMA EnvironmentType ==
    ASSUME TypeOK,
           \/ \E r \in Review : EditReview(r)
           \/ CronDue
           \/ \E j \in Job : Age(j) \/ AckTimeout(j)
           \/ LoseLock
    PROVE  TypeOK'
<1> USE DEF rows, raws, schedVars, workVars
<1>1. ASSUME NEW r \in Review, EditReview(r) PROVE TypeOK'
  <2>1. clock + 1 \in Time
    BY <1>1 DEF EditReview, TypeOK, Time
  <2>2. QED
    BY <1>1, <2>1 DEF EditReview, TypeOK
<1>2. CASE CronDue
  BY <1>2 DEF CronDue, TypeOK, platform
<1>3. ASSUME NEW j \in Job, Age(j) PROVE TypeOK'
  <2>1. aged' \in [Job -> BOOLEAN]
    BY <1>3 DEF Age, TypeOK
  <2>2. QED
    BY <1>3, <2>1 DEF Age, TypeOK, platform
<1>4. ASSUME NEW j \in Job, AckTimeout(j) PROVE TypeOK'
  BY <1>4, RequeueType DEF AckTimeout, TypeOK, platform
<1>5. CASE LoseLock
  BY <1>5, FaultType DEF LoseLock, TypeOK, platform
<1>6. QED
  BY <1>1, <1>2, <1>3, <1>4, <1>5

LEMMA NextType == TypeOK /\ [Next]_vars => TypeOK'
<1> SUFFICES ASSUME TypeOK, [Next]_vars PROVE TypeOK'
  OBVIOUS
<1>1. ASSUME NEW w \in Worker, WorkerStep(w) PROVE TypeOK'
  BY <1>1, QueueType, ClaimType, FetchType, StoreType, FinishStepType DEF WorkerStep
<1>2. CASE UNCHANGED vars
  BY <1>2 DEF vars, platform, rows, raws, schedVars, workVars, TypeOK
<1>3. QED
  BY <1>1, <1>2, EnvironmentType, SchedulerType, WorkerFaultType DEF Next

\* Type correctness, for any number of schedulers, workers and rows.
THEOREM TypeCorrect == Spec => []TypeOK
BY InitType, NextType, PTL DEF Spec

-------------------------------------------------------------------------------
(* What the actions do to what a worker has fetched *)

LEMMA FetchEffect ==
    ASSUME TypeOK, NEW w \in Worker, FetchPage(w)
    PROVE  /\ \A v \in Worker \ {w} : crawl'[v] = crawl[v]
           /\ crawl'[w].since = crawl[w].since
           /\ \E top, last \in Unread(w) :
                 /\ \A r \in Unread(w) : edited[r] <= edited[top]
                 /\ crawl'[w].newest = Later(crawl[w].newest, edited[top])
                 /\ crawl'[w].edge = edited[last]
                 /\ \A r \in Review :
                       crawl'[w].got[r] = IF r \in Unread(w) /\ edited[last] <= edited[r]
                                          THEN edited[r] ELSE crawl[w].got[r]
<1>1. PICK top \in Unread(w), last \in Unread(w) :
         /\ \A r \in Unread(w) : edited[r] <= edited[top]
         /\ crawl' = [crawl EXCEPT
                ![w].newest = Later(@, edited[top]),
                ![w].edge = edited[last],
                ![w].page = @ + 1,
                ![w].got = [r \in Review |->
                              IF r \in Unread(w) /\ edited[last] <= edited[r]
                              THEN edited[r] ELSE @[r]]]
  BY DEF FetchPage
<1>2. crawl[w] \in Crawl /\ DOMAIN crawl = Worker
  BY DEF TypeOK
<1>3. /\ crawl'[w].since = crawl[w].since
      /\ crawl'[w].newest = Later(crawl[w].newest, edited[top])
      /\ crawl'[w].edge = edited[last]
      /\ crawl'[w].got = [r \in Review |->
                            IF r \in Unread(w) /\ edited[last] <= edited[r]
                            THEN edited[r] ELSE crawl[w].got[r]]
  BY <1>1, <1>2 DEF Crawl
<1>4. \A v \in Worker \ {w} : crawl'[v] = crawl[v]
  BY <1>1, <1>2
<1>5. \A r \in Review :
         crawl'[w].got[r] = IF r \in Unread(w) /\ edited[last] <= edited[r]
                            THEN edited[r] ELSE crawl[w].got[r]
  BY <1>3
<1>6. QED
  BY <1>1, <1>3, <1>4, <1>5, Zenon

LEMMA PublishEffect ==
    ASSUME TypeOK, NEW w \in Worker, PublishReviewRaw(w)
    PROVE  /\ \A v \in Worker \ {w} : crawl'[v] = crawl[v]
           /\ crawl'[w].since = crawl[w].since
           /\ crawl'[w].newest = crawl[w].newest
           /\ \E r \in Review :
                 /\ announced' = announced \cup {q \in {r} : crawl[w].got[q] = edited[q]}
                 /\ crawl'[w].got[r] = 0
                 /\ \A q \in Review \ {r} : crawl'[w].got[q] = crawl[w].got[q]
<1>1. PICK r \in Review : /\ announced' = announced \cup {q \in {r} : crawl[w].got[q] = edited[q]}
                          /\ crawl' = [crawl EXCEPT ![w].got[r] = 0]
  BY DEF PublishReviewRaw
<1>2. crawl[w] \in Crawl /\ DOMAIN crawl = Worker
  BY DEF TypeOK
<1>3. crawl[w].got \in [Review -> Time]
  BY <1>2 DEF Crawl
<1>4. /\ crawl'[w].since = crawl[w].since /\ crawl'[w].newest = crawl[w].newest
      /\ crawl'[w].got = [crawl[w].got EXCEPT ![r] = 0]
  BY <1>1, <1>2 DEF Crawl
<1>5. \A v \in Worker \ {w} : crawl'[v] = crawl[v]
  BY <1>1, <1>2
<1>6. QED
  BY <1>1, <1>3, <1>4, <1>5

LEMMA ClaimEffect ==
    ASSUME TypeOK, NEW w \in Worker, ClaimJob(w), pc'[w] = "fetch"
    PROVE  /\ \A v \in Worker \ {w} : crawl'[v] = crawl[v]
           /\ crawl'[w].since = crawl[w].since
           /\ crawl'[w].newest = crawl[w].since
           /\ crawl'[w].edge = MaxTime + 1
           /\ crawl'[w].got = crawl[w].got
<1>1. crawl[w] \in Crawl /\ DOMAIN crawl = Worker
  BY DEF TypeOK
<1>2. crawl' = [crawl EXCEPT ![w].newest = crawl[w].since, ![w].edge = MaxTime + 1]
  BY DEF ClaimJob, Goto, TypeOK
<1>3. QED
  BY <1>1, <1>2 DEF Crawl

LEMMA ReceiveEffect ==
    ASSUME TypeOK, NEW w \in Worker, NEW j \in Job, Receive(w, j)
    PROVE  /\ \A v \in Worker \ {w} : crawl'[v] = crawl[v]
           /\ crawl'[w].since = cursor[j]
           /\ crawl'[w].newest = crawl[w].newest
           /\ crawl'[w].got = crawl[w].got
<1>1. crawl[w] \in Crawl /\ DOMAIN crawl = Worker
  BY DEF TypeOK
<1>2. crawl' = [crawl EXCEPT ![w].since = cursor[j]]
  BY DEF Receive
<1>3. QED
  BY <1>1, <1>2 DEF Crawl

\* The worker forgets what it has fetched: after the result, or without one.
LEMMA ForgetEffect ==
    ASSUME TypeOK, NEW w \in Worker, crawl' = [crawl EXCEPT ![w] = NoCrawl]
    PROVE  /\ \A v \in Worker \ {w} : crawl'[v] = crawl[v]
           /\ crawl'[w].since = 0 /\ crawl'[w].newest = 0
           /\ \A r \in Review : crawl'[w].got[r] = 0
BY DEF TypeOK, NoCrawl

-------------------------------------------------------------------------------
(* Nothing is lost below a cursor *)

\* No cursor is ahead of the platform's clock.
NothingFromTheFuture ==
    /\ \A r \in Review : edited[r] <= clock
    /\ \A j \in Job : cursor[j] <= clock
    /\ \A s \in Scheduler : plan[s] <= clock
    /\ \A w \in Worker : crawl[w].since <= clock /\ crawl[w].newest <= clock

\* A review whose present version is neither announced nor cut off is ahead of
\* every cursor; a crawl that is going to pass it will store it, or read it.
Outstanding(r) == 0 < edited[r] /\ r \notin announced \cup passed

InHand(w, r) ==
    \/ crawl[w].got[r] = edited[r]
    \/ pc[w] = "fetch" /\ edited[r] < crawl[w].edge

Ahead(r) ==
    /\ \A j \in Job : cursor[j] < edited[r]
    /\ \A s \in Scheduler : plan[s] < edited[r]
    /\ \A w \in Worker : crawl[w].since < edited[r]
    /\ \A w \in Worker : /\ pc[w] \in {"fetch", "insert", "publish"}
                         /\ edited[r] <= crawl[w].newest
                         => InHand(w, r)

CoverInv ==
    /\ TypeOK
    /\ NothingFromTheFuture
    /\ \A r \in Review : Outstanding(r) => Ahead(r)

LEMMA CoverImplies == CoverInv => CursorIsCovered
<1> SUFFICES ASSUME CoverInv, NEW r \in Review, Outstanding(r)
             PROVE  /\ \A j \in Job : ~(edited[r] <= cursor[j])
                    /\ \A s \in Scheduler : ~(edited[r] <= plan[s])
  BY DEF CursorIsCovered, Covered, Outstanding
<1>1. edited[r] \in Nat /\ cursor \in [Job -> Nat] /\ plan \in [Scheduler -> Nat]
  BY DEF CoverInv, TypeOK, Time
<1>2. Ahead(r)
  BY DEF CoverInv
<1>3. QED
  BY <1>1, <1>2 DEF Ahead

LEMMA CoverInit == Init => CoverInv
<1> SUFFICES ASSUME Init PROVE CoverInv
  OBVIOUS
<1>1. NothingFromTheFuture
  BY DEF Init, NothingFromTheFuture, NoCrawl
<1>2. \A r \in Review : ~Outstanding(r)
  BY DEF Init, Outstanding
<1>3. QED
  BY <1>1, <1>2, InitType DEF CoverInv

\* The numbers the comparisons below are about.
LEMMA CoverNumbers ==
    ASSUME TypeOK
    PROVE  /\ clock \in Nat /\ edited \in [Review -> Nat] /\ cursor \in [Job -> Nat]
           /\ plan \in [Scheduler -> Nat]
           /\ \A w \in Worker : /\ crawl[w].since \in Nat /\ crawl[w].newest \in Nat
                                /\ crawl[w].edge \in Nat
                                /\ crawl[w].got \in [Review -> Nat]
BY DEF TypeOK, Crawl, Time

LEMMA FutureStep == CoverInv /\ [Next]_vars => NothingFromTheFuture'
<1> SUFFICES ASSUME CoverInv, [Next]_vars PROVE NothingFromTheFuture'
  OBVIOUS
<1>t. TypeOK /\ TypeOK' /\ NothingFromTheFuture
  BY NextType DEF CoverInv
<1>n. /\ clock \in Nat /\ edited \in [Review -> Nat] /\ cursor \in [Job -> Nat]
      /\ plan \in [Scheduler -> Nat]
      /\ \A w \in Worker : crawl[w].since \in Nat /\ crawl[w].newest \in Nat
  BY <1>t, CoverNumbers
<1> USE DEF platform, rows, raws, schedVars, workVars
<1>1. ASSUME NEW r \in Review, EditReview(r) PROVE NothingFromTheFuture'
  BY <1>1, <1>t, <1>n DEF EditReview, NothingFromTheFuture
<1>2. CASE \/ CronDue \/ LoseLock \/ \E j \in Job : Age(j) \/ AckTimeout(j)
           \/ \E s \in Scheduler : \/ AcquireLeaderLock(s) \/ Ping(s)
                                   \/ ReapStaleJobs(s) \/ LookForOpenJob(s)
                                   \/ PublishCrawlJob(s)
           \/ \E w \in Worker : \/ FetchDone(w) \/ InsertRawReviews(w)
                                \/ CallFails(w) \/ UnknownAdapter(w)
  <2>1. UNCHANGED <<clock, edited, cursor, plan, crawl>>
    BY <1>2 DEF CronDue, LoseLock, Age, AckTimeout, AcquireLeaderLock, Ping,
       ReapStaleJobs, LookForOpenJob, PublishCrawlJob, FetchDone, InsertRawReviews,
       CallFails, UnknownAdapter
  <2>2. QED
    BY <2>1, <1>t DEF NothingFromTheFuture
<1>3. ASSUME NEW s \in Scheduler,
             PlanJob(s) \/ NoRowLeft(s) \/ CrashScheduler(s) \/ TickFails(s)
      PROVE  NothingFromTheFuture'
  <2>1. UNCHANGED <<clock, edited, cursor, crawl>>
    BY <1>3 DEF PlanJob, NoRowLeft, CrashScheduler, TickFails
  <2>2. plan' = plan \/ plan' = [plan EXCEPT ![s] = 0]
           \/ plan' = [plan EXCEPT ![s] = LastSucceededCursor]
    BY <1>3 DEF PlanJob, NoRowLeft, CrashScheduler, TickFails
  <2>3. 0 <= clock /\ LastSucceededCursor <= clock
    BY <1>t, <1>n, LastCursorType DEF NothingFromTheFuture
  <2>4. \A u \in Scheduler : plan'[u] <= clock
    BY <2>2, <2>3, <1>t, <1>n DEF NothingFromTheFuture
  <2>5. QED
    BY <2>1, <2>4, <1>t DEF NothingFromTheFuture
<1>4. ASSUME NEW s \in Scheduler, NEW j \in Job, CreateJob(s, j)
      PROVE  NothingFromTheFuture'
  BY <1>4, <1>t, <1>n DEF CreateJob, NothingFromTheFuture
<1>5. ASSUME NEW w \in Worker, NEW j \in Job, Receive(w, j)
      PROVE  NothingFromTheFuture'
  <2>1. UNCHANGED <<clock, edited, cursor, plan>>
    BY <1>5 DEF Receive
  <2>2. QED
    BY <2>1, <1>5, <1>t, ReceiveEffect DEF NothingFromTheFuture
<1>6. ASSUME NEW w \in Worker, Ack(w) \/ Nak(w) \/ CrashWorker(w)
      PROVE  NothingFromTheFuture'
  <2>1. UNCHANGED <<clock, edited, cursor, plan>>
    BY <1>6 DEF Ack, Nak, CrashWorker, Answer
  <2>2. crawl' = [crawl EXCEPT ![w] = NoCrawl]
    BY <1>6 DEF Ack, Nak, CrashWorker, Answer, Leave
  <2>3. /\ \A v \in Worker \ {w} : crawl'[v] = crawl[v]
        /\ crawl'[w].since = 0 /\ crawl'[w].newest = 0
    BY <2>2, <1>t, ForgetEffect
  <2>4. QED
    BY <2>1, <2>3, <1>t, <1>n DEF NothingFromTheFuture
<1>7. ASSUME NEW w \in Worker, ClaimJob(w) PROVE NothingFromTheFuture'
  <2>1. UNCHANGED <<clock, edited, cursor, plan>>
    BY <1>7 DEF ClaimJob
  <2>2. UNCHANGED crawl \/ pc'[w] = "fetch"
    BY <1>7, <1>t DEF ClaimJob, Goto, TypeOK
  <2>3. QED
    BY <2>1, <2>2, <1>7, <1>t, ClaimEffect DEF NothingFromTheFuture
<1>8. ASSUME NEW w \in Worker, FetchPage(w) PROVE NothingFromTheFuture'
  <2>1. UNCHANGED <<clock, edited, cursor, plan>>
    BY <1>8 DEF FetchPage
  <2>2. crawl'[w].newest <= clock /\ crawl'[w].since = crawl[w].since
    BY <1>8, <1>t, <1>n, FetchEffect DEF NothingFromTheFuture, Later, Unread
  <2>3. QED
    BY <2>1, <2>2, <1>8, <1>t, FetchEffect DEF NothingFromTheFuture
<1>9. ASSUME NEW w \in Worker, PublishReviewRaw(w) PROVE NothingFromTheFuture'
  <2>1. UNCHANGED <<clock, edited, cursor, plan>>
    BY <1>9 DEF PublishReviewRaw
  <2>2. QED
    BY <2>1, <1>9, <1>t, PublishEffect DEF NothingFromTheFuture
<1>10. ASSUME NEW w \in Worker, FinishSucceeded(w) \/ FinishFailed(w) \/ GiveUp(w)
       PROVE  NothingFromTheFuture'
  <2>1. UNCHANGED <<clock, edited, plan>>
    BY <1>10 DEF FinishSucceeded, FinishFailed, GiveUp
  <2>2. crawl' = [crawl EXCEPT ![w] = NoCrawl]
    BY <1>10 DEF FinishSucceeded, FinishFailed, GiveUp, FinishJob
  <2>3. \E c \in {crawl[w].since, crawl[w].newest} : cursor' = [cursor EXCEPT ![Target(w)] = c]
    BY <1>10 DEF FinishSucceeded, FinishFailed, GiveUp, FinishJob
  <2>4. \A j \in Job : cursor'[j] <= clock
    BY <2>3, <1>t, <1>n DEF NothingFromTheFuture
  <2>5. /\ \A v \in Worker \ {w} : crawl'[v] = crawl[v]
        /\ crawl'[w].since = 0 /\ crawl'[w].newest = 0
    BY <2>2, <1>t, ForgetEffect
  <2>6. QED
    BY <2>1, <2>4, <2>5, <1>t, <1>n DEF NothingFromTheFuture
<1>11. CASE UNCHANGED vars
  BY <1>11, <1>t DEF vars, NothingFromTheFuture
<1>12. QED
  BY <1>1, <1>2, <1>3, <1>4, <1>5, <1>6, <1>7, <1>8, <1>9, <1>10, <1>11
     DEF Next, SchedulerStep, SchedulerFault, WorkerStep, WorkerFault

\* A review that an edit leaves outstanding is ahead: the edited one because it
\* is newer than all that has been read, the others as before.
LEMMA EditKeepsAhead ==
    ASSUME CoverInv, NEW q \in Review, EditReview(q), NEW r \in Review, Outstanding(r)'
    PROVE  Ahead(r)'
<1>n. /\ clock \in Nat /\ edited \in [Review -> Nat] /\ cursor \in [Job -> Nat]
      /\ plan \in [Scheduler -> Nat]
      /\ \A w \in Worker : crawl[w].since \in Nat /\ crawl[w].newest \in Nat
  BY CoverNumbers DEF CoverInv
<1>1. UNCHANGED <<cursor, plan, crawl, pc>>
  BY DEF EditReview, rows, schedVars, workVars
<1>2. CASE r = q
  <2>1. edited'[r] = clock + 1
    BY <1>2, <1>n DEF EditReview
  <2>2. QED
    BY <1>1, <2>1, <1>n DEF CoverInv, NothingFromTheFuture, Ahead
<1>3. CASE r # q
  <2>1. edited'[r] = edited[r] /\ Outstanding(r)
    BY <1>3, <1>n DEF EditReview, Outstanding
  <2>2. Ahead(r)
    BY <2>1 DEF CoverInv
  <2>3. QED
    BY <1>1, <2>1, <2>2 DEF Ahead, InHand
<1>4. QED
  BY <1>2, <1>3

LEMMA SchedulerKeepsAhead ==
    ASSUME CoverInv, NEW s \in Scheduler, SchedulerStep(s) \/ SchedulerFault(s),
           NEW r \in Review, Outstanding(r), Ahead(r)
    PROVE  Ahead(r)'
<1>n. edited \in [Review -> Nat] /\ cursor \in [Job -> Nat] /\ plan \in [Scheduler -> Nat]
  BY CoverNumbers DEF CoverInv
<1>1. UNCHANGED <<edited, crawl, pc>>
  BY DEF SchedulerStep, SchedulerFault, AcquireLeaderLock, Ping, ReapStaleJobs,
     LookForOpenJob, PlanJob, CreateJob, NoRowLeft, PublishCrawlJob, CrashScheduler,
     TickFails, platform, workVars
<1>2. 0 < edited[r] /\ LastSucceededCursor < edited[r]
  BY <1>n, LastCursorType DEF CoverInv, Outstanding, Ahead
<1>3. \/ UNCHANGED cursor
      \/ \E j \in Job : cursor' = [cursor EXCEPT ![j] = plan[s]]
  BY DEF SchedulerStep, SchedulerFault, AcquireLeaderLock, Ping, ReapStaleJobs,
     LookForOpenJob, PlanJob, CreateJob, NoRowLeft, PublishCrawlJob, CrashScheduler,
     TickFails, rows
<1>4. \/ UNCHANGED plan
      \/ plan' = [plan EXCEPT ![s] = 0]
      \/ plan' = [plan EXCEPT ![s] = LastSucceededCursor]
  BY DEF SchedulerStep, SchedulerFault, AcquireLeaderLock, Ping, ReapStaleJobs,
     LookForOpenJob, PlanJob, CreateJob, NoRowLeft, PublishCrawlJob, CrashScheduler,
     TickFails, schedVars
<1>5. \A j \in Job : cursor'[j] < edited[r]
  BY <1>3, <1>n DEF Ahead
<1>6. \A u \in Scheduler : plan'[u] < edited[r]
  BY <1>2, <1>4, <1>n DEF Ahead
<1>7. QED
  BY <1>1, <1>5, <1>6 DEF Ahead, InHand

\* The worker has forgotten its crawl, or has only read the job's cursor.
LEMMA QueueKeepsAhead ==
    ASSUME CoverInv, NEW w \in Worker,
           (\E j \in Job : Receive(w, j)) \/ Ack(w) \/ Nak(w) \/ CrashWorker(w),
           NEW r \in Review, Outstanding(r), Ahead(r)
    PROVE  Ahead(r)'
<1>t. TypeOK
  BY DEF CoverInv
<1>1. UNCHANGED <<edited, cursor, plan>>
  BY DEF Receive, Ack, Nak, CrashWorker, Answer, platform, rows, schedVars
<1>2. /\ \A v \in Worker \ {w} : pc'[v] = pc[v]
      /\ pc'[w] \in {"idle", "claim"}
  BY <1>t DEF Receive, Ack, Nak, CrashWorker, Answer, Leave, Goto, TypeOK
<1>3. ASSUME NEW j \in Job, Receive(w, j) PROVE Ahead(r)'
  <2>1. /\ \A v \in Worker \ {w} : crawl'[v] = crawl[v]
        /\ crawl'[w].since = cursor[j]
    BY <1>3, <1>t, ReceiveEffect
  <2>2. QED
    BY <1>1, <1>2, <2>1 DEF Ahead, InHand
<1>4. CASE Ack(w) \/ Nak(w) \/ CrashWorker(w)
  <2>1. crawl' = [crawl EXCEPT ![w] = NoCrawl]
    BY <1>4 DEF Ack, Nak, CrashWorker, Answer, Leave
  <2>2. (\A v \in Worker \ {w} : crawl'[v] = crawl[v]) /\ crawl'[w].since = 0
    BY <2>1, <1>t, ForgetEffect
  <2>3. QED
    BY <1>1, <1>2, <2>2 DEF Ahead, InHand, Outstanding
<1>5. QED
  BY <1>3, <1>4

\* The claim starts from the cursor, below which nothing is outstanding.
LEMMA ClaimKeepsAhead ==
    ASSUME CoverInv, NEW w \in Worker, ClaimJob(w),
           NEW r \in Review, Outstanding(r), Ahead(r)
    PROVE  Ahead(r)'
<1>t. TypeOK
  BY DEF CoverInv
<1>n. edited \in [Review -> Nat] /\ \A v \in Worker : crawl[v].since \in Nat
  BY <1>t, CoverNumbers
<1>1. UNCHANGED <<edited, cursor, plan>>
  BY DEF ClaimJob, platform, schedVars
<1>2. \A v \in Worker \ {w} : pc'[v] = pc[v]
  BY <1>t DEF ClaimJob, Goto, TypeOK
<1>3. CASE pc'[w] = "fetch"
  <2>1. /\ \A v \in Worker \ {w} : crawl'[v] = crawl[v]
        /\ crawl'[w].since = crawl[w].since
        /\ crawl'[w].newest = crawl[w].since
    BY <1>3, <1>t, ClaimEffect
  <2>2. ~(edited[r] <= crawl'[w].newest)
    BY <2>1, <1>n DEF Ahead
  <2>3. QED
    BY <1>1, <1>2, <2>1, <2>2 DEF Ahead, InHand
<1>4. CASE UNCHANGED crawl /\ pc'[w] = "ack"
  BY <1>1, <1>2, <1>4 DEF Ahead, InHand
<1>5. QED
  BY <1>t, <1>3, <1>4 DEF ClaimJob, Goto, TypeOK

\* What a page takes the cursor past is on the page, or below its edge.
LEMMA FetchKeepsAhead ==
    ASSUME CoverInv, NEW w \in Worker, FetchPage(w),
           NEW r \in Review, Outstanding(r), Ahead(r)
    PROVE  Ahead(r)'
<1>t. TypeOK
  BY DEF CoverInv
<1>n. /\ edited \in [Review -> Nat]
      /\ \A v \in Worker : /\ crawl[v].since \in Nat /\ crawl[v].newest \in Nat
                           /\ crawl[v].edge \in Nat
  BY <1>t, CoverNumbers
<1>1. UNCHANGED <<edited, cursor, plan, pc>> /\ pc[w] = "fetch"
  BY DEF FetchPage, platform, rows, schedVars
<1>2. PICK top \in Unread(w), last \in Unread(w) :
         /\ \A q \in Unread(w) : edited[q] <= edited[top]
         /\ crawl'[w].newest = Later(crawl[w].newest, edited[top])
         /\ crawl'[w].edge = edited[last]
         /\ \A q \in Review :
               crawl'[w].got[q] = IF q \in Unread(w) /\ edited[last] <= edited[q]
                                  THEN edited[q] ELSE crawl[w].got[q]
  BY <1>t, FetchEffect
<1>3. /\ \A v \in Worker \ {w} : crawl'[v] = crawl[v]
      /\ crawl'[w].since = crawl[w].since
  BY <1>t, FetchEffect
<1>4. top \in Review /\ last \in Review /\ edited[top] < crawl[w].edge
  BY DEF Unread
<1>5. crawl[w].since < edited[r]
  BY DEF Ahead
<1>6. ASSUME edited[r] <= crawl'[w].newest
      PROVE  crawl'[w].got[r] = edited[r] \/ edited[r] < crawl'[w].edge
  <2>1. CASE edited[r] < crawl[w].edge
    <3>1. r \in Unread(w)
      BY <1>5, <2>1 DEF Unread
    <3>2. QED
      BY <1>2, <1>4, <1>n, <3>1
  <2>2. CASE ~(edited[r] < crawl[w].edge)
    <3>1. edited[r] <= crawl[w].newest
      BY <1>2, <1>4, <1>6, <1>n, <2>2 DEF Later
    <3>2. crawl[w].got[r] = edited[r]
      BY <1>1, <2>2, <3>1 DEF Ahead, InHand
    <3>3. QED
      BY <1>2, <3>2
  <2>3. QED
    BY <2>1, <2>2
<1>7. QED
  BY <1>1, <1>3, <1>5, <1>6 DEF Ahead, InHand

\* What is cut off is no longer outstanding; what is published neither.
LEMMA StoreKeepsAhead ==
    ASSUME CoverInv, NEW w \in Worker,
           FetchDone(w) \/ InsertRawReviews(w) \/ PublishReviewRaw(w),
           NEW r \in Review, Outstanding(r), Outstanding(r)', Ahead(r)
    PROVE  Ahead(r)'
<1>t. TypeOK
  BY DEF CoverInv
<1>1. CASE FetchDone(w)
  <2>1. UNCHANGED <<edited, cursor, plan, crawl>> /\ pc[w] = "fetch"
    BY <1>1 DEF FetchDone, platform, rows, schedVars
  <2>2. (\A v \in Worker \ {w} : pc'[v] = pc[v]) /\ pc'[w] = "insert"
    BY <1>1, <1>t DEF FetchDone, Goto, TypeOK
  <2>3. r \notin Unread(w)
    BY <1>1 DEF FetchDone, Outstanding
  <2>4. ~(edited[r] < crawl[w].edge)
    BY <2>3 DEF Unread, Ahead
  <2>5. QED
    BY <2>1, <2>2, <2>4 DEF Ahead, InHand
<1>2. CASE InsertRawReviews(w)
  <2>1. UNCHANGED <<edited, cursor, plan, crawl>> /\ pc[w] = "insert"
    BY <1>2 DEF InsertRawReviews, platform, rows, schedVars
  <2>2. (\A v \in Worker \ {w} : pc'[v] = pc[v]) /\ pc'[w] = "publish"
    BY <1>2, <1>t DEF InsertRawReviews, Goto, TypeOK
  <2>3. QED
    BY <2>1, <2>2 DEF Ahead, InHand
<1>3. CASE PublishReviewRaw(w)
  <2>1. UNCHANGED <<edited, cursor, plan, pc>> /\ pc[w] = "publish"
    BY <1>3 DEF PublishReviewRaw, platform, rows, schedVars
  <2>2. /\ \A v \in Worker \ {w} : crawl'[v] = crawl[v]
        /\ crawl'[w].since = crawl[w].since /\ crawl'[w].newest = crawl[w].newest
    BY <1>3, <1>t, PublishEffect
  <2>3. PICK q \in Review :
           /\ announced' = announced \cup {x \in {q} : crawl[w].got[x] = edited[x]}
           /\ \A x \in Review \ {q} : crawl'[w].got[x] = crawl[w].got[x]
    BY <1>3, <1>t, PublishEffect
  <2>4. ASSUME crawl[w].got[r] = edited[r] PROVE crawl'[w].got[r] = edited[r]
    <3>1. r # q
      BY <2>3, <2>4 DEF Outstanding
    <3>2. QED
      BY <2>3, <2>4, <3>1
  <2>5. QED
    BY <2>1, <2>2, <2>4 DEF Ahead, InHand
<1>4. QED
  BY <1>1, <1>2, <1>3

\* The cursor of a success has all that was got behind it, published; that of a
\* failure is where the crawl began.
LEMMA FinishKeepsAhead ==
    ASSUME CoverInv, NEW w \in Worker,
           FinishSucceeded(w) \/ FinishFailed(w) \/ GiveUp(w),
           NEW r \in Review, Outstanding(r), Ahead(r)
    PROVE  Ahead(r)'
<1>t. TypeOK
  BY DEF CoverInv
<1>n. /\ edited \in [Review -> Nat] /\ cursor \in [Job -> Nat]
      /\ \A v \in Worker : crawl[v].since \in Nat /\ crawl[v].newest \in Nat
  BY <1>t, CoverNumbers
<1>1. UNCHANGED <<edited, plan>>
  BY DEF FinishSucceeded, FinishFailed, GiveUp, platform, schedVars
<1>2. (\A v \in Worker \ {w} : pc'[v] = pc[v]) /\ pc'[w] \in {"ack", "nak"}
  BY <1>t DEF FinishSucceeded, FinishFailed, GiveUp, Goto, TypeOK
<1>3. crawl' = [crawl EXCEPT ![w] = NoCrawl]
  BY DEF FinishSucceeded, FinishFailed, GiveUp, FinishJob
<1>4. (\A v \in Worker \ {w} : crawl'[v] = crawl[v]) /\ crawl'[w].since = 0
  BY <1>3, <1>t, ForgetEffect
<1>5. \A j \in Job : cursor'[j] < edited[r]
  <2>1. CASE FinishSucceeded(w)
    <3>1. cursor' = [cursor EXCEPT ![Target(w)] = crawl[w].newest]
      BY <2>1 DEF FinishSucceeded, FinishJob
    <3>2. pc[w] = "publish" /\ crawl[w].got[r] # edited[r]
      BY <2>1 DEF FinishSucceeded, Outstanding
    <3>3. ~(edited[r] <= crawl[w].newest)
      BY <3>2 DEF Ahead, InHand
    <3>4. QED
      BY <3>1, <3>3, <1>n DEF Ahead
  <2>2. CASE FinishFailed(w) \/ GiveUp(w)
    <3>1. cursor' = [cursor EXCEPT ![Target(w)] = crawl[w].since]
      BY <2>2 DEF FinishFailed, GiveUp, FinishJob
    <3>2. QED
      BY <3>1, <1>n DEF Ahead
  <2>3. QED
    BY <2>1, <2>2
<1>6. QED
  BY <1>1, <1>2, <1>4, <1>5 DEF Ahead, InHand, Outstanding

LEMMA CoverStep == CoverInv /\ [Next]_vars => CoverInv'
<1> SUFFICES ASSUME CoverInv, [Next]_vars, NEW r \in Review, Outstanding(r)'
             PROVE  Ahead(r)'
  BY NextType, FutureStep DEF CoverInv
<1>1. CASE \E q \in Review : EditReview(q)
  BY <1>1, EditKeepsAhead
<1>2. CASE ~ \E q \in Review : EditReview(q)
  <2>1. /\ UNCHANGED edited
        /\ announced \subseteq announced' /\ passed \subseteq passed'
    <3>1. CASE UNCHANGED vars
      BY <3>1 DEF vars, platform, raws
    <3>2. CASE CronDue \/ LoseLock \/ \E j \in Job : Age(j) \/ AckTimeout(j)
      BY <3>2 DEF CronDue, LoseLock, Age, AckTimeout, platform, raws
    <3>3. ASSUME NEW s \in Scheduler, SchedulerStep(s) \/ SchedulerFault(s)
          PROVE  UNCHANGED <<edited, announced, passed>>
      BY <3>3 DEF SchedulerStep, SchedulerFault, AcquireLeaderLock, Ping,
         ReapStaleJobs, LookForOpenJob, PlanJob, CreateJob, NoRowLeft,
         PublishCrawlJob, CrashScheduler, TickFails, platform, raws
    <3>4. ASSUME NEW w \in Worker, WorkerStep(w) \/ WorkerFault(w),
                 ~FetchDone(w), ~PublishReviewRaw(w)
          PROVE  UNCHANGED <<edited, announced, passed>>
      BY <3>4 DEF WorkerStep, WorkerFault, Receive, ClaimJob, FetchPage,
         InsertRawReviews, FinishSucceeded, FinishFailed, GiveUp, Ack, Nak, Answer,
         CallFails, UnknownAdapter, CrashWorker, platform, raws
    <3>5. ASSUME NEW w \in Worker, FetchDone(w) \/ PublishReviewRaw(w)
          PROVE  /\ UNCHANGED edited
                 /\ announced \subseteq announced' /\ passed \subseteq passed'
      BY <3>5 DEF FetchDone, PublishReviewRaw, platform
    <3>6. QED
      BY <1>2, <3>1, <3>2, <3>3, <3>4, <3>5 DEF Next
  <2>2. Outstanding(r) /\ Ahead(r)
    BY <2>1 DEF Outstanding, CoverInv
  <2>3. CASE \/ UNCHANGED vars \/ CronDue \/ LoseLock
             \/ \E j \in Job : Age(j) \/ AckTimeout(j)
    <3>1. UNCHANGED <<edited, cursor, plan, crawl, pc>>
      BY <2>3 DEF vars, CronDue, LoseLock, Age, AckTimeout, platform, rows,
         schedVars, workVars
    <3>2. QED
      BY <2>2, <3>1 DEF Ahead, InHand
  <2>4. ASSUME NEW w \in Worker, CallFails(w) \/ UnknownAdapter(w) PROVE Ahead(r)'
    <3>1. UNCHANGED <<edited, cursor, plan, crawl>>
      BY <2>4 DEF CallFails, UnknownAdapter, platform, rows, schedVars
    <3>2. /\ \A v \in Worker \ {w} : pc'[v] = pc[v]
          /\ pc'[w] \in {"nak", "ack", "fail", "giveUp"}
      BY <2>4 DEF CallFails, UnknownAdapter, Goto, CoverInv, TypeOK
    <3>3. QED
      BY <2>2, <3>1, <3>2 DEF Ahead, InHand
  <2>5. QED
    BY <1>2, <2>2, <2>3, <2>4, SchedulerKeepsAhead, QueueKeepsAhead, ClaimKeepsAhead,
       FetchKeepsAhead, StoreKeepsAhead, FinishKeepsAhead
       DEF Next, WorkerStep, WorkerFault
<1>3. QED
  BY <1>1, <1>2

\* Whatever fails, repeats or overlaps, no cursor moves past a review whose
\* present version was neither announced nor cut off by the page cap.
THEOREM CursorsAreCovered == Spec => []CursorIsCovered
BY CoverInit, CoverStep, CoverImplies, PTL DEF Spec

-------------------------------------------------------------------------------
(* One job waits at a time *)

\* As long as no leader has lost the lock, who is at work holds it, and a leader
\* that goes on to create a job has seen that none is pending.
LeaderInv ==
    /\ TypeOK
    /\ ~split => /\ \A s \in Scheduler : spc[s] # "standby" => lock = s
                 /\ \A s \in Scheduler, j \in Job :
                       spc[s] \in {"plan", "create"} => status[j] # "pending"
                 /\ \A j, k \in Job : status[j] = "pending" /\ status[k] = "pending" => j = k

LEMMA LeaderInit == Init => LeaderInv
BY InitType DEF Init, LeaderInv

\* Except in CreateJob no job becomes pending.
LEMMA PendingOnlyByCreate ==
    ASSUME TypeOK, [Next]_vars, ~ \E s \in Scheduler, j \in Job : CreateJob(s, j)
    PROVE  \A j \in Job : status'[j] = "pending" => status[j] = "pending"
<1>1. ASSUME NEW s \in Scheduler, SchedulerStep(s) \/ SchedulerFault(s)
      PROVE  \A j \in Job : status'[j] = "pending" => status[j] = "pending"
  <2>1. CASE ReapStaleJobs(s)
    BY <2>1 DEF ReapStaleJobs, TypeOK
  <2>2. CASE ~ReapStaleJobs(s)
    <3>1. UNCHANGED status
      BY <1>1, <2>2 DEF SchedulerStep, SchedulerFault, AcquireLeaderLock, Ping,
         LookForOpenJob, PlanJob, NoRowLeft, PublishCrawlJob, CrashScheduler,
         TickFails, rows
    <3>2. QED
      BY <3>1
  <2>3. QED
    BY <2>1, <2>2
<1>2. ASSUME NEW w \in Worker, WorkerStep(w) \/ WorkerFault(w)
      PROVE  \A j \in Job : status'[j] = "pending" => status[j] = "pending"
  <2>1. \/ UNCHANGED status
        \/ \E st \in Status \ {"pending"} : status' = [status EXCEPT ![Target(w)] = st]
    BY <1>2 DEF WorkerStep, WorkerFault, Receive, ClaimJob, FetchPage, FetchDone,
       InsertRawReviews, PublishReviewRaw, FinishSucceeded, FinishFailed, GiveUp,
       FinishJob, Ack, Nak, Answer, CallFails, UnknownAdapter, CrashWorker, rows, Status
  <2>2. QED
    BY <2>1 DEF TypeOK
<1>3. CASE \/ UNCHANGED vars \/ CronDue \/ LoseLock
           \/ \E r \in Review : EditReview(r)
           \/ \E j \in Job : Age(j) \/ AckTimeout(j)
  <2>1. UNCHANGED status
    BY <1>3 DEF vars, CronDue, LoseLock, EditReview, Age, AckTimeout, rows
  <2>2. QED
    BY <2>1
<1>4. QED
  BY <1>1, <1>2, <1>3 DEF Next

LEMMA LeaderStep == LeaderInv /\ [Next]_vars => LeaderInv'
<1> SUFFICES ASSUME LeaderInv, [Next]_vars PROVE LeaderInv'
  OBVIOUS
<1>t. TypeOK /\ TypeOK'
  BY NextType DEF LeaderInv
<1>1. ASSUME NEW s \in Scheduler, NEW j \in Job, CreateJob(s, j) PROVE LeaderInv'
  <2>1. UNCHANGED <<lock, split>> /\ spc[s] = "create"
    BY <1>1 DEF CreateJob
  <2>2. (\A u \in Scheduler \ {s} : spc'[u] = spc[u]) /\ spc'[s] = "publish"
    BY <1>1, <1>t DEF CreateJob, SGoto, TypeOK
  <2>3. \A k \in Job \ {j} : status'[k] = status[k]
    BY <1>1, <1>t DEF CreateJob, TypeOK
  <2>4. ASSUME ~split PROVE \A u \in Scheduler \ {s} : spc[u] = "standby"
    BY <2>1, <2>4 DEF LeaderInv
  <2>5. QED
    BY <1>t, <2>1, <2>2, <2>3, <2>4 DEF LeaderInv
<1>2. CASE ~ \E s \in Scheduler, j \in Job : CreateJob(s, j)
  <2>1. \A j \in Job : status'[j] = "pending" => status[j] = "pending"
    BY <1>2, <1>t, PendingOnlyByCreate
  <2>2. CASE LoseLock
    BY <2>2, <1>t DEF LoseLock, LeaderInv
  <2>3. ASSUME NEW s \in Scheduler, AcquireLeaderLock(s) PROVE LeaderInv'
    <3>1. UNCHANGED split /\ lock = "none" /\ lock' = s
      BY <2>3 DEF AcquireLeaderLock
    <3>2. (\A u \in Scheduler \ {s} : spc'[u] = spc[u]) /\ spc'[s] = "ping"
      BY <2>3, <1>t DEF AcquireLeaderLock, SGoto, TypeOK
    <3>3. QED
      BY <1>t, <2>1, <3>1, <3>2 DEF LeaderInv
  <2>4. ASSUME NEW s \in Scheduler, LookForOpenJob(s) PROVE LeaderInv'
    <3>1. UNCHANGED <<split, lock, status>> /\ spc[s] = "open"
      BY <2>4 DEF LookForOpenJob, rows
    <3>2. /\ \A u \in Scheduler \ {s} : spc'[u] = spc[u]
          /\ spc'[s] = IF HasOpenJob THEN "ping" ELSE "plan"
      BY <2>4, <1>t DEF LookForOpenJob, SGoto, TypeOK
    <3>3. ~HasOpenJob => \A j \in Job : status[j] # "pending"
      BY DEF HasOpenJob, Open
    <3>4. QED
      BY <1>t, <3>1, <3>2, <3>3 DEF LeaderInv
  <2>5. ASSUME NEW s \in Scheduler, CrashScheduler(s) PROVE LeaderInv'
    <3>1. UNCHANGED split /\ lock' = (IF lock = s THEN "none" ELSE lock)
      BY <2>5 DEF CrashScheduler
    <3>2. (\A u \in Scheduler \ {s} : spc'[u] = spc[u]) /\ spc'[s] = "standby"
      BY <2>5, <1>t DEF CrashScheduler, SGoto, TypeOK
    <3>3. QED
      BY <1>t, <2>1, <3>1, <3>2 DEF LeaderInv
  <2>6. ASSUME NEW s \in Scheduler,
               \/ Ping(s) \/ ReapStaleJobs(s) \/ PlanJob(s) \/ NoRowLeft(s)
               \/ PublishCrawlJob(s) \/ TickFails(s)
        PROVE  LeaderInv'
    <3>1. UNCHANGED <<split, lock>>
      BY <2>6 DEF Ping, ReapStaleJobs, PlanJob, NoRowLeft, PublishCrawlJob, TickFails
    <3>2. /\ \A u \in Scheduler \ {s} : spc'[u] = spc[u]
          /\ spc'[s] # "standby" => spc[s] # "standby" /\ (Ping(s) => lock = s)
          /\ spc'[s] \in {"plan", "create"} => spc[s] \in {"plan", "create"}
      BY <2>6, <1>t DEF Ping, ReapStaleJobs, PlanJob, NoRowLeft, PublishCrawlJob,
         TickFails, SGoto, TypeOK
    <3>3. QED
      BY <1>t, <2>1, <3>1, <3>2 DEF LeaderInv
  <2>7. ASSUME UNCHANGED schedVars PROVE LeaderInv'
    BY <1>t, <2>1, <2>7 DEF LeaderInv, schedVars
  <2>8. ASSUME \/ UNCHANGED vars \/ CronDue \/ (\E r \in Review : EditReview(r))
               \/ (\E j \in Job : Age(j) \/ AckTimeout(j))
               \/ (\E w \in Worker : WorkerStep(w) \/ WorkerFault(w))
        PROVE  UNCHANGED schedVars
    BY <2>8, ZenonT(40)
       DEF vars, CronDue, EditReview, Age, AckTimeout, WorkerStep, WorkerFault,
       Receive, ClaimJob, FetchPage, FetchDone, InsertRawReviews, PublishReviewRaw,
       FinishSucceeded, FinishFailed, GiveUp, Ack, Nak, Answer, CallFails,
       UnknownAdapter, CrashWorker
  <2>9. QED
    BY <1>2, <2>2, <2>3, <2>4, <2>5, <2>6, <2>7, <2>8
       DEF Next, SchedulerStep, SchedulerFault
<1>3. QED
  BY <1>1, <1>2

\* With a leader that has its lock, HasOpenJob followed by CreateJob is safe, for
\* any number of schedulers that die and take over.
THEOREM PendingIsUnique == Spec => []DispatchIsUnique
<1>1. LeaderInv => DispatchIsUnique
  BY DEF LeaderInv, DispatchIsUnique
<1>2. QED
  BY <1>1, LeaderInit, LeaderStep, PTL DEF Spec

\* Unless a leader has lost the lock, at most one scheduler is at work.
OneLeader ==
    ~split => \A s, t \in Scheduler : spc[s] # "standby" /\ spc[t] # "standby" => s = t

\* The advisory lock elects one leader (tryAcquireLeaderLock): two schedulers
\* never reap and dispatch together, however they crash and follow each other.
THEOREM LeaderIsUnique == Spec => []OneLeader
<1>1. LeaderInv => OneLeader
  BY DEF LeaderInv, OneLeader
<1>2. QED
  BY <1>1, LeaderInit, LeaderStep, PTL DEF Spec

-------------------------------------------------------------------------------
(* One worker per job *)

\* A job that is being crawled is running, and crawled by one worker.
ClaimInv ==
    /\ TypeOK
    /\ \A w \in Worker : pc[w] \in Crawling => status[Target(w)] = "running"
    /\ \A v, w \in Worker :
          pc[v] \in Crawling /\ pc[w] \in Crawling /\ Target(v) = Target(w) => v = w

LEMMA ClaimInit == Init => ClaimInv
BY InitType DEF Init, ClaimInv, Crawling

\* The reaper fails a running job only if nobody crawls it any more.  ClaimInv is
\* not inductive without it: the reaper looks at the row only.
ReapsDead ==
    \A s \in Scheduler, j \in Job :
        /\ ReapStaleJobs(s)
        /\ status[j] = "running"
        /\ status'[j] # "running"
        => Crawlers(j) = {}

LEMMA ClaimStep == ClaimInv /\ [Next /\ ReapsDead]_vars => ClaimInv'
<1> SUFFICES ASSUME ClaimInv, [Next /\ ReapsDead]_vars PROVE ClaimInv'
  OBVIOUS
<1>t. TypeOK /\ TypeOK'
  BY NextType DEF ClaimInv
<1>j. \A w \in Worker : pc[w] \in Crawling => Target(w) \in Job
  BY <1>t, BusyHasTarget DEF Crawling
<1>2. ASSUME NEW s \in Scheduler, ReapStaleJobs(s) PROVE ClaimInv'
  <2>1. UNCHANGED <<pc, job>>
    BY <1>2 DEF ReapStaleJobs, workVars
  <2>2. CASE UNCHANGED vars
    BY <1>t, <2>1, <2>2 DEF vars, rows, ClaimInv, Target
  <2>3. CASE ReapsDead
    <3>1. \A w \in Worker : pc[w] \in Crawling => status'[Target(w)] = "running"
      BY <1>2, <1>j, <2>3 DEF ReapsDead, Crawlers, Target, ClaimInv
    <3>2. QED
      BY <1>t, <2>1, <3>1 DEF ClaimInv, Target
  <2>4. QED
    BY <2>2, <2>3
<1>3. ASSUME NEW s \in Scheduler, NEW j \in Job, CreateJob(s, j) PROVE ClaimInv'
  <2>1. \A k \in Job : status[k] = "running" => status'[k] = "running"
    BY <1>3, <1>t DEF CreateJob, Reusable, Open, TypeOK
  <2>2. UNCHANGED <<pc, job>>
    BY <1>3 DEF CreateJob, workVars
  <2>3. QED
    BY <1>t, <1>j, <2>1, <2>2 DEF ClaimInv, Target
<1>4. ASSUME NEW w \in Worker, ClaimJob(w) PROVE ClaimInv'
  <2>1. UNCHANGED job /\ Target(w) \in Job
    BY <1>4, <1>t, BusyHasTarget DEF ClaimJob
  <2>2. \A v \in Worker \ {w} : pc'[v] = pc[v]
    BY <1>4, <1>t DEF ClaimJob, Goto, TypeOK
  <2>3. CASE status[Target(w)] \in {"pending", "failed"}
    <3>1. status' = [status EXCEPT ![Target(w)] = "running"]
      BY <1>4, <2>3 DEF ClaimJob
    <3>2. \A v \in Worker \ {w} : pc[v] \in Crawling => Target(v) # Target(w)
      BY <2>3 DEF ClaimInv
    <3>3. \A v \in Worker \ {w} : pc[v] \in Crawling => status'[Target(v)] = "running"
      BY <1>t, <1>j, <3>1, <3>2 DEF ClaimInv, TypeOK
    <3>4. status'[Target(w)] = "running"
      BY <1>t, <2>1, <3>1 DEF TypeOK
    <3>5. QED
      BY <1>t, <2>1, <2>2, <3>2, <3>3, <3>4 DEF ClaimInv, Target
  <2>4. CASE ~(status[Target(w)] \in {"pending", "failed"})
    <3>1. UNCHANGED status /\ pc'[w] = "ack"
      BY <1>4, <1>t, <2>4 DEF ClaimJob, Goto, TypeOK
    <3>2. QED
      BY <1>t, <2>1, <2>2, <3>1 DEF ClaimInv, Target, Crawling
  <2>5. QED
    BY <2>3, <2>4
<1>5. ASSUME NEW w \in Worker, FinishSucceeded(w) \/ FinishFailed(w) \/ GiveUp(w)
      PROVE  ClaimInv'
  <2>1. UNCHANGED job /\ pc[w] \in Crawling
    BY <1>5 DEF FinishSucceeded, FinishFailed, GiveUp, Crawling
  <2>2. (\A v \in Worker \ {w} : pc'[v] = pc[v]) /\ pc'[w] \in {"ack", "nak"}
    BY <1>5, <1>t DEF FinishSucceeded, FinishFailed, GiveUp, Goto, TypeOK
  <2>3. \A j \in Job \ {Target(w)} : status'[j] = status[j]
    BY <1>5, <1>t DEF FinishSucceeded, FinishFailed, GiveUp, FinishJob, TypeOK
  <2>4. \A v \in Worker \ {w} : pc[v] \in Crawling => Target(v) # Target(w)
    BY <2>1 DEF ClaimInv
  <2>5. QED
    BY <1>t, <1>j, <2>1, <2>2, <2>3, <2>4 DEF ClaimInv, Target, Crawling
<1>6. ASSUME NEW w \in Worker,
             \/ FetchPage(w) \/ FetchDone(w) \/ InsertRawReviews(w)
             \/ PublishReviewRaw(w) \/ CallFails(w) \/ UnknownAdapter(w)
      PROVE  ClaimInv'
  <2>1. UNCHANGED <<job, status>>
    BY <1>6 DEF FetchPage, FetchDone, InsertRawReviews, PublishReviewRaw, CallFails,
       UnknownAdapter, rows
  <2>2. \/ UNCHANGED pc
        \/ pc[w] \in Crawling /\ \E l \in Places : Goto(w, l)
        \/ Goto(w, "nak")
    BY <1>6 DEF FetchPage, FetchDone, InsertRawReviews, PublishReviewRaw,
       CallFails, UnknownAdapter, Places, Crawling
  <2>3. \A v \in Worker \ {w} : pc'[v] = pc[v]
    BY <2>2, <1>t DEF Goto, TypeOK
  <2>4. pc'[w] \in Crawling => pc[w] \in Crawling
    BY <2>2, <1>t DEF Goto, TypeOK, Crawling
  <2>5. QED
    BY <1>t, <2>1, <2>3, <2>4 DEF ClaimInv, Target
<1>7. ASSUME NEW w \in Worker,
             (\E j \in Job : Receive(w, j)) \/ Ack(w) \/ Nak(w) \/ CrashWorker(w)
      PROVE  ClaimInv'
  <2>1. UNCHANGED status
    BY <1>7 DEF Receive, Ack, Nak, CrashWorker, Answer, rows
  <2>2. /\ \A v \in Worker \ {w} : pc'[v] = pc[v] /\ job'[v] = job[v]
        /\ pc'[w] \in {"idle", "claim"}
    BY <1>7, <1>t DEF Receive, Ack, Nak, CrashWorker, Answer, Leave, Goto, TypeOK
  <2>3. QED
    BY <1>t, <2>1, <2>2 DEF ClaimInv, Target, Crawling
<1>8. CASE UNCHANGED <<pc, job, status>>
  BY <1>8, <1>t DEF ClaimInv, Target
<1>9. ASSUME \/ UNCHANGED vars \/ CronDue \/ LoseLock
             \/ (\E r \in Review : EditReview(r))
             \/ (\E j \in Job : Age(j) \/ AckTimeout(j))
             \/ \E s \in Scheduler :
                   \/ AcquireLeaderLock(s) \/ Ping(s) \/ LookForOpenJob(s) \/ PlanJob(s)
                   \/ NoRowLeft(s) \/ PublishCrawlJob(s) \/ SchedulerFault(s)
      PROVE  UNCHANGED <<pc, job, status>>
  BY <1>9 DEF vars, CronDue, LoseLock, EditReview, Age, AckTimeout, AcquireLeaderLock, Ping,
     LookForOpenJob, PlanJob, NoRowLeft, PublishCrawlJob, SchedulerFault,
     CrashScheduler, TickFails, rows, workVars
<1>10. QED
  BY <1>2, <1>3, <1>4, <1>5, <1>6, <1>7, <1>8, <1>9
     DEF Next, SchedulerStep, WorkerStep, WorkerFault

\* The steps a job's status takes, from a state in which crawled jobs are running.
Diagram ==
    \A j \in Job : status'[j] # status[j] =>
       \/ status[j] = "pending" /\ status'[j] \in {"running", "failed"}
       \/ status[j] = "running" /\ status'[j] \in {"succeeded", "failed", "dead_letter"}
       \/ status[j] = "failed" /\ status'[j] = "running"
       \/ Reusable(j) /\ status'[j] = "pending"

LEMMA DiagramStep == ClaimInv /\ [Next]_vars => Diagram
<1> SUFFICES ASSUME ClaimInv, [Next]_vars PROVE Diagram
  OBVIOUS
<1>t. TypeOK
  BY DEF ClaimInv
<1>1. ASSUME NEW s \in Scheduler, ReapStaleJobs(s) PROVE Diagram
  BY <1>1, <1>t DEF ReapStaleJobs, Stale, Open, Diagram
<1>2. ASSUME NEW s \in Scheduler, NEW j \in Job, CreateJob(s, j) PROVE Diagram
  BY <1>2, <1>t DEF CreateJob, Diagram, TypeOK
<1>3. ASSUME NEW w \in Worker, ClaimJob(w) PROVE Diagram
  BY <1>3, <1>t DEF ClaimJob, Diagram, TypeOK
<1>4. ASSUME NEW w \in Worker, FinishSucceeded(w) \/ FinishFailed(w) \/ GiveUp(w)
      PROVE  Diagram
  <2>1. status[Target(w)] = "running"
    BY <1>4 DEF ClaimInv, FinishSucceeded, FinishFailed, GiveUp, Crawling
  <2>2. \E st \in {"succeeded", "failed", "dead_letter"} :
          status' = [status EXCEPT ![Target(w)] = st]
    BY <1>4 DEF FinishSucceeded, FinishFailed, GiveUp, FinishJob
  <2>3. QED
    BY <1>t, <2>1, <2>2 DEF Diagram, TypeOK
<1>5. CASE UNCHANGED status
  BY <1>5 DEF Diagram
<1>6. ASSUME \/ UNCHANGED vars \/ CronDue \/ LoseLock
             \/ (\E r \in Review : EditReview(r))
             \/ (\E j \in Job : Age(j) \/ AckTimeout(j))
             \/ \E s \in Scheduler :
                   \/ AcquireLeaderLock(s) \/ Ping(s) \/ LookForOpenJob(s) \/ PlanJob(s)
                   \/ NoRowLeft(s) \/ PublishCrawlJob(s) \/ SchedulerFault(s)
             \/ \E w \in Worker :
                   \/ (\E j \in Job : Receive(w, j))
                   \/ FetchPage(w) \/ FetchDone(w) \/ InsertRawReviews(w)
                   \/ PublishReviewRaw(w) \/ Ack(w) \/ Nak(w) \/ WorkerFault(w)
      PROVE  UNCHANGED status
  BY <1>6 DEF vars, CronDue, LoseLock, EditReview, Age, AckTimeout, AcquireLeaderLock,
     Ping, LookForOpenJob, PlanJob, NoRowLeft, PublishCrawlJob, SchedulerFault,
     CrashScheduler, TickFails, Receive, FetchPage, FetchDone, InsertRawReviews,
     PublishReviewRaw, Ack, Nak, Answer, WorkerFault, CallFails, UnknownAdapter,
     CrashWorker, rows
<1>7. QED
  BY <1>1, <1>2, <1>3, <1>4, <1>5, <1>6 DEF Next, SchedulerStep, WorkerStep

-------------------------------------------------------------------------------
(* Versions are not rolled back *)

\* Unless two jobs have been running together, the one crawler that is between
\* its first page and its insert has fetched nothing older than what is stored.
NewestInv ==
    /\ ClaimInv
    /\ \A r \in Review : peak[r] <= edited[r] /\ edited[r] <= clock
    /\ \A w \in Worker, r \in Review :
          /\ pc[w] \in {"idle", "claim"} => crawl[w].got[r] = 0
          /\ crawl[w].got[r] <= edited[r]
    /\ ~stacked =>
          /\ \A j, k \in Job : status[j] = "running" /\ status[k] = "running" => j = k
          /\ \A r \in Review : stored[r] = peak[r]
          /\ \A w \in Worker, r \in Review :
                pc[w] \in {"fetch", "insert"} /\ crawl[w].got[r] # 0
                   => peak[r] <= crawl[w].got[r]

LEMMA NewestInit == Init => NewestInv
<1> SUFFICES ASSUME Init PROVE NewestInv
  OBVIOUS
<1>1. \A w \in Worker, r \in Review : crawl[w].got[r] = 0
  BY DEF Init, NoCrawl
<1>2. QED
  BY <1>1, ClaimInit DEF Init, NewestInv

LEMMA NewestNumbers ==
    ASSUME TypeOK
    PROVE  /\ clock \in Nat /\ edited \in [Review -> Nat] /\ peak \in [Review -> Nat]
           /\ stored \in [Review -> Nat]
           /\ \A w \in Worker : crawl[w].got \in [Review -> Nat]
BY DEF TypeOK, Crawl, Time

\* No step but a claim makes a job running.
LEMMA RunningOnlyByClaim ==
    ASSUME TypeOK, [Next]_vars, ~ \E w \in Worker : ClaimJob(w)
    PROVE  /\ \A j \in Job : status'[j] = "running" => status[j] = "running"
           /\ UNCHANGED stacked
<1>1. ASSUME NEW s \in Scheduler, SchedulerStep(s) \/ SchedulerFault(s)
      PROVE  /\ \A j \in Job : status'[j] = "running" => status[j] = "running"
             /\ UNCHANGED stacked
  <2>1. UNCHANGED stacked
    BY <1>1 DEF SchedulerStep, SchedulerFault, AcquireLeaderLock, Ping, ReapStaleJobs,
       LookForOpenJob, PlanJob, CreateJob, NoRowLeft, PublishCrawlJob, CrashScheduler,
       TickFails
  <2>2. CASE ReapStaleJobs(s)
    BY <2>1, <2>2 DEF ReapStaleJobs, TypeOK
  <2>3. ASSUME NEW j \in Job, CreateJob(s, j)
        PROVE  \A k \in Job : status'[k] = "running" => status[k] = "running"
    BY <2>3 DEF CreateJob, TypeOK
  <2>4. CASE ~ReapStaleJobs(s) /\ ~ \E j \in Job : CreateJob(s, j)
    <3>1. UNCHANGED status
      BY <1>1, <2>4 DEF SchedulerStep, SchedulerFault, AcquireLeaderLock, Ping,
         LookForOpenJob, PlanJob, NoRowLeft, PublishCrawlJob, CrashScheduler,
         TickFails, rows
    <3>2. QED
      BY <2>1, <3>1
  <2>5. QED
    BY <2>1, <2>2, <2>3, <2>4
<1>2. ASSUME NEW w \in Worker, WorkerStep(w) \/ WorkerFault(w), ~ClaimJob(w)
      PROVE  /\ \A j \in Job : status'[j] = "running" => status[j] = "running"
             /\ UNCHANGED stacked
  <2>1. \/ UNCHANGED status
        \/ \E st \in Status \ {"running"} : status' = [status EXCEPT ![Target(w)] = st]
    BY <1>2 DEF WorkerStep, WorkerFault, Receive, FetchPage, FetchDone,
       InsertRawReviews, PublishReviewRaw, FinishSucceeded, FinishFailed, GiveUp,
       FinishJob, Ack, Nak, Answer, CallFails, UnknownAdapter, CrashWorker, rows, Status
  <2>2. UNCHANGED stacked
    BY <1>2 DEF WorkerStep, WorkerFault, Receive, FetchPage, FetchDone,
       InsertRawReviews, PublishReviewRaw, FinishSucceeded, FinishFailed, GiveUp,
       Ack, Nak, Answer, CallFails, UnknownAdapter, CrashWorker
  <2>3. QED
    BY <2>1, <2>2 DEF TypeOK
<1>3. CASE \/ UNCHANGED vars \/ CronDue \/ LoseLock
           \/ \E r \in Review : EditReview(r)
           \/ \E j \in Job : Age(j) \/ AckTimeout(j)
  BY <1>3 DEF vars, CronDue, LoseLock, EditReview, Age, AckTimeout, rows
<1>4. QED
  BY <1>1, <1>2, <1>3 DEF Next

LEMMA InsertKeepsNewest ==
    ASSUME NewestInv, ClaimInv', NEW w \in Worker, InsertRawReviews(w)
    PROVE  NewestInv'
<1>t. TypeOK
  BY DEF NewestInv, ClaimInv
<1>n. /\ edited \in [Review -> Nat] /\ peak \in [Review -> Nat]
      /\ \A v \in Worker : crawl[v].got \in [Review -> Nat]
  BY <1>t, NewestNumbers
<1>1. UNCHANGED <<clock, edited, crawl, status, stacked>> /\ pc[w] = "insert"
  BY DEF InsertRawReviews, platform, rows
<1>2. (\A v \in Worker \ {w} : pc'[v] = pc[v]) /\ pc'[w] = "publish"
  BY <1>t DEF InsertRawReviews, Goto, TypeOK
<1>3. \A r \in Review : peak'[r] = Later(peak[r], crawl[w].got[r])
  BY DEF InsertRawReviews
<1>4. \A r \in Review : stored'[r] = IF crawl[w].got[r] = 0 THEN stored[r] ELSE crawl[w].got[r]
  BY DEF InsertRawReviews
<1>5. \A r \in Review : peak'[r] <= edited[r]
  BY <1>3, <1>n DEF NewestInv, Later
<1>6. ASSUME ~stacked
      PROVE  /\ \A r \in Review : stored'[r] = peak'[r]
             /\ \A v \in Worker \ {w} : pc[v] \notin {"fetch", "insert"}
  <2>1. \A r \in Review : stored'[r] = peak'[r]
    BY <1>1, <1>3, <1>4, <1>6, <1>n DEF NewestInv, Later
  <2>2. ASSUME NEW v \in Worker, pc[v] \in {"fetch", "insert"} PROVE v = w
    <3>1. pc[v] \in Crawling /\ pc[w] \in Crawling
      BY <1>1, <2>2 DEF Crawling
    <3>2. Target(v) \in Job /\ Target(w) \in Job
      BY <1>t, <1>1, <2>2, BusyHasTarget
    <3>3. Target(v) = Target(w)
      BY <1>6, <3>1, <3>2 DEF NewestInv, ClaimInv
    <3>4. QED
      BY <3>1, <3>3 DEF NewestInv, ClaimInv
  <2>3. QED
    BY <2>1, <2>2
<1>7. QED
  BY <1>1, <1>2, <1>5, <1>6 DEF NewestInv

LEMMA NewestStep == NewestInv /\ [Next /\ ReapsDead]_vars => NewestInv'
<1> SUFFICES ASSUME NewestInv, [Next /\ ReapsDead]_vars PROVE NewestInv'
  OBVIOUS
<1>c. ClaimInv'
  BY ClaimStep DEF NewestInv
<1>t. TypeOK
  BY DEF NewestInv, ClaimInv
<1>n. /\ clock \in Nat /\ edited \in [Review -> Nat] /\ peak \in [Review -> Nat]
      /\ stored \in [Review -> Nat]
      /\ \A w \in Worker : crawl[w].got \in [Review -> Nat]
  BY <1>t, NewestNumbers
<1>1. ASSUME NEW w \in Worker, InsertRawReviews(w) PROVE NewestInv'
  BY <1>1, <1>c, InsertKeepsNewest
<1>2. ASSUME NEW w \in Worker, ClaimJob(w) PROVE NewestInv'
  <2>1. UNCHANGED <<clock, edited, peak, stored>> /\ pc[w] = "claim"
    BY <1>2 DEF ClaimJob, platform, raws
  <2>2. \A v \in Worker \ {w} : pc'[v] = pc[v]
    BY <1>2, <1>t DEF ClaimJob, Goto, TypeOK
  <2>3. CASE pc'[w] = "fetch"
    <3>1. /\ \A v \in Worker \ {w} : crawl'[v] = crawl[v]
          /\ crawl'[w].got = crawl[w].got
      BY <1>2, <1>t, <2>3, ClaimEffect
    <3>2. /\ status' = [status EXCEPT ![Target(w)] = "running"]
          /\ stacked' = (stacked \/ \E k \in Job : status[k] = "running")
      BY <1>2, <1>t, <2>3 DEF ClaimJob, Goto, TypeOK
    <3>3. ASSUME ~stacked'
          PROVE  /\ ~stacked
                 /\ \A j, k \in Job : status'[j] = "running" /\ status'[k] = "running" => j = k
      BY <1>t, <3>2, <3>3 DEF TypeOK
    <3>4. QED
      BY <1>c, <2>1, <2>2, <2>3, <3>1, <3>3 DEF NewestInv
  <2>4. CASE UNCHANGED <<status, crawl, stacked>> /\ pc'[w] = "ack"
    BY <1>c, <2>1, <2>2, <2>4 DEF NewestInv
  <2>5. QED
    BY <1>2, <1>t, <2>3, <2>4 DEF ClaimJob, Goto, TypeOK
<1>3. CASE ~ \E w \in Worker : ClaimJob(w) \/ InsertRawReviews(w)
  <2>1. /\ \A j \in Job : status'[j] = "running" => status[j] = "running"
        /\ UNCHANGED stacked
    BY <1>3, <1>t, RunningOnlyByClaim
  <2>2. UNCHANGED <<peak, stored>>
    BY <1>3, ZenonT(40)
       DEF Next, vars, EditReview, CronDue, Age, AckTimeout, LoseLock, SchedulerStep,
       SchedulerFault, AcquireLeaderLock, Ping, ReapStaleJobs, LookForOpenJob, PlanJob,
       CreateJob, NoRowLeft, PublishCrawlJob, CrashScheduler, TickFails, WorkerStep,
       WorkerFault, Receive, FetchPage, FetchDone, PublishReviewRaw, FinishSucceeded,
       FinishFailed, GiveUp, Ack, Nak, Answer, CallFails, UnknownAdapter, CrashWorker, raws
  <2>3. ASSUME NEW q \in Review, EditReview(q) PROVE NewestInv'
    <3>1. UNCHANGED <<pc, crawl>> /\ clock' = clock + 1
      BY <2>3 DEF EditReview, workVars
    <3>2. \A r \in Review : edited[r] <= edited'[r] /\ edited'[r] <= clock'
                           /\ edited'[r] \in Nat
      BY <2>3, <1>n DEF EditReview, NewestInv
    <3>3. \A r \in Review : peak[r] <= edited'[r]
      BY <3>2, <1>n DEF NewestInv
    <3>4. \A w \in Worker, r \in Review : crawl[w].got[r] <= edited'[r]
      BY <3>2, <1>n DEF NewestInv
    <3>5. QED
      BY <1>c, <2>1, <2>2, <3>1, <3>2, <3>3, <3>4 DEF NewestInv
  <2>4. ASSUME UNCHANGED platform,
               NEW w \in Worker,
               \A v \in Worker \ {w} : pc'[v] = pc[v] /\ crawl'[v] = crawl[v],
               \A r \in Review : \/ crawl'[w].got[r] = 0
                                 \/ /\ crawl'[w].got[r] = crawl[w].got[r]
                                    /\ pc'[w] \in {"fetch", "insert"} =>
                                          pc[w] \in {"fetch", "insert"}
                                 \/ crawl'[w].got[r] = edited[r],
               pc'[w] \in {"idle", "claim"} => \A r \in Review : crawl'[w].got[r] = 0
        PROVE  NewestInv'
    <3>1. UNCHANGED <<clock, edited>>
      BY <2>4 DEF platform
    <3>2. \A r \in Review : 0 <= edited[r]
      BY <1>n
    <3>3. \A r \in Review : crawl'[w].got[r] <= edited[r]
      BY <2>4, <3>2, <1>n DEF NewestInv
    <3>4. ASSUME ~stacked, NEW r \in Review, pc'[w] \in {"fetch", "insert"},
                 crawl'[w].got[r] # 0
          PROVE  peak[r] <= crawl'[w].got[r]
      BY <2>4, <3>4, <1>n DEF NewestInv
    <3>5. QED
      BY <1>c, <2>1, <2>2, <2>4, <3>1, <3>3, <3>4 DEF NewestInv
  <2>5. ASSUME NEW w \in Worker, NEW j \in Job, Receive(w, j) PROVE NewestInv'
    <3>1. UNCHANGED platform /\ pc[w] = "idle"
      BY <2>5 DEF Receive
    <3>2. \A v \in Worker \ {w} : pc'[v] = pc[v] /\ crawl'[v] = crawl[v]
      BY <2>5, <1>t, ReceiveEffect DEF Receive, Goto, TypeOK
    <3>3. \A r \in Review : crawl'[w].got[r] = 0
      BY <2>5, <1>t, <3>1, ReceiveEffect DEF NewestInv
    <3>4. QED
      BY <2>4, <3>1, <3>2, <3>3
  <2>6. ASSUME NEW w \in Worker,
               \/ Ack(w) \/ Nak(w) \/ CrashWorker(w)
               \/ FinishSucceeded(w) \/ FinishFailed(w) \/ GiveUp(w)
        PROVE  NewestInv'
    <3>1. UNCHANGED platform /\ crawl' = [crawl EXCEPT ![w] = NoCrawl]
      BY <2>6 DEF Ack, Nak, Answer, CrashWorker, Leave, FinishSucceeded, FinishFailed,
         GiveUp, FinishJob
    <3>2. \A v \in Worker \ {w} : pc'[v] = pc[v]
      BY <2>6, <1>t DEF Ack, Nak, Answer, CrashWorker, Leave, FinishSucceeded,
         FinishFailed, GiveUp, Goto, TypeOK
    <3>3. /\ \A v \in Worker \ {w} : crawl'[v] = crawl[v]
          /\ \A r \in Review : crawl'[w].got[r] = 0
      BY <3>1, <1>t, ForgetEffect
    <3>4. QED
      BY <2>4, <3>1, <3>2, <3>3
  <2>7. ASSUME NEW w \in Worker, FetchPage(w) PROVE NewestInv'
    <3>1. UNCHANGED <<platform, pc>> /\ pc[w] = "fetch"
      BY <2>7 DEF FetchPage
    <3>2. \A v \in Worker \ {w} : crawl'[v] = crawl[v]
      BY <2>7, <1>t, FetchEffect
    <3>3. \A r \in Review : \/ crawl'[w].got[r] = edited[r]
                            \/ crawl'[w].got[r] = crawl[w].got[r]
      BY <2>7, <1>t, FetchEffect
    <3>4. QED
      BY <2>4, <3>1, <3>2, <3>3
  <2>8. ASSUME NEW w \in Worker, PublishReviewRaw(w) PROVE NewestInv'
    <3>1. UNCHANGED <<platform, pc>> /\ pc[w] = "publish"
      BY <2>8 DEF PublishReviewRaw
    <3>2. /\ \A v \in Worker \ {w} : crawl'[v] = crawl[v]
          /\ \A r \in Review : \/ crawl'[w].got[r] = 0
                                \/ crawl'[w].got[r] = crawl[w].got[r]
      BY <2>8, <1>t, PublishEffect
    <3>3. QED
      BY <2>4, <3>1, <3>2
  <2>9. ASSUME NEW w \in Worker, FetchDone(w) \/ CallFails(w) \/ UnknownAdapter(w)
        PROVE  NewestInv'
    <3>1. UNCHANGED <<platform, crawl>>
      BY <2>9 DEF FetchDone, CallFails, UnknownAdapter
    <3>2. \/ pc[w] = "fetch" /\ Goto(w, "insert")
          \/ \E l \in {"nak", "ack", "fail", "giveUp"} : Goto(w, l)
      BY <2>9 DEF FetchDone, CallFails, UnknownAdapter
    <3>3. /\ \A v \in Worker \ {w} : pc'[v] = pc[v]
          /\ pc'[w] \in {"fetch", "insert"} => pc[w] \in {"fetch", "insert"}
          /\ pc'[w] \notin {"idle", "claim"}
      BY <3>2, <1>t DEF Goto, TypeOK
    <3>4. QED
      BY <2>4, <3>1, <3>3
  <2>10. CASE UNCHANGED <<platform, workVars>>
    BY <1>c, <2>1, <2>2, <2>10 DEF NewestInv, platform, workVars
  <2>11. ASSUME \/ UNCHANGED vars \/ CronDue \/ LoseLock
                \/ (\E j \in Job : Age(j) \/ AckTimeout(j))
                \/ (\E s \in Scheduler : SchedulerStep(s) \/ SchedulerFault(s))
         PROVE  UNCHANGED <<platform, workVars>>
    BY <2>11 DEF vars, CronDue, LoseLock, Age, AckTimeout, SchedulerStep, SchedulerFault,
       AcquireLeaderLock, Ping, ReapStaleJobs, LookForOpenJob, PlanJob, CreateJob,
       NoRowLeft, PublishCrawlJob, CrashScheduler, TickFails
  <2>12. QED
    BY <1>3, <2>3, <2>5, <2>6, <2>7, <2>8, <2>9, <2>10, <2>11
       DEF Next, WorkerStep, WorkerFault
<1>4. QED
  BY <1>1, <1>2, <1>3

-------------------------------------------------------------------------------
(* What is announced is stored *)

\* A review whose present version was announced has that version in raw_reviews.
AnnouncedWasStored ==
    \A r \in announced : edited[r] # 0 /\ peak[r] = edited[r]

\* A worker that publishes has stored every present version it is going to name.
StoreInv ==
    /\ TypeOK
    /\ \A r \in Review : peak[r] <= edited[r] /\ edited[r] <= clock
    /\ \A w \in Worker, r \in Review :
          /\ crawl[w].got[r] <= edited[r]
          /\ pc[w] = "publish" /\ crawl[w].got[r] = edited[r] => peak[r] = edited[r]
    /\ AnnouncedWasStored

LEMMA StoreInit == Init => StoreInv
<1> SUFFICES ASSUME Init PROVE StoreInv
  OBVIOUS
<1>1. \A w \in Worker, r \in Review : crawl[w].got[r] = 0
  BY DEF Init, NoCrawl
<1>2. QED
  BY <1>1, InitType DEF Init, StoreInv, AnnouncedWasStored

\* What a step may do to the versions a worker holds: drop them, keep them, or
\* fetch the present ones; it begins to publish only by inserting them.
LEMMA HandStep ==
    ASSUME TypeOK, NEW w \in Worker, WorkerStep(w) \/ WorkerFault(w)
    PROVE  /\ \A v \in Worker \ {w} : pc'[v] = pc[v] /\ crawl'[v] = crawl[v]
           /\ \A r \in Review : \/ crawl'[w].got[r] = 0
                                \/ crawl'[w].got[r] = crawl[w].got[r]
                                \/ crawl'[w].got[r] = edited[r] /\ pc'[w] = "fetch"
           /\ pc'[w] = "publish" => pc[w] = "publish" \/ InsertRawReviews(w)
<1>1. /\ \A v \in Worker \ {w} : pc'[v] = pc[v]
      /\ pc'[w] = "publish" => pc[w] = "publish" \/ InsertRawReviews(w)
  BY ZenonT(40) DEF WorkerStep, WorkerFault, Receive, ClaimJob, FetchPage, FetchDone,
     InsertRawReviews, PublishReviewRaw, FinishSucceeded, FinishFailed, GiveUp, Ack,
     Nak, Answer, Leave, CallFails, UnknownAdapter, CrashWorker, Goto, TypeOK
<1> DEFINE Kept == /\ \A v \in Worker \ {w} : crawl'[v] = crawl[v]
                   /\ \A r \in Review : \/ crawl'[w].got[r] = 0
                                        \/ crawl'[w].got[r] = crawl[w].got[r]
                                        \/ crawl'[w].got[r] = edited[r] /\ pc'[w] = "fetch"
<1> SUFFICES Kept
  BY <1>1
<1>2. CASE FetchPage(w)
  <2>1. pc'[w] = "fetch"
    BY <1>2 DEF FetchPage
  <2>2. QED
    BY <1>2, <2>1, FetchEffect
<1>3. CASE PublishReviewRaw(w)
  BY <1>3, PublishEffect
<1>4. CASE ClaimJob(w)
  <2>1. pc'[w] = "fetch" \/ UNCHANGED crawl
    BY <1>4 DEF ClaimJob, Goto, TypeOK
  <2>2. QED
    BY <1>4, <2>1, ClaimEffect
<1>5. CASE \E j \in Job : Receive(w, j)
  BY <1>5, ReceiveEffect
<1>6. CASE \/ Ack(w) \/ Nak(w) \/ CrashWorker(w)
           \/ FinishSucceeded(w) \/ FinishFailed(w) \/ GiveUp(w)
  <2>1. crawl' = [crawl EXCEPT ![w] = NoCrawl]
    BY <1>6 DEF Ack, Nak, Answer, CrashWorker, Leave, FinishSucceeded, FinishFailed,
       GiveUp, FinishJob
  <2>2. QED
    BY <2>1, ForgetEffect
<1>7. CASE \/ FetchDone(w) \/ InsertRawReviews(w) \/ CallFails(w) \/ UnknownAdapter(w)
  BY <1>7 DEF FetchDone, InsertRawReviews, CallFails, UnknownAdapter
<1>8. QED
  BY <1>2, <1>3, <1>4, <1>5, <1>6, <1>7 DEF WorkerStep, WorkerFault

LEMMA StoreStep == StoreInv /\ [Next]_vars => StoreInv'
<1> SUFFICES ASSUME StoreInv, [Next]_vars PROVE StoreInv'
  OBVIOUS
<1>t. TypeOK /\ TypeOK'
  BY NextType DEF StoreInv
<1>n. /\ clock \in Nat /\ edited \in [Review -> Nat] /\ peak \in [Review -> Nat]
      /\ \A w \in Worker : crawl[w].got \in [Review -> Nat]
      /\ announced \in SUBSET Review
  BY <1>t, NewestNumbers DEF TypeOK
<1>1. ASSUME NEW q \in Review, EditReview(q) PROVE StoreInv'
  <2>1. /\ UNCHANGED <<peak, pc, crawl>> /\ clock' = clock + 1
        /\ edited' = [edited EXCEPT ![q] = clock + 1] /\ announced' = announced \ {q}
    BY <1>1 DEF EditReview, workVars
  <2>2. \A r \in Review : peak[r] <= edited'[r] /\ edited'[r] <= clock'
    BY <1>n, <2>1 DEF StoreInv
  <2>3. ASSUME NEW w \in Worker, NEW r \in Review
        PROVE  /\ crawl[w].got[r] <= edited'[r]
               /\ pc[w] = "publish" /\ crawl[w].got[r] = edited'[r] => peak[r] = edited'[r]
    <3>1. crawl[w].got[r] <= clock /\ crawl[w].got[r] <= edited[r] /\ edited[r] <= clock
      BY <1>n DEF StoreInv
    <3>2. CASE r = q
      BY <1>n, <2>1, <3>1, <3>2
    <3>3. CASE r # q
      BY <1>n, <2>1, <3>3 DEF StoreInv
    <3>4. QED
      BY <3>2, <3>3
  <2>4. AnnouncedWasStored'
    BY <1>n, <2>1 DEF StoreInv, AnnouncedWasStored
  <2>5. QED
    BY <1>t, <2>1, <2>2, <2>3, <2>4 DEF StoreInv
<1>2. ASSUME NEW w \in Worker, InsertRawReviews(w) PROVE StoreInv'
  <2>1. UNCHANGED <<clock, edited, crawl, announced>>
    BY <1>2 DEF InsertRawReviews, platform
  <2>2. \A v \in Worker \ {w} : pc'[v] = pc[v]
    BY <1>2, <1>t DEF InsertRawReviews, Goto, TypeOK
  <2>3. \A r \in Review : peak'[r] = Later(peak[r], crawl[w].got[r])
    BY <1>2 DEF InsertRawReviews
  <2>4. \A r \in Review : /\ peak'[r] <= edited[r]
                          /\ peak[r] = edited[r] => peak'[r] = edited[r]
                          /\ crawl[w].got[r] = edited[r] => peak'[r] = edited[r]
    BY <1>n, <2>3 DEF StoreInv, Later
  <2>5. AnnouncedWasStored'
    BY <1>n, <2>1, <2>4 DEF StoreInv, AnnouncedWasStored
  <2>6. QED
    BY <1>t, <2>1, <2>2, <2>4, <2>5 DEF StoreInv
<1>3. ASSUME NEW w \in Worker, WorkerStep(w) \/ WorkerFault(w), ~InsertRawReviews(w)
      PROVE  StoreInv'
  <2>1. UNCHANGED <<clock, edited>>
    BY <1>3 DEF WorkerStep, WorkerFault, Receive, ClaimJob, FetchPage, FetchDone,
       PublishReviewRaw, FinishSucceeded, FinishFailed, GiveUp, Ack, Nak, Answer,
       CallFails, UnknownAdapter, CrashWorker, platform
  <2>2. UNCHANGED peak
    BY <1>3 DEF WorkerStep, WorkerFault, Receive, ClaimJob, FetchPage, FetchDone,
       PublishReviewRaw, FinishSucceeded, FinishFailed, GiveUp, Ack, Nak, Answer,
       CallFails, UnknownAdapter, CrashWorker, raws
  <2>3. /\ \A v \in Worker \ {w} : pc'[v] = pc[v] /\ crawl'[v] = crawl[v]
        /\ \A r \in Review : \/ crawl'[w].got[r] = 0
                             \/ crawl'[w].got[r] = crawl[w].got[r]
                             \/ crawl'[w].got[r] = edited[r] /\ pc'[w] = "fetch"
        /\ pc'[w] = "publish" => pc[w] = "publish"
    BY <1>3, <1>t, HandStep
  <2>4. ASSUME NEW r \in Review
        PROVE  /\ crawl'[w].got[r] <= edited[r]
               /\ pc'[w] = "publish" /\ crawl'[w].got[r] = edited[r] => peak[r] = edited[r]
    BY <1>n, <2>3 DEF StoreInv
  <2>5. AnnouncedWasStored'
    <3>1. CASE PublishReviewRaw(w)
      <4>1. pc[w] = "publish" /\ \E r \in Review : /\ crawl[w].got[r] # 0
               /\ announced' = announced \cup {q \in {r} : crawl[w].got[q] = edited[q]}
        BY <3>1 DEF PublishReviewRaw
      <4>2. QED
        BY <1>n, <2>1, <2>2, <4>1 DEF StoreInv, AnnouncedWasStored
    <3>2. CASE ~PublishReviewRaw(w)
      <4>1. UNCHANGED announced
        BY <1>3, <3>2 DEF WorkerStep, WorkerFault, Receive, ClaimJob, FetchPage,
           FetchDone, FinishSucceeded, FinishFailed, GiveUp, Ack, Nak, Answer,
           CallFails, UnknownAdapter, CrashWorker, raws
      <4>2. QED
        BY <2>1, <2>2, <4>1 DEF StoreInv, AnnouncedWasStored
    <3>3. QED
      BY <3>1, <3>2
  <2>6. QED
    BY <1>t, <2>1, <2>2, <2>3, <2>4, <2>5 DEF StoreInv
<1>4. CASE UNCHANGED <<platform, raws, workVars>>
  BY <1>t, <1>4 DEF StoreInv, AnnouncedWasStored, platform, raws, workVars
<1>5. ASSUME \/ UNCHANGED vars \/ CronDue \/ LoseLock
             \/ (\E j \in Job : Age(j) \/ AckTimeout(j))
             \/ (\E s \in Scheduler : SchedulerStep(s) \/ SchedulerFault(s))
      PROVE  UNCHANGED <<platform, raws, workVars>>
  BY <1>5 DEF vars, CronDue, LoseLock, Age, AckTimeout, SchedulerStep, SchedulerFault,
     AcquireLeaderLock, Ping, ReapStaleJobs, LookForOpenJob, PlanJob, CreateJob,
     NoRowLeft, PublishCrawlJob, CrashScheduler, TickFails
<1>6. QED
  BY <1>1, <1>2, <1>3, <1>4, <1>5 DEF Next

\* InsertRawReviews comes before PublishReviewRaw: whoever is told of the present
\* version of a review finds it in raw_reviews, though crawls overlap, time out,
\* crash and are repeated in any order.
THEOREM AnnouncementsAreStored == Spec => []AnnouncedWasStored
<1>1. StoreInv => AnnouncedWasStored
  BY DEF StoreInv
<1>2. QED
  BY <1>1, StoreInit, StoreStep, PTL DEF Spec

-------------------------------------------------------------------------------
(* When no crawl outlasts runningTimeout, the reaper fails abandoned jobs only *)

\* A job that is being crawled is never due for the reaper.
FreshInv == \A w \in Worker : pc[w] \in Crawling => ~aged[Target(w)]

\* A worker comes to a crawling step from another one, or by claiming the job, and
\* keeps its delivery.
LEMMA WorkerGoes ==
    ASSUME TypeOK, NEW w \in Worker, WorkerStep(w) \/ WorkerFault(w), pc'[w] \in Crawling
    PROVE  UNCHANGED job /\ (pc[w] \in Crawling \/ ClaimJob(w))
<1>t. pc \in [Worker -> Crawling \cup {"idle", "claim", "ack", "nak"}]
  BY DEF TypeOK
<1>g. \A l : Goto(w, l) => pc'[w] = l
  BY <1>t DEF Goto
<1>0. "idle" \notin Crawling /\ "claim" \notin Crawling /\ "ack" \notin Crawling /\ "nak" \notin Crawling
  BY DEF Crawling
<1>1. ~ (\E j \in Job : Receive(w, j))
  BY <1>g, <1>0 DEF Receive
<1>2. ~ Leave(w)
  BY <1>g, <1>0 DEF Leave
<1>3. ~ Ack(w) /\ ~ Nak(w) /\ ~ CrashWorker(w)
  BY <1>2 DEF Ack, Nak, Answer, CrashWorker
<1>4. CASE ClaimJob(w)
  BY <1>4 DEF ClaimJob
<1>5. CASE FetchPage(w)
  BY <1>5 DEF FetchPage, Crawling
<1>6. CASE FetchDone(w)
  BY <1>6 DEF FetchDone, Crawling
<1>7. CASE InsertRawReviews(w)
  BY <1>7 DEF InsertRawReviews, Crawling
<1>8. CASE PublishReviewRaw(w)
  BY <1>8 DEF PublishReviewRaw, Crawling
<1>9. CASE FinishSucceeded(w)
  BY <1>9 DEF FinishSucceeded, Crawling
<1>10. CASE FinishFailed(w)
  BY <1>10 DEF FinishFailed, Crawling
<1>11. CASE GiveUp(w)
  BY <1>11 DEF GiveUp, Crawling
<1>12. CASE CallFails(w)
  <2>1. pc[w] # "claim"
    BY <1>12, <1>g, <1>0 DEF CallFails
  <2>2. QED
    BY <1>12, <2>1 DEF CallFails, Crawling
<1>13. CASE UnknownAdapter(w)
  BY <1>13 DEF UnknownAdapter, Crawling
<1>14. QED
  BY <1>1, <1>3, <1>4, <1>5, <1>6, <1>7, <1>8, <1>9, <1>10, <1>11, <1>12, <1>13
     DEF WorkerStep, WorkerFault

LEMMA FreshStep == ~SlowCrawl /\ ClaimInv /\ FreshInv /\ [Next]_vars => FreshInv'
<1> SUFFICES ASSUME ~SlowCrawl, ClaimInv, FreshInv, [Next]_vars PROVE FreshInv'
  OBVIOUS
<1>t. TypeOK
  BY DEF ClaimInv
<1>j. \A w \in Worker : pc[w] \in Crawling => Target(w) \in Job
  BY <1>t, BusyHasTarget DEF Crawling
<1>1. ASSUME NEW j \in Job, Age(j) PROVE FreshInv'
  <2>1. UNCHANGED <<pc, job>> /\ aged' = [aged EXCEPT ![j] = TRUE]
    BY <1>1 DEF Age, workVars
  <2>2. \A w \in Worker : pc[w] \in Crawling => Target(w) # j
    BY <1>1 DEF Age, Crawlers, Target, ClaimInv
  <2>3. QED
    BY <1>t, <1>j, <2>1, <2>2 DEF FreshInv, Target, TypeOK
<1>2. ASSUME NEW s \in Scheduler, ReapStaleJobs(s) \/ \E j \in Job : CreateJob(s, j)
      PROVE  FreshInv'
  <2>1. UNCHANGED <<pc, job>>
    BY <1>2 DEF ReapStaleJobs, CreateJob, workVars
  <2>2. \A j \in Job : ~aged[j] => ~aged'[j]
    BY <1>2, <1>t DEF ReapStaleJobs, CreateJob, TypeOK
  <2>3. QED
    BY <1>j, <2>1, <2>2 DEF FreshInv, Target
<1>3. ASSUME NEW w \in Worker, WorkerStep(w) \/ WorkerFault(w) PROVE FreshInv'
  <2>1. \A v \in Worker \ {w} : pc'[v] = pc[v] /\ Target(v)' = Target(v)
    <3>1. \A v \in Worker \ {w} : pc'[v] = pc[v]
      BY <1>3, <1>t, ZenonT(40)
         DEF WorkerStep, WorkerFault, Receive, ClaimJob, FetchPage, FetchDone,
         InsertRawReviews, PublishReviewRaw, FinishSucceeded, FinishFailed, GiveUp, Ack,
         Nak, Answer, Leave, CallFails, UnknownAdapter, CrashWorker, Goto, TypeOK
    <3>2. \A v \in Worker \ {w} : job'[v] = job[v]
      BY <1>3, <1>t DEF WorkerStep, WorkerFault, Receive, ClaimJob, FetchPage, FetchDone,
         InsertRawReviews, PublishReviewRaw, FinishSucceeded, FinishFailed, GiveUp, Ack,
         Nak, Answer, Leave, CallFails, UnknownAdapter, CrashWorker, TypeOK
    <3>3. QED
      BY <3>1, <3>2 DEF Target
  <2>2. \/ UNCHANGED aged
        \/ pc[w] = "claim" /\ aged' = [aged EXCEPT ![Target(w)] = FALSE]
    BY <1>3 DEF WorkerStep, WorkerFault, Receive, ClaimJob, FetchPage, FetchDone,
       InsertRawReviews, PublishReviewRaw, FinishSucceeded, FinishFailed, GiveUp, Ack,
       Nak, Answer, CallFails, UnknownAdapter, CrashWorker, rows
  <2>3. \A j \in Job : ~aged[j] => ~aged'[j]
    BY <1>t, <2>2 DEF TypeOK
  <2>4. pc'[w] \in Crawling => Target(w)' = Target(w)
    BY <1>3, <1>t, WorkerGoes DEF Target
  <2>5. pc'[w] \in Crawling => Target(w) \in Job /\ ~aged'[Target(w)]
    <3>1. CASE ClaimJob(w)
      <4>1. pc[w] = "claim" /\ Target(w) \in Job
        BY <3>1, <1>t, BusyHasTarget DEF ClaimJob
      <4>2. CASE status[Target(w)] \in {"pending", "failed"}
        <5>1. aged' = [aged EXCEPT ![Target(w)] = FALSE]
          BY <3>1, <4>2 DEF ClaimJob
        <5>2. QED
          BY <1>t, <4>1, <5>1 DEF TypeOK
      <4>3. CASE ~(status[Target(w)] \in {"pending", "failed"})
        <5>1. pc'[w] = "ack"
          BY <3>1, <4>3, <1>t DEF ClaimJob, Goto, TypeOK
        <5>2. QED
          BY <5>1 DEF Crawling
      <4>4. QED
        BY <4>2, <4>3
    <3>2. CASE ~ClaimJob(w)
      <4>1. pc'[w] \in Crawling => pc[w] \in Crawling
        BY <1>3, <1>t, <3>2, WorkerGoes
      <4>2. QED
        BY <1>j, <2>3, <4>1 DEF FreshInv
    <3>3. QED
      BY <3>1, <3>2
  <2>6. QED
    BY <1>j, <2>1, <2>3, <2>4, <2>5 DEF FreshInv
<1>4. CASE UNCHANGED <<pc, job, aged>>
  BY <1>4 DEF FreshInv, Target
<1>5. ASSUME \/ UNCHANGED vars \/ CronDue \/ LoseLock
             \/ (\E r \in Review : EditReview(r)) \/ (\E j \in Job : AckTimeout(j))
             \/ \E s \in Scheduler :
                   \/ AcquireLeaderLock(s) \/ Ping(s) \/ LookForOpenJob(s) \/ PlanJob(s)
                   \/ NoRowLeft(s) \/ PublishCrawlJob(s) \/ SchedulerFault(s)
      PROVE  UNCHANGED <<pc, job, aged>>
  BY <1>5 DEF vars, CronDue, LoseLock, EditReview, AckTimeout, AcquireLeaderLock, Ping,
     LookForOpenJob, PlanJob, NoRowLeft, PublishCrawlJob, SchedulerFault,
     CrashScheduler, TickFails, rows, workVars
<1>6. QED
  BY <1>1, <1>2, <1>3, <1>4, <1>5 DEF Next, SchedulerStep

\* "5 minutes running means the worker is gone" (cmd/scheduler/main.go) is right
\* as long as a crawl ends within them.
THEOREM ReapedIsDead == ~SlowCrawl => (Spec => [][ReapsDead]_vars)
<1> SUFFICES ASSUME ~SlowCrawl PROVE Spec => [][ReapsDead]_vars
  OBVIOUS
<1>1. Init => ClaimInv /\ FreshInv
  BY ClaimInit DEF Init, FreshInv, Crawling
<1>2. ClaimInv /\ FreshInv => ReapsDead
  BY DEF ClaimInv, TypeOK, FreshInv, ReapsDead, ReapStaleJobs, Stale, Crawlers, Target
<1>3. ClaimInv /\ FreshInv /\ [Next]_vars => ClaimInv' /\ FreshInv'
  BY <1>2, ClaimStep, FreshStep
<1>4. QED
  BY <1>1, <1>2, <1>3, PTL DEF Spec

-------------------------------------------------------------------------------
(* What the jobs keep *)

\* One worker at a time is past the claim of a job, and the row says running.
CrawlingIsExclusive ==
    \A v, w \in Worker :
        pc[v] \in Crawling =>
            /\ status[Target(v)] = "running"
            /\ pc[w] \in Crawling /\ Target(v) = Target(w) => v = w

\* However long a crawl takes: as long as the reaper happens to fail abandoned
\* jobs only, a job has one crawler and follows its diagram, though FinishJob
\* looks at no status, and no version is rolled back unless two jobs overlap.
THEOREM OrderlyUnlessTheLivingAreReaped ==
    Spec /\ [][ReapsDead]_vars =>
        []CrawlingIsExclusive /\ JobsFollowTheirDiagram /\ []RollbackNeedsStacking
<1>1. NewestInv => CrawlingIsExclusive /\ RollbackNeedsStacking
  <2>1. NewestInv => \A w \in Worker : pc[w] \in Crawling => Target(w) \in Job
    BY BusyHasTarget DEF NewestInv, ClaimInv, Crawling
  <2>2. QED
    BY <2>1 DEF NewestInv, ClaimInv, CrawlingIsExclusive, RollbackNeedsStacking
<1>2. NewestInv /\ [Next]_vars => [Diagram]_vars
  BY DiagramStep DEF NewestInv
<1>3. NewestInv /\ [Next /\ ReapsDead]_vars => NewestInv'
  BY NewestStep
<1>4. Spec /\ [][ReapsDead]_vars => []CrawlingIsExclusive /\ [][Diagram]_vars
                                    /\ []RollbackNeedsStacking
  BY <1>1, <1>2, <1>3, NewestInit, PTL DEF Spec
<1>5. [][Diagram]_vars => JobsFollowTheirDiagram
  BY DEF JobsFollowTheirDiagram, Diagram
<1>6. QED
  BY <1>4, <1>5, PTL

\* Though FinishJob looks at no status: a job is finished by its one crawler.
THEOREM JobsFollowDiagram == ~SlowCrawl => (Spec => JobsFollowTheirDiagram)
BY ReapedIsDead, OrderlyUnlessTheLivingAreReaped, PTL

\* The missing comparison of times in InsertRawReviews does no harm as long as no
\* two jobs of the location run together.
THEOREM NoRollbackWithoutStacking == ~SlowCrawl => (Spec => []RollbackNeedsStacking)
BY ReapedIsDead, OrderlyUnlessTheLivingAreReaped, PTL
===============================================================================

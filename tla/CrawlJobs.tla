------------------------------- MODULE CrawlJobs -------------------------------
(***************************************************************************)
(* The crawling of one location of one source: schedulers that elect a     *)
(* leader and create jobs, workers that claim a job and bring what the     *)
(* platform has published since its cursor into raw_reviews.               *)
(*                                                                         *)
(*   backend/cmd/scheduler/main.go            election, reaping, dispatch  *)
(*   backend/cmd/worker/main.go               runJob                       *)
(*   backend/internal/adapter/google          Fetch                        *)
(*   backend/internal/store/store.go          crawl_jobs, raw_reviews      *)
(*   backend/internal/queue/{nats,sqs}.go     delivery, retry, dead letter *)
(*                                                                         *)
(* No query looks at the jobs of two locations together, so one is enough. *)
(* A version of a review is named by its updateTime, which is part of the  *)
(* payload and so of its content hash.                                     *)
(***************************************************************************)
EXTENDS Naturals, FiniteSets

CONSTANTS
    Job,            \* rows of crawl_jobs; a row nobody can reach is used again
    Worker,         \* concurrent executions of runJob
    Scheduler,      \* scheduler processes
    Review,         \* the location's reviews on the platform
    MaxDeliver,     \* queue.MaxDeliver
    MaxPages,       \* google.maxPages
    MaxTime,        \* bound of the model: how often reviews are written
    FaultBudget,    \* bound of the model: how many faults may still happen
    SlowCrawl       \* may a crawl outlast runningTimeout?

ASSUME CrawlAssumption ==
    /\ "none" \notin Job \cup Scheduler
    /\ MaxDeliver \in Nat \ {0}
    /\ MaxPages \in Nat \ {0}
    /\ MaxTime \in Nat
    /\ FaultBudget \in Nat
    /\ SlowCrawl \in BOOLEAN

VARIABLES
    clock,          \* the platform's clock: the time of the last update
    edited,         \* updateTime of each review, 0 before it is written
    status,         \* crawl_jobs.status, "none" before the row exists
    cursor,         \* crawl_jobs.cursor_state
    aged,           \* started_at or created_at is past the reaper's limit
    later,          \* the rows that were finished after each row
    due,            \* cron's next time after the last scheduled_at has come
    stored,         \* the version in each review's last row of raw_reviews
    announced,      \* reviews whose present version was announced (review.raw)
    queue,          \* the message of each job
    lock,           \* who holds the advisory lock
    spc,            \* where each scheduler is in leadLoop
    made,           \* the job it has created and not yet published
    plan,           \* the cursor it has read for the job it will create
    pc,             \* where each worker is in runJob
    job,            \* the delivery it handles
    crawl,          \* what its Fetch has found so far
    peak,           \* history: the newest version ever stored of each review
    passed,         \* history: reviews whose present version was cut off
    stacked,        \* history: a job was claimed while another was running
    split,          \* history: a leader has lost the lock
    faults          \* faults that may still happen

platform  == <<clock, edited>>
rows      == <<status, cursor, aged, later>>
raws      == <<stored, announced, peak, passed>>
schedVars == <<lock, spc, made, plan, split>>
workVars  == <<pc, job, crawl>>
vars == <<platform, rows, due, raws, queue, schedVars, workVars, stacked, faults>>

Time == 0..MaxTime

Status == {"none", "pending", "running", "succeeded", "failed", "dead_letter"}

Open == {"pending", "running"}

FreeSlot == [st |-> "free", n |-> 0]

\* n counts the deliveries so far: one is left while the message is ready.
Slot == {FreeSlot} \cup [st : {"ready"}, n : 0..(MaxDeliver - 1)]
                  \cup [st : {"held"}, n : 1..MaxDeliver]

NoJob == [id |-> "none", attempt |-> 0]

Delivery == [id : Job, attempt : 1..MaxDeliver]

\* since: the cursor the crawl starts from.  newest: the cursor it will leave.
\* edge: pages have been read down to here.  got: what is to be stored, and
\* then announced, of each review.
NoCrawl == [since |-> 0, newest |-> 0, edge |-> 0, page |-> 0,
            got |-> [r \in Review |-> 0]]

Crawl == [since : Time, newest : Time, edge : 0..(MaxTime + 1),
          page : 0..MaxPages, got : [Review -> Time]]

\* Between a successful claim and the write of the job's result.
Crawling == {"fetch", "insert", "publish", "fail", "giveUp"}

-------------------------------------------------------------------------------
(* Helpers *)

Crawlers(j) == {w \in Worker : pc[w] \in Crawling /\ job[w].id = j}

Target(w) == job[w].id

Goto(w, l) == pc' = [pc EXCEPT ![w] = l]

SGoto(s, l) == spc' = [spc EXCEPT ![s] = l]

Fault == faults > 0 /\ faults' = faults - 1

Later(a, b) == IF a < b THEN b ELSE a

Succeeded == {j \in Job : status[j] = "succeeded"}

\* No message and no handler refers to the row any more.
Settled(j) == queue[j] = FreeSlot /\ \A w \in Worker : Target(w) # j

\* No query can return the row any more either, so its slot may be used again:
\* it is closed, and if it succeeded, a settled row has succeeded after it.
Reusable(j) ==
    /\ status[j] \notin Open
    /\ Settled(j)
    /\ \A s \in Scheduler : made[s] # j
    /\ j \in Succeeded => \E k \in Succeeded \ {j} : k \in later[j] /\ Settled(k)

-------------------------------------------------------------------------------
(* The platform and the clock *)

\* A customer writes a review or edits it.
EditReview(r) ==
    /\ clock < MaxTime
    /\ clock' = clock + 1
    /\ edited' = [edited EXCEPT ![r] = clock + 1]
    /\ announced' = announced \ {r}
    /\ passed' = passed \ {r}
    /\ UNCHANGED <<rows, due, stored, peak, queue, schedVars, workVars, stacked, faults>>

\* dueNow becomes true: cron's next time after the last job has come.
CronDue ==
    /\ ~due
    /\ due' = TRUE
    /\ UNCHANGED <<platform, rows, raws, queue, schedVars, workVars, stacked, faults>>

\* Ten minutes pending, or five minutes running.  Under ~SlowCrawl a crawl
\* with a live worker is over before that.
Age(j) ==
    /\ ~aged[j]
    /\ \/ status[j] = "pending"
       \/ status[j] = "running" /\ (SlowCrawl \/ Crawlers(j) = {})
    /\ aged' = [aged EXCEPT ![j] = TRUE]
    /\ UNCHANGED <<platform, status, cursor, later, due, raws, queue, schedVars,
                   workVars, stacked, faults>>

-------------------------------------------------------------------------------
(* The scheduler: leadership *)

AcquireLeaderLock(s) ==
    /\ spc[s] = "standby"
    /\ lock = "none"
    /\ lock' = s
    /\ SGoto(s, "ping")
    /\ UNCHANGED <<platform, rows, due, raws, queue, made, plan, split, workVars,
                   stacked, faults>>

\* The connection breaks: the server releases the lock, the leader learns of it
\* when it pings.
LoseLock ==
    /\ lock # "none"
    /\ lock' = "none"
    /\ split' = TRUE
    /\ Fault
    /\ UNCHANGED <<platform, rows, due, raws, queue, spc, made, plan, workVars, stacked>>

Ping(s) ==
    /\ spc[s] = "ping"
    /\ SGoto(s, IF lock = s THEN "reap" ELSE "standby")
    /\ UNCHANGED <<platform, rows, due, raws, queue, lock, made, plan, split,
                   workVars, stacked, faults>>

\* The process dies, or is shut down, and with it its connection.
CrashScheduler(s) ==
    /\ spc[s] # "standby"
    /\ SGoto(s, "standby")
    /\ lock' = IF lock = s THEN "none" ELSE lock
    /\ made' = [made EXCEPT ![s] = "none"]
    /\ plan' = [plan EXCEPT ![s] = 0]
    /\ Fault
    /\ UNCHANGED <<platform, rows, due, raws, queue, split, workVars, stacked>>

-------------------------------------------------------------------------------
(* The scheduler: a tick, with its one location *)

\* Mutant: orphaned pending jobs are not reaped.
StaleRunning == {j \in Job : status[j] = "running" /\ aged[j]}

Stale == {j \in Job : status[j] \in Open /\ aged[j]}

ReapStaleJobs(s) ==
    /\ spc[s] = "reap"
    /\ status' = [j \in Job |-> IF j \in Stale THEN "failed" ELSE status[j]]
    /\ aged' = [j \in Job |-> j \notin Stale /\ aged[j]]
    /\ SGoto(s, "open")
    /\ UNCHANGED <<platform, cursor, later, due, raws, queue, lock, made, plan,
                   split, workVars, stacked, faults>>

\* Mutant: a job that waits for a worker does not count.
HasRunningJob == \E j \in Job : status[j] = "running"

HasOpenJob == \E j \in Job : status[j] \in Open

\* The previous job is not over: nothing is put on top of it.
LookForOpenJob(s) ==
    /\ spc[s] = "open"
    /\ SGoto(s, IF HasOpenJob THEN "ping" ELSE "plan")
    /\ UNCHANGED <<platform, rows, due, raws, queue, lock, made, plan, split,
                   workVars, stacked, faults>>

\* The cursor of the row that succeeded last.
LastSucceededCursor ==
    LET last == {j \in Succeeded : Succeeded \cap later[j] = {}}
    IN  IF last = {} THEN 0 ELSE cursor[CHOOSE j \in last : TRUE]

PlanJob(s) ==
    /\ spc[s] = "plan"
    /\ IF due
       THEN SGoto(s, "create") /\ plan' = [plan EXCEPT ![s] = LastSucceededCursor]
       ELSE SGoto(s, "ping") /\ UNCHANGED plan
    /\ UNCHANGED <<platform, rows, due, raws, queue, lock, made, split, workVars,
                   stacked, faults>>

CreateJob(s, j) ==
    /\ spc[s] = "create"
    /\ Reusable(j)
    /\ status' = [status EXCEPT ![j] = "pending"]
    /\ cursor' = [cursor EXCEPT ![j] = plan[s]]
    /\ aged' = [aged EXCEPT ![j] = FALSE]
    /\ later' = [k \in Job |-> IF k = j THEN {} ELSE later[k] \ {j}]
    /\ due' = FALSE
    /\ made' = [made EXCEPT ![s] = j]
    /\ plan' = [plan EXCEPT ![s] = 0]
    /\ SGoto(s, "publish")
    /\ UNCHANGED <<platform, raws, queue, lock, split, workVars, stacked, faults>>

\* Bound of the model: without a row to use, the tick is given up.
NoRowLeft(s) ==
    /\ spc[s] = "create"
    /\ \A j \in Job : ~Reusable(j)
    /\ plan' = [plan EXCEPT ![s] = 0]
    /\ SGoto(s, "ping")
    /\ UNCHANGED <<platform, rows, due, raws, queue, lock, made, split, workVars,
                   stacked, faults>>

PublishCrawlJob(s) ==
    /\ spc[s] = "publish"
    /\ queue' = [queue EXCEPT ![made[s]] = [st |-> "ready", n |-> 0]]
    /\ made' = [made EXCEPT ![s] = "none"]
    /\ SGoto(s, "ping")
    /\ UNCHANGED <<platform, rows, due, raws, lock, plan, split, workVars, stacked, faults>>

\* A failed query or publish: the location is skipped until the next tick, but
\* a failed reaping only until the dispatch that follows it.
TickFails(s) ==
    /\ spc[s] \in {"reap", "open", "plan", "create", "publish"}
    /\ SGoto(s, IF spc[s] = "reap" THEN "open" ELSE "ping")
    /\ made' = [made EXCEPT ![s] = "none"]
    /\ plan' = [plan EXCEPT ![s] = 0]
    /\ Fault
    /\ UNCHANGED <<platform, rows, due, raws, queue, lock, split, workVars, stacked>>

SchedulerStep(s) ==
    \/ AcquireLeaderLock(s) \/ Ping(s) \/ ReapStaleJobs(s) \/ LookForOpenJob(s)
    \/ PlanJob(s) \/ (\E j \in Job : CreateJob(s, j)) \/ NoRowLeft(s)
    \/ PublishCrawlJob(s)

SchedulerFault(s) == CrashScheduler(s) \/ TickFails(s)

-------------------------------------------------------------------------------
(* The queue, seen from the workers *)

\* Mutant: redelivered without a limit.
RequeueForever(j) == [queue EXCEPT ![j] = [st |-> "ready", n |-> @.n]]

\* Delivered again unless the deliveries are used up.
Requeue(j) == [queue EXCEPT ![j] =
                 IF @.n < MaxDeliver THEN [st |-> "ready", n |-> @.n] ELSE FreeSlot]

IsCurrent(w) == queue[Target(w)] = [st |-> "held", n |-> job[w].attempt]

\* The message is delivered, and the handler begins with GetJob.
Receive(w, j) ==
    /\ pc[w] = "idle"
    /\ queue[j].st = "ready"
    /\ queue' = [queue EXCEPT ![j] = [st |-> "held", n |-> @.n + 1]]
    /\ job' = [job EXCEPT ![w] = [id |-> j, attempt |-> queue[j].n + 1]]
    /\ crawl' = [crawl EXCEPT ![w].since = cursor[j]]
    /\ Goto(w, "claim")
    /\ UNCHANGED <<platform, rows, due, raws, schedVars, stacked, faults>>

\* AckWait runs out, whether or not the worker is alive.
AckTimeout(j) ==
    /\ queue[j].st = "held"
    /\ queue' = Requeue(j)
    /\ UNCHANGED <<platform, rows, due, raws, schedVars, workVars, stacked, faults>>

Leave(w) ==
    /\ Goto(w, "idle")
    /\ job' = [job EXCEPT ![w] = NoJob]
    /\ crawl' = [crawl EXCEPT ![w] = NoCrawl]

\* The handler returned.  A late answer, to a delivery that is no longer the
\* latest, may also be ignored.
Answer(w, q) ==
    /\ queue' \in {q} \cup (IF IsCurrent(w) THEN {} ELSE {queue})
    /\ Leave(w)
    /\ UNCHANGED <<platform, rows, due, raws, schedVars, stacked, faults>>

Ack(w) ==
    /\ pc[w] = "ack"
    /\ Answer(w, [queue EXCEPT ![Target(w)] = FreeSlot])

\* Nak below MaxDeliver, Term at it; nothing to do if the message is not held.
Nak(w) ==
    /\ pc[w] = "nak"
    /\ Answer(w, IF queue[Target(w)].st = "held" THEN Requeue(Target(w)) ELSE queue)

-------------------------------------------------------------------------------
(* The worker: runJob *)

\* Mutant: only a running job is refused, not one that is over.
ClaimUnlessRunning(w) ==
    /\ pc[w] = "claim"
    /\ LET j == Target(w)
       IN  IF status[j] # "running"
           THEN /\ status' = [status EXCEPT ![j] = "running"]
                /\ aged' = [aged EXCEPT ![j] = FALSE]
                /\ crawl' = [crawl EXCEPT ![w].newest = crawl[w].since,
                                          ![w].edge = MaxTime + 1]
                /\ stacked' = (stacked \/ \E k \in Job : status[k] = "running")
                /\ Goto(w, "fetch")
           ELSE /\ Goto(w, "ack")
                /\ UNCHANGED <<status, aged, crawl, stacked>>
    /\ UNCHANGED <<platform, cursor, later, due, raws, queue, schedVars, job, faults>>

ClaimJob(w) ==
    /\ pc[w] = "claim"
    /\ LET j == Target(w)
       IN  IF status[j] \in {"pending", "failed"}
           THEN /\ status' = [status EXCEPT ![j] = "running"]
                /\ aged' = [aged EXCEPT ![j] = FALSE]
                /\ crawl' = [crawl EXCEPT ![w].newest = crawl[w].since,
                                          ![w].edge = MaxTime + 1]
                /\ stacked' = (stacked \/ \E k \in Job : status[k] = "running")
                /\ Goto(w, "fetch")
           ELSE /\ Goto(w, "ack")
                /\ UNCHANGED <<status, aged, crawl, stacked>>
    /\ UNCHANGED <<platform, cursor, later, due, raws, queue, schedVars, job, faults>>

\* What the pages still to be read would add.
Unread(w) == {r \in Review : crawl[w].since < edited[r] /\ edited[r] < crawl[w].edge}

\* Pages come in the order of updateTime, the newest first, each going on below
\* the one before; a page ends with some review, and the loop ends with the
\* first review that is not after the cursor.
FetchPage(w) ==
    /\ pc[w] = "fetch"
    /\ crawl[w].page < MaxPages
    /\ \E top, last \in Unread(w) :
          /\ \A r \in Unread(w) : edited[r] <= edited[top]
          /\ crawl' = [crawl EXCEPT
                ![w].newest = Later(@, edited[top]),
                ![w].edge = edited[last],
                ![w].page = @ + 1,
                ![w].got = [r \in Review |->
                              IF r \in Unread(w) /\ edited[last] <= edited[r]
                              THEN edited[r] ELSE @[r]]]
    /\ UNCHANGED <<platform, rows, due, raws, queue, schedVars, pc, job, stacked, faults>>

\* Everything since the cursor has been read, or the page cap is hit: then the
\* oldest reviews stay unread, and the cursor passes over them.
FetchDone(w) ==
    /\ pc[w] = "fetch"
    /\ Unread(w) = {} \/ crawl[w].page = MaxPages
    /\ passed' = passed \cup Unread(w)
    /\ Goto(w, "insert")
    /\ UNCHANGED <<platform, rows, due, stored, announced, peak, queue, schedVars,
                   job, crawl, stacked, faults>>

\* One transaction.  A version that is not the one in the review's last row
\* becomes its last row, whichever of the two is the newer one.
InsertRawReviews(w) ==
    /\ pc[w] = "insert"
    /\ LET got == crawl[w].got
       IN  /\ stored' = [r \in Review |-> IF got[r] = 0 THEN stored[r] ELSE got[r]]
           /\ peak' = [r \in Review |-> Later(peak[r], got[r])]
    /\ Goto(w, "publish")
    /\ UNCHANGED <<platform, rows, due, announced, passed, queue, schedVars, job,
                   crawl, stacked, faults>>

\* New rows and known ones alike, in the order of the fetch.
PublishReviewRaw(w) ==
    /\ pc[w] = "publish"
    /\ LET got == crawl[w].got
       IN  \E r \in Review :
             /\ got[r] # 0
             /\ \A q \in Review : got[q] <= got[r]
             /\ announced' = announced \cup {q \in {r} : got[q] = edited[q]}
             /\ crawl' = [crawl EXCEPT ![w].got[r] = 0]
    /\ UNCHANGED <<platform, rows, due, stored, peak, passed, queue, schedVars, pc,
                   job, stacked, faults>>

\* UPDATE ... WHERE id = $1: the row's present status is not looked at.  What
\* was fetched is of no use after it.
FinishJob(w, s, c) ==
    /\ crawl' = [crawl EXCEPT ![w] = NoCrawl]
    /\ status' = [status EXCEPT ![Target(w)] = s]
    /\ cursor' = [cursor EXCEPT ![Target(w)] = c]
    /\ later' = [k \in Job |-> IF k = Target(w) THEN {} ELSE later[k] \cup {Target(w)}]

\* Mutant: the cursor is the time of the crawl, not that of the newest version.
FinishAtPresent(w) ==
    /\ pc[w] = "publish"
    /\ \A r \in Review : crawl[w].got[r] = 0
    /\ FinishJob(w, "succeeded", clock)
    /\ Goto(w, "ack")
    /\ UNCHANGED <<platform, aged, due, raws, queue, schedVars, job, stacked, faults>>

FinishSucceeded(w) ==
    /\ pc[w] = "publish"
    /\ \A r \in Review : crawl[w].got[r] = 0
    /\ FinishJob(w, "succeeded", crawl[w].newest)
    /\ Goto(w, "ack")
    /\ UNCHANGED <<platform, aged, due, raws, queue, schedVars, job, stacked, faults>>

\* Mutant: a failed job keeps the cursor its fetch has reached.
FinishFailedAhead(w) ==
    /\ pc[w] = "fail"
    /\ FinishJob(w, IF job[w].attempt >= MaxDeliver THEN "dead_letter" ELSE "failed",
                 crawl[w].newest)
    /\ Goto(w, "nak")
    /\ UNCHANGED <<platform, aged, due, raws, queue, schedVars, job, stacked, faults>>

\* The last delivery's failure is a dead letter.
FinishFailed(w) ==
    /\ pc[w] = "fail"
    /\ FinishJob(w, IF job[w].attempt >= MaxDeliver THEN "dead_letter" ELSE "failed",
                 crawl[w].since)
    /\ Goto(w, "nak")
    /\ UNCHANGED <<platform, aged, due, raws, queue, schedVars, job, stacked, faults>>

GiveUp(w) ==
    /\ pc[w] = "giveUp"
    /\ FinishJob(w, "dead_letter", crawl[w].since)
    /\ Goto(w, "ack")
    /\ UNCHANGED <<platform, aged, due, raws, queue, schedVars, job, stacked, faults>>

WorkerStep(w) ==
    \/ \E j \in Job : Receive(w, j)
    \/ ClaimJob(w) \/ FetchPage(w) \/ FetchDone(w) \/ InsertRawReviews(w)
    \/ PublishReviewRaw(w) \/ FinishSucceeded(w) \/ FinishFailed(w) \/ GiveUp(w)
    \/ Ack(w) \/ Nak(w)

\* The query, request or publish at hand fails: an error before or during the
\* claim, or in recording success, only retries the message; a failed fetch,
\* insert or publish fails the job; the error of recording that is discarded.
CallFails(w) ==
    /\ \/ pc[w] = "claim" /\ Goto(w, "nak")
       \/ pc[w] \in {"fetch", "insert"} /\ Goto(w, "fail")
       \/ pc[w] = "publish" /\ Goto(w, IF \A r \in Review : crawl[w].got[r] = 0
                                       THEN "nak" ELSE "fail")
       \/ pc[w] = "fail" /\ Goto(w, "nak")
       \/ pc[w] = "giveUp" /\ Goto(w, "ack")
    /\ Fault
    /\ UNCHANGED <<platform, rows, due, raws, queue, schedVars, job, crawl, stacked>>

\* The worker has no adapter of the source's name.
UnknownAdapter(w) ==
    /\ pc[w] = "fetch"
    /\ crawl[w].page = 0
    /\ Goto(w, "giveUp")
    /\ Fault
    /\ UNCHANGED <<platform, rows, due, raws, queue, schedVars, job, crawl, stacked>>

CrashWorker(w) ==
    /\ pc[w] # "idle"
    /\ Leave(w)
    /\ Fault
    /\ UNCHANGED <<platform, rows, due, raws, queue, schedVars, stacked>>

WorkerFault(w) == CallFails(w) \/ UnknownAdapter(w) \/ CrashWorker(w)

-------------------------------------------------------------------------------
Init ==
    /\ clock = 0
    /\ edited = [r \in Review |-> 0]
    /\ status = [j \in Job |-> "none"]
    /\ cursor = [j \in Job |-> 0]
    /\ aged = [j \in Job |-> FALSE]
    /\ later = [j \in Job |-> {}]
    /\ due = TRUE
    /\ stored = [r \in Review |-> 0]
    /\ announced = {}
    /\ queue = [j \in Job |-> FreeSlot]
    /\ lock = "none"
    /\ spc = [s \in Scheduler |-> "standby"]
    /\ made = [s \in Scheduler |-> "none"]
    /\ plan = [s \in Scheduler |-> 0]
    /\ pc = [w \in Worker |-> "idle"]
    /\ job = [w \in Worker |-> NoJob]
    /\ crawl = [w \in Worker |-> NoCrawl]
    /\ peak = [r \in Review |-> 0]
    /\ passed = {}
    /\ stacked = FALSE
    /\ split = FALSE
    /\ faults = FaultBudget

Next ==
    \/ \E r \in Review : EditReview(r)
    \/ CronDue
    \/ \E j \in Job : Age(j) \/ AckTimeout(j)
    \/ LoseLock
    \/ \E s \in Scheduler : SchedulerStep(s) \/ SchedulerFault(s)
    \/ \E w \in Worker : WorkerStep(w) \/ WorkerFault(w)

Spec == Init /\ [][Next]_vars

\* Processes that are up keep running and time passes; customers owe nothing.
Fairness ==
    /\ WF_vars(CronDue)
    /\ \A j \in Job : WF_vars(Age(j)) /\ WF_vars(AckTimeout(j))
    /\ \A s \in Scheduler : WF_vars(SchedulerStep(s))
    /\ \A w \in Worker : WF_vars(WorkerStep(w))

FairSpec == Spec /\ Fairness

-------------------------------------------------------------------------------
(* Properties *)

\* Every variable keeps its type; a worker has a delivery iff it is not idle.
TypeOK ==
    /\ clock \in Time
    /\ edited \in [Review -> Time]
    /\ status \in [Job -> Status]
    /\ cursor \in [Job -> Time]
    /\ aged \in [Job -> BOOLEAN]
    /\ later \in [Job -> SUBSET Job]
    /\ due \in BOOLEAN
    /\ stored \in [Review -> Time]
    /\ announced \in SUBSET Review
    /\ queue \in [Job -> Slot]
    /\ lock \in Scheduler \cup {"none"}
    /\ spc \in [Scheduler -> {"standby", "ping", "reap", "open", "plan",
                              "create", "publish"}]
    /\ made \in [Scheduler -> Job \cup {"none"}]
    /\ \A s \in Scheduler : made[s] # "none" <=> spc[s] = "publish"
    /\ plan \in [Scheduler -> Time]
    /\ pc \in [Worker -> Crawling \cup {"idle", "claim", "ack", "nak"}]
    /\ job \in [Worker -> Delivery \cup {NoJob}]
    /\ \A w \in Worker : job[w] = NoJob <=> pc[w] = "idle"
    /\ crawl \in [Worker -> Crawl]
    /\ peak \in [Review -> Time]
    /\ passed \in SUBSET Review
    /\ stacked \in BOOLEAN
    /\ split \in BOOLEAN
    /\ faults \in 0..FaultBudget

\* What a cursor has moved past has been announced, or was cut off by the page
\* cap: no failure between fetch, insert, publish and result, and no retry or
\* overlapping crawl, loses the present version of a review.
Covered(c) ==
    \A r \in Review :
        0 < edited[r] /\ edited[r] <= c =>
            r \in announced \cup passed

CursorIsCovered ==
    /\ \A j \in Job : Covered(cursor[j])
    /\ \A s \in Scheduler : Covered(plan[s])

\* The last row of a review is the newest version that was ever stored, unless
\* two jobs have been running together: only then can a slow crawl put an old
\* version on top of a newer one (InsertRawReviews compares, but not by time).
RollbackNeedsStacking ==
    ~stacked => \A r \in Review : stored[r] = peak[r]

\* At most one job waits to be claimed, whoever is elected and whatever the
\* reaper does, unless a leader has lost the lock (HasOpenJob then CreateJob).
DispatchIsUnique ==
    ~split => \A j, k \in Job : status[j] = "pending" /\ status[k] = "pending" => j = k

\* A job follows the diagram at the head of cmd/scheduler/main.go: one that
\* succeeded or became a dead letter stays so when its message is delivered again
\* (the worker died before the ack, or answered too late), and one that failed or
\* was reaped is only claimed again, until its row is out of everybody's reach.
\* FinishJob looks at no status, so this takes crawls that end in time (~SlowCrawl).
JobsFollowTheirDiagram ==
    [][\A j \in Job : status'[j] # status[j] =>
          \/ status[j] = "pending" /\ status'[j] \in {"running", "failed"}
          \/ status[j] = "running" /\ status'[j] \in {"succeeded", "failed", "dead_letter"}
          \/ status[j] = "failed" /\ status'[j] = "running"
          \/ Reusable(j) /\ status'[j] = "pending"]_vars

\* The last row of a review is the newest version of it that was ever stored:
\* ingestion takes "the latest version of the same external_id" for what the
\* customer says now (docs/ARCHITECTURE.md, InsertRawReviews).
LastRowIsNewest == \A r \in Review : stored[r] = peak[r]

\* Every version of a review is announced in the end, or replaced by a newer
\* one, or cut off by the page cap: none stays unannounced from some time on.
EditsAreAnnounced ==
    \A r \in Review, t \in 1..MaxTime :
        []<>(edited[r] # t \/ r \in announced \cup passed)

\* No job stays open for good: an open job would silence its location.
OpenJobsEnd ==
    \A j \in Job : []<>(status[j] \notin Open)
===============================================================================

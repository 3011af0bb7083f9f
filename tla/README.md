# Verification of wachen (哇成)

wachen collects customer reviews of restaurants from platforms, analyses them,
turns the bad ones into cases that people work on, and posts their replies back
to the platform.  It is a set of small services around one PostgreSQL database
and one message queue (NATS JetStream or SQS).  Nearly all of its logic is about
what survives when two of these services meet in an order nobody planned: events
are delivered at least once and may be lost, every consumer may run in several
copies, each database write is a transaction of its own, and the loops that
repair what was lost run beside everything else.

In front of them are two applications: an admin application for the browser, half
of which asks the API and half of which shows bundled demonstration data, and a
mobile application.  They have concurrency of their own: calls overtake each
other, tabs share storage, and a screen is left before its answer comes.

This directory holds TLA+ models of those services and applications, TLC runs of small instances,
and theorems, proved with TLAPS, for instances of any size.

## The system

| Component | State | Operations | Talks to |
|---|---|---|---|
| Scheduler (`cmd/scheduler`) | advisory lock, `crawl_jobs` | elect a leader, reap stale jobs, create due jobs | crawl queue |
| Crawler worker (`cmd/worker`, `adapter/google`) | `crawl_jobs`, `raw_reviews` | claim a job, fetch, store raws, announce them, finish the job | `review.raw` |
| Webhook gateway (`cmd/webhook`) | `raw_reviews` | validate, store one raw, announce it | `review.raw` |
| Ingestion (`cmd/ingestion`) | `reviews`, `ingest_quarantine` | bring the review to a raw version, announce a change; a sweep with two legs | `review.created` |
| Analyzer (`analyzer/worker.py`) | `analysis_results`, `reviews.status` | analyse the current content, make the result current | `review.analyzed` |
| Routing (`cmd/routing`, `store/routing.go`) | `cases`, `case_assignments`, `notifications` | create, escalate, reopen or update the case; a sweep; SLA reminders | case events |
| Notifier (in `cmd/routing`) | `notifications` | send what is pending, up to three times | mail |
| API (`cmd/api`, `service`) | `cases.status`, `replies` | change a case's status; create, approve, reject a reply | `reply.requested` |
| Reply Worker (`cmd/replier`) | `replies` | claim, post, record the result; a reconciler with two sweeps | platforms |
| Queue (`internal/queue`) | messages | deliver, redeliver after a nak or a timeout, give up after 4 deliveries | all consumers |
| Schema (`migrations`) | all tables | a trigger moves `version` and `updated_at` with every UPDATE | |
| Admin application: roles and shell (`admin/src/lib/roles.ts`, `App.tsx`, `pages`) | login and role in localStorage; role, page and drawer of a tab | login, logout, switch role, navigate, load, open and close the drawer | API (login) |
| Admin application: demonstration cases (`lib/db.ts`, `FilterBar`, `Drawer`) | cases and marks in a tab and in localStorage, filters | open, change status, filter, mark as read | none |
| Admin application: pages of the API (`api.ts`, `Inbox`, `CaseDetail`, `Approvals`, `Pipeline`, `Login`) | components' state, calls in flight | fetch, poll, move a case, reply, decide | API |
| Mobile application (`mobile/src`, `mobile/app`) | persisted session, query cache, optimistic changes | sign in, navigate, change a status | API or its mock |
| Deployment, scripts, mock platform | | | |

What makes each part hard, and what makes it correct:

* **Replies.** One row, several messages about it, several workers, a sweep that
  takes back what seems stuck, and a post that cannot be undone.  Correct means:
  one worker at a time is between claim and result; an accepted post is
  recorded, or was lost in a crash; nothing unapproved is on its way; settled
  replies stay settled; no approved reply is forgotten.
* **Reviews.** Raw versions are handled out of order or more than once while an
  analysis that takes seconds is under way on what the row showed before.
  Correct means: the row comes to the newest usable version; a review that is
  called analyzed shows what was analysed; a deleted row is left alone; no
  lost event leaves a review unanalysed.
* **Cases.** The analysis a case is decided with is read before the transaction
  that decides.  Correct means: the case is at least at the risk of what it has
  claimed, with all the people its rule names; finished work is not undone by a
  repeated event; the current analysis is claimed in the end; an overdue case
  gets its reminder.
* **Crawl jobs.** A job that failed waits for its redelivery while the scheduler
  sees no open job; a leader may lose its lock between two queries; a worker may
  fail, or die, after each of fetch, insert, publish and result.  Correct means:
  no cursor moves past a review that was not announced; one job waits at a time;
  what has finished stays finished; no orphan keeps a location silent; the last
  version stored of a review is its newest.
* **Admin shell.** Two tabs share the login and the saved role, and each learns of
  a change only when it draws itself again.  Correct means: a page cut by role
  shows the tenant it was drawn for, is in the menu of the role it is drawn
  with, and leaves no role of another tenant behind.
* **Demonstration cases.** Each tab writes all its cases to one key.  Correct means:
  what is saved is one tab's state and not a mixture; a figure one clicks leads
  to the cases it counted, whatever was filtered before; marks as read stay
  within what the role listed.
* **API pages.** Answers come late, out of order, or to a page that was left.
  Correct means: no list of other filters is taken in; a button fails only on a
  stale view; polling pages come to the server's state; an expired token leads
  to the login page.
* **Mobile cache.** Fetches, optimistic writes and rollbacks write one cache.
  Correct means: at rest it shows what the server has.
* **Notifications** (not modelled yet). Two routing processes send the same
  notification and record different results.

## Modules

| Module | What it is |
|---|---|
| `ReplyLifecycle` | the abstract specification of a reply: its state diagram and the post on the platform |
| `ReplyPipeline` | API, queue, Reply Workers and reconcilers |
| `MCReplyPipeline` | its TLC instances |
| `ReplyPipelineProofs` | its theorems |
| `ReviewPipeline` | raw store, ingestion and analyzer, for one review |
| `MCReviewPipeline` | its TLC instances |
| `ReviewPipelineProofs` | its theorems |
| `CaseRouting` | routing, the status changes of people, SLA reminders, for one review's case |
| `MCCaseRouting` | its TLC instances |
| `CaseRoutingProofs` | its theorems |
| `CrawlJobs` | schedulers, crawl queue, workers and paging, for one location |
| `MCCrawlJobs` | its TLC instances |
| `CrawlJobsProofs` | its theorems |
| `AdminRoles` | the roles of the admin application and what each may see: pure functions |
| `AdminShell` | shell, pages and drawer in several tabs; extends `AdminRoles` |
| `MCAdminShell` | its TLC instance |
| `AdminShellProofs` | its theorems |
| `AdminCases` | demonstration cases, filters and marks in several tabs; extends `AdminRoles` |
| `MCAdminCases` | its TLC instance |
| `AdminCasesProofs` | its theorems |
| `AdminClient` | the pages that ask the API, their calls, and the server as they see it |
| `MCAdminClient` | its TLC instance |
| `AdminClientProofs` | its theorems |
| `MobileCases` | session, screens and query cache of the mobile application |
| `MCMobileCases` | its TLC instance |
| `MobileCasesProofs` | its theorems |

A definition that stands for code bears the code's name where there is one
(`UpsertReview` is split into `Outcome`, what is decided, and `Ingest`, what is
written).  `PROJECT.json` gives the lines of each under `map`.  Operators
called *Mutant* in a comment are not used by a specification: each is a
plausible bug, with which the property named for it in `PROJECT.json` fails.

In every module a *fault* is a failure the environment chooses to inflict (a
lost publish, a failed transaction, a crash), and `FaultBudget` bounds how many
there are.  What may happen without anybody failing (an ack timeout, a
redelivery after a nak, a refusal by the platform) is not counted.

### ReplyPipeline

`status`, `retry` and `aged` are the columns of `replies` (`aged`: `updated_at`
is further back than the sweep that reads it demands).  `toEnqueue` holds the
replies the API has committed as approved and not yet enqueued: the publish is
after the transaction.  `queue` has one slot per message, free, ready or held,
with its number of deliveries; `job` is the delivery a worker handles, which may
have been superseded.  A worker goes through `claim`, `dispatch`, `markSent`,
`markFailed`, `giveUp`, `ack`, `nak`; between two of these anything else may
happen.  A reconciler runs its two sweeps and then republishes what they
returned, one message at a time.

Two history variables make the properties expressible: `posted`, the replies the
platform has accepted, and `orphaned`, those whose acceptance was lost in a
fault.  `CreateReply` finds `require_approval` of the rule the case points at to be
either value, since routing may have pointed the case at another rule at any time.

`SlowDispatch` says whether a dispatch may outlast the five minutes after which
the reclaiming sweep takes a reply back.  The safety properties hold if it may
not, which is what the code assumes ("a dispatch takes at most about 30 s",
`cmd/replier/main.go:55`).  With `SlowDispatch = TRUE` in `Reply.cfg`, TLC
refutes `SettledIsFinal`: the worker whose reply was taken away, and sent by
another, writes its own failure by id.  The assumption deserves care, as the
Google adapter's `Reply` tries each configured location in turn with 30 seconds
for each request.

`ReplyLifecycle` is what remains for a reader who does not care about the queue:
the diagram in the header of `store/reply.go` with the post added to it.
`ReplyPipeline` implements it under the obvious mapping (`status` and `posted`
are the same variables in both).

### ReviewPipeline

One review, since rows of different reviews are never written together.  `raw`
and `stamp` are its versions with their `created_at`; the latter is the start
of the inserting transaction, so a version may be stamped earlier than one that
is there already.  `horizon` divides versions older than two minutes, which the
sweep sees, from younger ones.  The row is `ptr`, `content`, `status`,
`deleted` and `aged`; `current` is what the current analysis was made from.  As
the model and the prompt version are fixed, `input_hash` is a function of the
content.  `fresh` is the version fence: whether `reviews.version` is still the
one the analyst has read, which every UPDATE of the row ends.

`reviews.status` is only ever `new` or `analyzed`; the schema also allows three
values that no code writes.  Nothing in the code soft-deletes a review, but all
of it provides for that, so a person may.

### CaseRouting

`latest` numbers the analyses in the order in which they became current, `risk`
is their risk level.  The case is `status`, `level`, `claimed` (its
`analysis_id`), `roles`, `overdue` and `reminded`.  An execution of `routeOne`,
by a consumer or by the sweep, reads the analysis, then the rule, then runs
`RouteCase`, which is one step under the row lock if there is a case, and two
steps (the look and the INSERT) if there is none, as nothing is locked then.
Rules may be disabled, which fails the handler on purpose until it is repaired.

### CrawlJobs

One location of one source, since no query looks at two together.  A version of
a review is named by its update time, which is part of the payload and so of its
hash; `clock` and `edited` are the platform's side.  `status`, `cursor` and
`aged` are columns of `crawl_jobs`; `later` is the order of `finished_at`, as
far as anybody can ask for it.  `stored` is the version in the last row of
`raw_reviews`, `announced` the reviews whose present version was published as
`review.raw`.

A scheduler goes through `ping`, `reap`, `open`, `plan`, `create`, `publish`:
each query of `scheduleOne` is a step, so that a lost lock or a death falls
between any two.  The lock is PostgreSQL's: it is free at once when the
connection breaks, while the leader notices at its next ping.  A worker goes
through `claim`, `fetch` (page by page), `insert`, `publish` (one message at a
time), then the result, then `ack` or `nak`; from `fail` and `giveUp` it writes
a failure.  `crawl` is what `Fetch` keeps: the cursor it started from, the
newest time seen, and the edge down to which pages have been read.

Three histories: `passed`, the reviews the page cap has cut off; `stacked`, a
job was claimed while another was running; `split`, a leader has lost its lock.

What the model takes for granted: a page goes on below the last review of the
one before it, in the order of update times (what `orderBy` and the page token
ask of the platform), and no two updates have the same time; a shutdown is a
crash; the rating filter keeps or drops a review whatever its version (a review
that was edited from a bad to a good rating is not fetched again, by design); two
overlapping inserts happen one after the other, as the advisory lock of each
review serialises them.  `SlowCrawl` says whether a crawl with a live worker may
outlast the reaper's five minutes: the fetch has 90 seconds by its context, the
publishes after it have none.  Rows of `crawl_jobs` are few in an instance, so a
row that no message, handler or query can reach any more (`Reusable`) stands for
a new one.

### AdminShell

An action is one handler together with the drawing it causes, since React runs
both, and the effect that corrects the role, before the next event.  `Draw` is
that drawing: it clamps the role in memory to those of the login's tenant,
redirects from a page that the menu does not have, and saves the corrected
role.  The shell's guard asks the menu of the role in memory and the home of the
clamped one (`Passes`), which differ in the moment before the effect runs.
`Draws(p, r, qa)` is what page `p` shows role `r`: its cases and stores, those a
click opens, and whose ready-made texts it carries.  `answers` is what the AI
page keeps from the role it was mounted with.  `drawn` is a history: the login
the tab was drawn for.

### AdminCases

`cases` is the memory of each tab and `saved` the key in localStorage, which a
tab reads when it is loaded and overwrites with all its cases at each change.
`due` is the clock against a deadline.  The filters are those of the module
`filter.ts`, one record per tab that all its pages share.  `writer` and `inView`
are histories.  The roles cut each list as in `AdminShell`, by `AdminRoles`.

### AdminClient

One tab.  `calls` has a slot per call in flight with its kind, the token it
carries, what it was decided on (`basis`) and its answer.  Sending, serving and
handling are steps of their own.  A call is *live* while its answer may change
the page, an *orphan* when its component is gone or its effect was cleaned up
(an orphaned call that has done something still loads again, as the code does),
and *gone* when the document was loaded anew.  `inbox`, `form`, `queue` and
`figures` are the state of the four components.  The server is cut down to
statuses, replies and tokens, from `store/api.go`, `service/cases.go` and
`cmd/api`.  `inbox.askedFor` is a history: the filters the list shown was asked
for with.

### MobileCases

`query` is the React Query cache, a record per key: data, whether they are
valid, and the fetch under way.  `mutation` holds the changes of status in
flight with the list that each would roll back to.  `Press` is `onMutate`,
`Settle` is `onError` and `onSettled` together; `Invalidated` and `Wanted` are the
library's rules for fetches as far as `queries.ts` relies on them (external code,
modelled as used: an active query is fetched anew, an inactive one is marked;
a fetch under way is shared).  `calm` is a history: the data were asked for while
no change was under way.  `session.ts` persists token and role, which a restart
reads back; the login screen is shown all the same.

## Runs

All passing runs check deadlock freedom except those of `CaseRouting`, where a
deleted review with nothing in the queues is a proper end, and those of
`AdminCases`, `AdminClient` and `MobileCases`, where users may stop and bounds
on their acts end a behaviour.

| Run | Instance | Question |
|---|---|---|
| `Reply` | 1 reply, 2 message slots, 2 workers, 1 reconciler, 2 deliveries, 1 fault, no slow dispatch, fairness | exclusive sending, accounted posts, finality, the state diagram; nothing stays approved or sending forever |
| `ReviewAnalysis` | 2 raw versions, 2 payloads of 2 contents, 1 analyst, 1 ingester, 1 sweeper, 1 fault, fairness | fence, deleted rows; every new review is analysed |
| `ReviewVersions` | 3 versions, well-formed or not, no analyst, 1 fault, fairness | quarantine; the row comes to the newest version |
| `ReviewMismark` | 2 versions, 2 analysts, no fault | may `mark_analyzed` be wrong? (violated) |
| `Routing` | 2 analyses of low or high risk, 1 consumer, 1 sweep, 1 fault, fairness, the seeded rules | the case meets its risk; replays change nothing; the current analysis is claimed; reminders are sent |
| `RoutingStaleReopen` | 2 consumers, 2 analyses, no fault | does only a newer analysis reopen? (violated) |
| `Crawl` | 2 schedulers, 1 worker, 2 job rows, 1 review, 1 update, 2 pages, 2 deliveries, 1 fault, no slow crawl, fairness | cursors, unique dispatch, the job diagram under repeated deliveries; jobs end; edits are announced |
| `CrawlRollback` | 1 scheduler, 2 workers, 2 job rows, 1 review, 2 updates, no fault | is the last row the newest version? (violated) |
| `AdminShell` | 2 tabs, an account of the group and one of the tenant, a store and a case of each, 6 pages | tenants, menus, the saved role |
| `AdminCases` | 2 tabs, one of which filters and switches between 2 roles, 2 cases, 2 notifications, 3 filter fields, 4 handlers | overwritten storage, figures, marks as read |
| `AdminClient` | 2 cases of 2 sources, 1 reply, 2 tokens, 2 calls in flight, 3 acts of the user, 1 event outside, fairness | late lists, refused buttons, convergence, expiry |
| `MobileCases` | 1 case, 2 changes in flight, 2 acts, 1 fault | cache against server |

Why the bounds are enough for the questions: exclusiveness and overwriting need
two workers on one row; two copies of its message and one reconciler give every
overlap of an old delivery with a republished one.  Two deliveries (the code has
4) are a retry and a last attempt, and in `Crawl` they bring every job back once more:
after success, when the worker died before its ack or answered too late; after a
failure; and after a reaping.  The fence needs one analyst
between read and commit and one edit.  Order needs two versions, and three when
one is malformed and another lost.  Routing needs a handler that is stalled over
a later analysis, which a consumer, the sweep and two analyses give.  One fault
makes every single failure happen at every point.  In `Crawl` two schedulers
give every take-over; two job rows are a job and the one put beside it.  The
page cap cuts nothing there: that part of `CursorIsCovered`, like every other
bound on the safety of the services, is left to the proofs, which know none of
these bounds.  So is a job that is delivered to a second worker while the first still
crawls it (`CrawlingIsExclusive` within `OrderlyUnlessTheLivingAreReaped`); two workers on
two jobs run in `CrawlRollback`.  A late result for a job that was reaped under its
living worker takes a slow crawl: with `SlowCrawl = TRUE` in `Crawl.cfg`, TLC refutes
`JobsFollowTheirDiagram` by it.

In the applications, two tabs are one that acts and one that is overtaken; an
account of each tenant makes every change of tenant happen under a tab.  Four
handlers in `AdminCases` let a tab load, the other write, and the first write
and load again.  Two calls in flight are the smallest number that can overtake
each other; with three acts a user changes a filter, leaves and comes back.  In
`MobileCases` two changes of the same case are what makes a rollback harmful; as
the list is cached with all cases, a second case would add nothing to it.

### Violated properties

Each is stated from a sentence of the repository, quoted in `PROJECT.json`.  For each
a theorem names the only way to it.

* `FlipMeansAnalyzed`: the replay path of the analyzer sets `analyzed` without
  the version fence, on a content that was ingested after its look-up.  The
  other properties of the review pipeline are stated with the exception
  (`mismarked`) this makes necessary.  `MismarkNeedsRace` proves that it takes a change
  of content or analysis between the analyst's look-up and the write.
* `ReopenMeansNewer`: a handler that stalled before `RouteCase` reopens a case
  for an analysis older than the one it was closed with.  The sweep repairs
  `analysis_id`, but not the reopening.  `StaleReadsReopen` proves that the stale read
  is the only way.
* `LastRowIsNewest`: a job that failed, or that the reaper has closed, is not open,
  so the scheduler creates another; when the first is delivered again both run.
  The one that read an older version of a review may insert it last, and
  `InsertRawReviews` compares contents, not times.  Ingestion then shows the old
  version, "the latest of the same external_id", and the cursor may be past the
  new one.  `NoRollbackWithoutStacking` proves that, with crawls that end in time,
  this is the only way.

Two smaller observations need no run.  The reclaiming sweep of the replies
compares `retry_count` before it adds the attempt it takes back, which is one
attempt more than its comment says; and `require_approval` is read only when a
reply is created, so an escalation does not hold up a reply that exists.

In the applications, reading and modelling showed these, without a run:

* *Tenants* (`roles.ts:122`, `App.tsx:41`).  What is cut by role is separated, as
  `PagesStayInTenant` says.  What is not cut by role is not: the store board shows
  the first store of the data to every tenant; the drawer stays open over a
  logout and is drawn for the next login; trends, regions and anomalies of the
  group are on the tenant's dashboard.
* *Tabs.*  A change that was saved in one tab is lost when a tab that was loaded
  earlier changes anything (`db.ts:144`).  `LastWriterIsSaved` only says that no
  mixture results.  A shell on the screen returns before its hooks once another
  tab has logged out (`App.tsx:39`), which React refuses: the tab goes blank.
* *Case page.*  From case to case in the browser's history the component stays
  mounted: until the answer comes, the old case is shown under the new path, and
  the text being written goes to the new case.  A reply whose answer was lost may
  be sent again by the user and exist twice.
* *401.*  The answer to a call of a former login ends a new one.  The inbox asks
  for its facets once: if that fails, its source filter stays empty.
* *Dashboard.*  The figure of open high risks leads to a list of all of them.
* *Drawer.*  The bar says that personal data are masked, while the author's name is
  shown as it is (`Drawer.tsx:157`).
* *Mobile.*  `queries.ts:65` promises a rollback and a toast on failure: the list is
  rolled back, the detail waits for its refetch and there is no toast.
  `role.store` is never filled in, so that a store manager sees all cases.  Sign-out
  keeps the query cache.  The Go API's cases have no `cstatus`; the application
  works with its mock.

## Fairness

Weak fairness of each service's next step: the processes are restarted by their
supervisor and a consumer takes messages as long as there are any.  Weak
fairness of time (a row ages, an acknowledgement times out, two minutes pass,
a cron time comes), and, in `CaseRouting`, of the repair of a disabled rule: the
code's own comment leaves that to the operator and promises to retry until then.  People and faults
have none.  Sweeps have weak fairness because they run on a ticker; their LIMIT
of 20 is assumed not to cut a pass, which is a limit of the models.

In `AdminClient` the timers of the polling pages, the server's answers and the
browser's handling of them have weak fairness each; users, other users and the
network's losses have none.  A page that is left stops polling, so
`PagesConverge` speaks of tabs that stay.  `AdminShell`, `AdminCases` and
`MobileCases` have safety properties only.

It is *not* claimed that every approved reply is sent or failed in the end: the
sweep enqueues a fresh message each time, with a delivery count of its own, so a
platform that keeps refusing may be asked more than `MaxDeliver` times.

## Proofs

The theorems hold for every number of replies, messages, workers, raw versions,
analyses, faults and so on, under the named assumptions on the constants in each
module, which TLC evaluates in every run.

* **Type correctness** of the four models of services and the four of applications.
  For reviews and cases it needs
  to know that names in hand are names of rows that exist (`NamesKnown`,
  `HasAnalysis`).
* **`ReclaimedIsDead`**, assuming `~SlowDispatch`: an aged `sending` row has no
  worker (`FreshInv`), so the sweep only takes back what is nobody's
  (`ReclaimOnlyTheDead`).
* **`SafeUnlessTheLivingAreReclaimed`** assumes nothing on timing but
  `ReclaimOnlyTheDead` itself, as a property of the behaviour: then sending is
  exclusive, as claiming needs `approved`, which excludes workers in flight
  (`SenderInv`); and result writes, which look at no status, find the row of
  their worker in `sending` (`PostedInv`), so posts are accounted for, settled
  replies are final and `ReplyLifecycle` is implemented.  The two together are
  **`SendingIsExclusive`**, **`PostsAreAccountedFor`**, **`SettledRepliesAreFinal`** and
  **`PipelineImplementsLifecycle`**: a sweep that overtakes a living worker is all
  that can break the four.
* **`RepostsAreLosses`**: a loss of an acceptance costs a fault each time
  (`LossesAreFaults`, by counting); and as long as no reply is taken from a living
  worker, a reply is posted a second time, or is on the platform while its row is
  neither `sending` nor `sent`, only after such a loss.
* **`SentRepliesWerePosted`**: `MarkReplySent` looks at no status either, but a worker gets
  there only after an acceptance; needs no assumption on timing.
* **`UnapprovedRepliesStayHome`** needs no such assumption: messages,
  republications and workers only ever name replies that have been approved.
* **`AnalysesMatchContent`**: an analyst whose `fresh` holds has read what the
  row shows now (`FenceHolds`), so a commit under the fence is of that.
* **`DeletedReviewsStay`**: a deleted review has a row, so ingestion decides
  `deleted`; the analyzer's two writes both look at `deleted_at`.
* **`RowFollowsItsVersion`**: the row shows what its version normalizes to, only
  malformed versions are in quarantine, and the row never moves to a version
  stamped earlier, whatever the order in which messages and sweeps bring the
  versions: `Outcome` compares with the row under its lock, and stored versions do
  not change.
* **`MismarkNeedsRace`**: as long as neither content nor current analysis changes
  between an analyst's look-up and its `mark_analyzed`, the finding
  `ReviewMismark` cannot occur.
* **`CasesMeetTheirRisk`**: nobody holds an analysis that does not exist yet
  (`NoneFromTheFuture`), so risks in hand do not change; then by the outcomes of
  `RouteCase`.
* **`ReplaysNeverReopen`**: only the outcome `reopened` opens a finished case,
  and it is decided after `replay`; people's transitions do not contain it.
* **`StaleReadsReopen`**: if the analysis an execution has read is still the current one when
  `RouteCase` decides, the finding `RoutingStaleReopen` cannot occur, and the claim of
  a case never goes back.
* **`CasesAreKept`**: a case never vanishes and keeps its people; its risk falls only
  when an analysis reopens it, its clock and its reminder start anew only then
  or when its risk rises; and only an overdue case is marked as reminded of.
* **`CursorsAreCovered`**: a review that is neither announced nor cut off is
  *ahead* of every cursor, plan and starting point, and a crawl whose newest time
  is past it has it in hand or still reads it (`CoverInv`).  Needs no assumption on
  the speed of crawls or the number of leaders.
* **`PendingIsUnique`**: unless `split`, who is at work holds the lock, and a
  leader between `HasOpenJob` and `CreateJob` has seen that nothing is pending
  (`LeaderInv`).  **`LeaderIsUnique`** is from the same invariant: unless `split`, all
  schedulers but one are on standby.
* **`AnnouncementsAreStored`**: a version that ingestion was told of is in the last row, as
  every worker has stored what it is going to publish (`StoreInv`); needs no
  assumption on timing.
* **`ReapedIsDead`**, assuming `~SlowCrawl`: a crawled job is not due for the reaper
  (`FreshInv`), so it closes running jobs only if no worker is left (`ReapsDead`).
* **`OrderlyUnlessTheLivingAreReaped`** assumes `ReapsDead` alone: a crawled job is
  running and crawled by one worker (`ClaimInv`), so that `FinishJob`, which looks
  at no status, finds it running; and unless `stacked`, one job runs, and what
  its crawler has fetched is not older than what is stored (`NewestInv`).  The two
  together are **`JobsFollowDiagram`** and **`NoRollbackWithoutStacking`**.

* **`SavedRoleIsFit`**, **`PageIsFit`** and **`TenantsOnPages`**: every handler ends in
  `Draw`, which establishes all three for its tab.  The others keep what they were
  drawn for (`drawn`) and do not read the storage before they draw; what needs
  an invariant (`ShellInv`) is that the role in memory is allowed for `drawn`, and
  that the answers on the AI page are of its tenant.
* **`StorageIsLastWriters`**: a write replaces the whole key, so the saved record is
  the last writer's until that tab itself writes or loads, and loading finds its
  own.  `CasesInv` adds that `escalated` is a function of risk and status, which
  a load derives anew.
* **`OtherTabsLogOut`** and **`OtherTabsOverwrite`** say of one tab that what the section
  on violated properties observes of several is the others' doing: as long as
  these do not touch the login, it is never blank and shows the login that is
  kept; as long as they do not write, it has in memory what it would load, so no
  status or read mark is lost.  The latter assumes that an empty key differs from
  any record (`SavedAssumption`).
* **`ReadNotesWereListed`** and **`FiguresLead`**: the latter by cases of the figure, from
  the fact that a figure clears every field before it sets its own.

* **`ListsForFilters`** and **`RefusalsAreStale`**: in `ClientInv` a live call was asked
  for by the page shown, a live list call with the filters the inbox has (a change
  of filters orphans the others), at most one login call is live, so that nothing
  else is when its answer opens the first page, and a call of a button is one of
  those its view offered.  What is refused is then refused because the status has
  moved, the two tables of moves being the same.
* **`OneReplyAtATime`**: the form of the case page is locked exactly while one of its
  replies is under way, and never more than one: leaving the page orphans it, and
  the next page's form starts free.  `Add` takes the first free slot, so the proof
  needs that a set of numbers has a least one, and that `None` is no call
  (`ReplyAssumption`).
* **`CacheIsServers`**: in `MobileInv`, while a change is in flight no fetch asked for in
  calm is under way, as `onMutate` has cancelled them all and later ones are
  marked; the last change to settle leaves nothing valid; and while none is in
  flight the server's cases stand still, so an answer in calm is what they are.

Some theorems (`MismarkNeedsRace`, `StaleReadsReopen`, `RepostsAreLosses`, the two named
`...UnlessTheLiving...` and the two named `OtherTabs...`) have a hypothesis on the
behaviour in place of one on the constants.  Each names what the code tacitly
relies on; with faults, restarts and redeliveries as before, nothing else can
break the conclusion.

Checked by TLC only: the liveness properties, which are beyond the prover.  The
properties of the three violated runs hold for no instance that is large enough;
what is proved of them is what they depend on.

## What is not modelled

* The Notifier: see the plan.  Cron expressions (`dueNow`), the rating filter, pages
  with equal update times or with reviews deleted between two requests.
* The effect of `LIMIT` on the sweeps (rows that are found again in every pass
  and crowd out others): it takes more rows than an instance can have.
* What the analysis says: the model call and the rules on risk words are a
  nondeterministic risk level.
* The API's statistics and permissions, deployment, the audit log: they read, or
  write what nothing reads back.
* Of the admin application: charts, layout, the masking of personal data, the texts.
* Of the mobile application: the dashboard, the store screen and its cache, replies, the
  filters of the reviews, the content of the further screens, themes.
* React and React Query are modelled as the code uses them: an effect runs before
  the next event; retries, cancelling and staleness follow version 5's defaults
  and the options given in `app/_layout.tsx`.
* Encoding and set-up of the queues; the SQS driver differs from NATS in who
  counts deliveries, which the models leave open.

## Plan

1. `ReplyPipeline`, `ReviewPipeline`, `CaseRouting` and their proofs: done.
2. `CrawlJobs` and its proofs: done.  Left: the same with two locations of a source
   and the token refresh of the adapter, if they turn out to interact.
3. `AdminShell`, `AdminCases`, `AdminClient`, `MobileCases` and their proofs: done.
4. `Notifier`: two processes over one table; a sent notification stays sent; a
   pending one is sent or has failed three times.
5. `FetchPages`: the paging of the Google adapter over concrete pages (equal update
   times, unknown ratings, deleted reviews) as a function, against the definition
   of what a crawl should have stored; `dueNow` and the risk override likewise.
6. A composition of `CaseRouting` with the creation and the claim of replies
   (escalation against a reply in flight, with the property that a reply to a
   high-risk case was reviewed) and of `ReviewPipeline` with
   `CaseRouting` against an abstract specification of the whole: each review
   that shows a complaint has a case for it in the end.
7. Proofs for 4 and the refinement of 6.
8. Proofs left for the present models: the safety half of the liveness properties
   (what a sweep finds when everything is at rest), and `PagesConverge` without its
   eventuality: what the pages of `AdminClient` show once no call is under way.

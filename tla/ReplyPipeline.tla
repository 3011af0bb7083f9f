----------------------------- MODULE ReplyPipeline -----------------------------
(***************************************************************************)
(* Sending approved replies to the review platforms: the API writes the    *)
(* reply and enqueues it, the replier's consumers claim and dispatch it,   *)
(* and the replier's reconciliation loop picks up what was lost.           *)
(*                                                                         *)
(*   backend/internal/service/reply.go    create / approve / reject        *)
(*   backend/internal/store/reply.go      the replies table                *)
(*   backend/internal/queue/{nats,sqs}.go delivery, retry, dead letter     *)
(*   backend/cmd/replier/main.go          sendReply, reconcileReplies      *)
(*                                                                         *)
(* A message carries only a reply id, so a message slot belongs to one     *)
(* reply (ReplyOf) and can be used again once its message is gone.         *)
(***************************************************************************)
EXTENDS Naturals, FiniteSets

CONSTANTS
    Reply,          \* rows of the replies table
    Msg,            \* message slots of the reply.requested stream
    ReplyOf,        \* the reply each slot's message names
    Worker,         \* concurrent executions of the sendReply handler
    Reconciler,     \* reconciliation loops, one per replier process
    MaxDeliver,     \* queue.MaxDeliver
    RetryCap,       \* bound of the model: retry_count saturates here
    FaultBudget,    \* bound of the model: how many faults may still happen
    SlowDispatch    \* may one dispatch outlast stuckSendingAfter?

ASSUME ReplyAssumption ==
    /\ ReplyOf \in [Msg -> Reply]
    /\ "none" \notin Msg
    /\ MaxDeliver \in Nat \ {0}
    /\ RetryCap \in Nat
    /\ RetryCap >= MaxDeliver
    /\ FaultBudget \in Nat
    /\ SlowDispatch \in BOOLEAN

VARIABLES
    status,         \* replies.status
    retry,          \* replies.retry_count
    aged,           \* updated_at is further back than the sweep's threshold
    toEnqueue,      \* committed by the API, its publish still to come
    queue,          \* what each message slot holds
    pc,             \* where each worker is in sendReply
    job,            \* the delivery each worker is handling
    rpc,            \* where each reconciler is in reconcileReplies
    todo,           \* the ids its pass has collected for re-publication
    posted,         \* history: replies the platform has accepted
    orphaned,       \* history: accepted, and the acceptance never recorded
    faults          \* faults that may still happen

dbVars    == <<status, retry, aged>>
workVars  == <<pc, job>>
recVars   == <<rpc, todo>>
histVars  == <<posted, orphaned>>
vars == <<dbVars, toEnqueue, queue, workVars, recVars, histVars, faults>>

Status == {"none", "pending_approval", "approved", "rejected",
           "sending", "sent", "failed"}

Terminal == {"sent", "failed", "rejected"}

NoJob == [msg |-> "none", attempt |-> 0]

Job == [msg : Msg, attempt : 1..MaxDeliver]

FreeSlot == [st |-> "free", n |-> 0]

\* n counts the deliveries so far: one is left while the message is ready.
Slot == {FreeSlot} \cup [st : {"ready"}, n : 0..(MaxDeliver - 1)]
                  \cup [st : {"held"}, n : 1..MaxDeliver]

-------------------------------------------------------------------------------
(* Helpers *)

\* The reply a busy worker is handling.
Target(w) == ReplyOf[job[w].msg]

\* The workers between a successful claim of r and the outcome's write.
InFlight == {"dispatch", "giveUp", "markSent", "markFailed"}
Senders(r) == {w \in Worker : pc[w] \in InFlight /\ Target(w) = r}

Bump(n) == IF n < RetryCap THEN n + 1 ELSE n

\* One row written: the touch trigger moves updated_at with every UPDATE.
WriteRow(r, s) ==
    /\ status' = [status EXCEPT ![r] = s]
    /\ aged' = [aged EXCEPT ![r] = FALSE]

CountAttempt(r) == retry' = [retry EXCEPT ![r] = Bump(@)]

Goto(w, l) == pc' = [pc EXCEPT ![w] = l]

Fault == faults > 0 /\ faults' = faults - 1

\* A slot can take a new message once nobody handles its old one any more.
Vacant(m) == queue[m] = FreeSlot /\ \A w \in Worker : job[w].msg # m

Publish(m) == Vacant(m) /\ queue' = [queue EXCEPT ![m] = [st |-> "ready", n |-> 0]]

\* Mutant: redelivered without a limit.
RequeueForever(m) == [queue EXCEPT ![m] = [st |-> "ready", n |-> @.n]]

\* Delivered again unless the deliveries are used up (dead letter).
Requeue(m) == [queue EXCEPT ![m] =
                 IF @.n < MaxDeliver THEN [st |-> "ready", n |-> @.n] ELSE FreeSlot]

\* The delivery w holds is the message's latest one.
IsCurrent(w) == queue[job[w].msg] = [st |-> "held", n |-> job[w].attempt]

-------------------------------------------------------------------------------
(* The API: write the row, then enqueue it outside the transaction *)

\* can_reply and the length limit are checked before; a refusal writes nothing.
\* require_approval is either: RouteCase may have re-pointed the case at any rule.
CreateReply(r) ==
    /\ status[r] = "none"
    /\ \/ WriteRow(r, "pending_approval") /\ UNCHANGED toEnqueue
       \/ WriteRow(r, "approved") /\ toEnqueue' = toEnqueue \cup {r}
    /\ UNCHANGED <<retry, queue, workVars, recVars, histVars, faults>>

\* Mutant: the UPDATE lost its AND status = 'pending_approval'.
ApproveAnyReply(r) ==
    /\ status[r] # "none"
    /\ WriteRow(r, "approved")
    /\ toEnqueue' = toEnqueue \cup {r}
    /\ UNCHANGED <<retry, queue, workVars, recVars, histVars, faults>>

ApproveReply(r) ==
    /\ status[r] = "pending_approval"
    /\ WriteRow(r, "approved")
    /\ toEnqueue' = toEnqueue \cup {r}
    /\ UNCHANGED <<retry, queue, workVars, recVars, histVars, faults>>

\* Mutant: a reply can still be turned down after its approval.
RejectLate(r) ==
    /\ status[r] \in {"pending_approval", "approved"}
    /\ WriteRow(r, "rejected")
    /\ UNCHANGED <<retry, toEnqueue, queue, workVars, recVars, histVars, faults>>

RejectReply(r) ==
    /\ status[r] = "pending_approval"
    /\ WriteRow(r, "rejected")
    /\ UNCHANGED <<retry, toEnqueue, queue, workVars, recVars, histVars, faults>>

EnqueueReply(m) ==
    /\ ReplyOf[m] \in toEnqueue
    /\ Publish(m)
    /\ toEnqueue' = toEnqueue \ {ReplyOf[m]}
    /\ UNCHANGED <<dbVars, workVars, recVars, histVars, faults>>

\* The publish fails and is only logged, or the API dies after the commit.
EnqueueLost(r) ==
    /\ r \in toEnqueue
    /\ toEnqueue' = toEnqueue \ {r}
    /\ Fault
    /\ UNCHANGED <<dbVars, queue, workVars, recVars, histVars>>

Api ==
    \/ \E r \in Reply : \/ CreateReply(r) \/ ApproveReply(r) \/ RejectReply(r)
                        \/ EnqueueLost(r)
    \/ \E m \in Msg : EnqueueReply(m)

-------------------------------------------------------------------------------
(* The queue, seen from its consumers *)

Receive(w, m) ==
    /\ pc[w] = "idle"
    /\ queue[m].st = "ready"
    /\ queue' = [queue EXCEPT ![m] = [st |-> "held", n |-> @.n + 1]]
    /\ job' = [job EXCEPT ![w] = [msg |-> m, attempt |-> queue[m].n + 1]]
    /\ Goto(w, "claim")
    /\ UNCHANGED <<dbVars, toEnqueue, recVars, histVars, faults>>

\* AckWait / the visibility timeout runs out, whether or not a worker is alive.
AckTimeout(m) ==
    /\ queue[m].st = "held"
    /\ queue' = Requeue(m)
    /\ UNCHANGED <<dbVars, toEnqueue, workVars, recVars, histVars, faults>>

\* The handler returned: w leaves, and the queue takes its answer q.  A late
\* answer, to a delivery that is no longer the latest, may also be ignored.
Answer(w, q) ==
    /\ queue' \in {q} \cup (IF IsCurrent(w) THEN {} ELSE {queue})
    /\ Goto(w, "idle")
    /\ job' = [job EXCEPT ![w] = NoJob]
    /\ UNCHANGED <<dbVars, toEnqueue, recVars, histVars, faults>>

Ack(w) ==
    /\ pc[w] = "ack"
    /\ Answer(w, [queue EXCEPT ![job[w].msg] = FreeSlot])

\* Nak below MaxDeliver, Term at it; nothing to do if the message is not held.
Nak(w) ==
    /\ pc[w] = "nak"
    /\ LET m == job[w].msg
       IN  Answer(w, IF queue[m].st = "held" THEN Requeue(m) ELSE queue)

-------------------------------------------------------------------------------
(* The worker: sendReply *)

\* Mutants: the claim's UPDATE takes any row, or a failed one as well.
ClaimWithoutGate(w) ==
    /\ pc[w] = "claim"
    /\ WriteRow(Target(w), "sending")
    /\ Goto(w, "dispatch") \/ Goto(w, "giveUp")
    /\ UNCHANGED <<retry, toEnqueue, queue, job, recVars, histVars, faults>>

ClaimFailedToo(w) ==
    /\ pc[w] = "claim"
    /\ IF status[Target(w)] \in {"approved", "failed"}
       THEN /\ WriteRow(Target(w), "sending")
            /\ Goto(w, "dispatch") \/ Goto(w, "giveUp")
       ELSE /\ Goto(w, "ack")
            /\ UNCHANGED <<status, aged>>
    /\ UNCHANGED <<retry, toEnqueue, queue, job, recVars, histVars, faults>>

\* A row that is not approved is somebody else's: the message is acknowledged.
\* The source's can_reply flag, read with the claim, may have been turned off.
ClaimReplyForSend(w) ==
    /\ pc[w] = "claim"
    /\ IF status[Target(w)] = "approved"
       THEN /\ WriteRow(Target(w), "sending")
            /\ Goto(w, "dispatch") \/ Goto(w, "giveUp")
       ELSE /\ Goto(w, "ack")
            /\ UNCHANGED <<status, aged>>
    /\ UNCHANGED <<retry, toEnqueue, queue, job, recVars, histVars, faults>>

\* Any database error rolls the claim back and retries the message.
ClaimFails(w) ==
    /\ pc[w] = "claim"
    /\ Goto(w, "nak")
    /\ Fault
    /\ UNCHANGED <<dbVars, toEnqueue, queue, job, recVars, histVars>>

\* Mutant: the call of MarkReplySent is missing.
DispatchAndForget(w) ==
    /\ pc[w] = "dispatch"
    /\ posted' = posted \cup {Target(w)}
    /\ Goto(w, "ack")
    /\ UNCHANGED <<dbVars, toEnqueue, queue, job, recVars,
                   orphaned, faults>>

DispatchAccepted(w) ==
    /\ pc[w] = "dispatch"
    /\ posted' = posted \cup {Target(w)}
    /\ Goto(w, "markSent")
    /\ UNCHANGED <<dbVars, toEnqueue, queue, job, recVars,
                   orphaned, faults>>

\* The platform took the post, the response was lost or timed out.
DispatchUnknown(w) ==
    /\ pc[w] = "dispatch"
    /\ posted' = posted \cup {Target(w)}
    /\ orphaned' = orphaned \cup {Target(w)}
    /\ Goto(w, "markFailed")
    /\ Fault
    /\ UNCHANGED <<dbVars, toEnqueue, queue, job, recVars>>

DispatchRefused(w) ==
    /\ pc[w] = "dispatch"
    /\ Goto(w, "markFailed")
    /\ UNCHANGED <<dbVars, toEnqueue, queue, job, recVars, histVars, faults>>

\* UPDATE ... WHERE id = $1: the row's present status is not looked at.
MarkReplySent(w) ==
    /\ pc[w] = "markSent"
    /\ WriteRow(Target(w), "sent")
    /\ Goto(w, "ack")
    /\ UNCHANGED <<retry, toEnqueue, queue, job, recVars, histVars, faults>>

\* The outcome is not written: the message is retried, the row stays sending.
MarkReplySentFails(w) ==
    /\ pc[w] = "markSent"
    /\ orphaned' = orphaned \cup {Target(w)}
    /\ Goto(w, "nak")
    /\ Fault
    /\ UNCHANGED <<dbVars, toEnqueue, queue, job, recVars, posted>>

MarkReplyFailed(w) ==
    /\ pc[w] = "markFailed"
    /\ WriteRow(Target(w), IF job[w].attempt >= MaxDeliver THEN "failed" ELSE "approved")
    /\ CountAttempt(Target(w))
    /\ Goto(w, "nak")
    /\ UNCHANGED <<toEnqueue, queue, job, recVars, histVars, faults>>

\* The source cannot reply: failed at once, the message is acknowledged.
GiveUp(w) ==
    /\ pc[w] = "giveUp"
    /\ WriteRow(Target(w), "failed")
    /\ CountAttempt(Target(w))
    /\ Goto(w, "ack")
    /\ UNCHANGED <<toEnqueue, queue, job, recVars, histVars, faults>>

\* The error of MarkReplyFailed is discarded in both places that call it.
MarkFails(w) ==
    /\ \/ pc[w] = "markFailed" /\ Goto(w, "nak")
       \/ pc[w] = "giveUp" /\ Goto(w, "ack")
    /\ Fault
    /\ UNCHANGED <<dbVars, toEnqueue, queue, job, recVars, histVars>>

CrashWorker(w) ==
    /\ pc[w] # "idle"
    /\ Goto(w, "idle")
    /\ job' = [job EXCEPT ![w] = NoJob]
    /\ orphaned' = IF pc[w] = "markSent" THEN orphaned \cup {Target(w)} ELSE orphaned
    /\ Fault
    /\ UNCHANGED <<dbVars, toEnqueue, queue, recVars, posted>>

\* The steps a live worker takes, and the faults that may befall it.
WorkerStep(w) ==
    \/ \E m \in Msg : Receive(w, m)
    \/ ClaimReplyForSend(w) \/ DispatchAccepted(w) \/ DispatchRefused(w)
    \/ MarkReplySent(w) \/ MarkReplyFailed(w) \/ GiveUp(w) \/ Ack(w) \/ Nak(w)

WorkerFault(w) ==
    \/ ClaimFails(w) \/ DispatchUnknown(w) \/ MarkReplySentFails(w)
    \/ MarkFails(w) \/ CrashWorker(w)

-------------------------------------------------------------------------------
(* The reconciliation loop: reconcileReplies, every 60 seconds.  Fewer      *)
(* replies than reconcileBatch are assumed, so LIMIT never cuts a sweep.    *)

\* updated_at falls behind its threshold: 5 minutes for sending, 3 for
\* approved.  Under ~SlowDispatch a live dispatch is over before that.
Age(r) ==
    /\ ~aged[r]
    /\ \/ status[r] = "approved"
       \/ status[r] = "sending" /\ (SlowDispatch \/ Senders(r) = {})
    /\ aged' = [aged EXCEPT ![r] = TRUE]
    /\ UNCHANGED <<status, retry, toEnqueue, queue, workVars, recVars,
                   histVars, faults>>

\* Mutant: the sweep lost its condition on updated_at.
StuckAtAnyAge == {r \in Reply : status[r] = "sending"}

Stuck == {r \in Reply : status[r] = "sending" /\ aged[r]}

\* Mutant: the pass only looks for stale approved replies.
ReclaimNothing(k) ==
    /\ rpc[k] = "idle"
    /\ rpc' = [rpc EXCEPT ![k] = "select"]
    /\ UNCHANGED <<dbVars, toEnqueue, queue, workVars, todo, histVars, faults>>

ReclaimStuckReplies(k) ==
    /\ rpc[k] = "idle"
    /\ LET back == {r \in Stuck : retry[r] < MaxDeliver}
       IN  /\ status' = [r \in Reply |-> IF r \in back THEN "approved"
                                         ELSE IF r \in Stuck THEN "failed"
                                         ELSE status[r]]
           /\ todo' = [todo EXCEPT ![k] = back]
    /\ retry' = [r \in Reply |-> IF r \in Stuck THEN Bump(retry[r]) ELSE retry[r]]
    /\ aged' = [r \in Reply |-> r \notin Stuck /\ aged[r]]
    /\ rpc' = [rpc EXCEPT ![k] = "select"]
    /\ UNCHANGED <<toEnqueue, queue, workVars, histVars, faults>>

\* Mutant: only what was reclaimed in this pass is enqueued again.
StaleNothing(k) ==
    /\ rpc[k] = "select"
    /\ rpc' = [rpc EXCEPT ![k] = "publish"]
    /\ UNCHANGED <<dbVars, toEnqueue, queue, workVars, todo, histVars, faults>>

StaleApprovedReplies(k) ==
    /\ rpc[k] = "select"
    /\ todo' = [todo EXCEPT ![k] =
                  @ \cup {r \in Reply : status[r] = "approved" /\ aged[r]}]
    /\ rpc' = [rpc EXCEPT ![k] = "publish"]
    /\ UNCHANGED <<dbVars, toEnqueue, queue, workVars, histVars, faults>>

Republish(k, m) ==
    /\ rpc[k] = "publish"
    /\ ReplyOf[m] \in todo[k]
    /\ Publish(m)
    /\ todo' = [todo EXCEPT ![k] = @ \ {ReplyOf[m]}]
    /\ UNCHANGED <<dbVars, toEnqueue, workVars, rpc, histVars, faults>>

\* A failed publish is only logged; the next pass finds the reply again.
RepublishLost(k, r) ==
    /\ rpc[k] = "publish"
    /\ r \in todo[k]
    /\ todo' = [todo EXCEPT ![k] = @ \ {r}]
    /\ Fault
    /\ UNCHANGED <<dbVars, toEnqueue, queue, workVars, rpc, histVars>>

PassDone(k) ==
    /\ rpc[k] = "publish"
    /\ todo[k] = {}
    /\ rpc' = [rpc EXCEPT ![k] = "idle"]
    /\ UNCHANGED <<dbVars, toEnqueue, queue, workVars, todo, histVars, faults>>

\* A database error ends the pass early, a crash ends it anywhere.
PassAborted(k) ==
    /\ rpc[k] # "idle"
    /\ rpc' = [rpc EXCEPT ![k] = "idle"]
    /\ todo' = [todo EXCEPT ![k] = {}]
    /\ Fault
    /\ UNCHANGED <<dbVars, toEnqueue, queue, workVars, histVars>>

ReconcilerStep(k) ==
    \/ ReclaimStuckReplies(k) \/ StaleApprovedReplies(k)
    \/ (\E m \in Msg : Republish(k, m)) \/ PassDone(k)

ReconcilerFault(k) == PassAborted(k) \/ \E r \in Reply : RepublishLost(k, r)

-------------------------------------------------------------------------------
Init ==
    /\ status = [r \in Reply |-> "none"]
    /\ retry = [r \in Reply |-> 0]
    /\ aged = [r \in Reply |-> FALSE]
    /\ toEnqueue = {}
    /\ queue = [m \in Msg |-> FreeSlot]
    /\ pc = [w \in Worker |-> "idle"]
    /\ job = [w \in Worker |-> NoJob]
    /\ rpc = [k \in Reconciler |-> "idle"]
    /\ todo = [k \in Reconciler |-> {}]
    /\ posted = {}
    /\ orphaned = {}
    /\ faults = FaultBudget

Next ==
    \/ Api
    \/ \E w \in Worker : WorkerStep(w) \/ WorkerFault(w)
    \/ \E m \in Msg : AckTimeout(m)
    \/ \E r \in Reply : Age(r)
    \/ \E k \in Reconciler : ReconcilerStep(k) \/ ReconcilerFault(k)

Spec == Init /\ [][Next]_vars

\* Processes that are up keep running and time passes; users owe nothing.
Fairness ==
    /\ \A w \in Worker : WF_vars(WorkerStep(w))
    /\ \A k \in Reconciler : WF_vars(ReconcilerStep(k))
    /\ \A m \in Msg : WF_vars(AckTimeout(m))
    /\ \A r \in Reply : WF_vars(Age(r))

FairSpec == Spec /\ Fairness

-------------------------------------------------------------------------------
(* Properties *)

\* Every variable keeps its type; a worker has a delivery iff it is not idle.
TypeOK ==
    /\ status \in [Reply -> Status]
    /\ retry \in [Reply -> 0..RetryCap]
    /\ aged \in [Reply -> BOOLEAN]
    /\ toEnqueue \in SUBSET Reply
    /\ queue \in [Msg -> Slot]
    /\ pc \in [Worker -> InFlight \cup {"idle", "claim", "ack", "nak"}]
    /\ job \in [Worker -> Job \cup {NoJob}]
    /\ \A w \in Worker : job[w] = NoJob <=> pc[w] = "idle"
    /\ rpc \in [Reconciler -> {"idle", "select", "publish"}]
    /\ todo \in [Reconciler -> SUBSET Reply]
    /\ posted \in SUBSET Reply
    /\ orphaned \in SUBSET Reply
    /\ faults \in 0..FaultBudget

\* However many copies of a message are delivered, and whatever the sweeps
\* republish, at most one worker is past the claim of a reply, and the row
\* says sending as long as it is (ClaimReplyForSend as the only gate).
ExclusiveSender ==
    \A v, w \in Worker :
        pc[v] \in InFlight =>
            /\ status[Target(v)] = "sending"
            /\ pc[w] \in InFlight /\ Target(w) = Target(v) => v = w

\* A reply the platform has accepted is recorded as sent, or its worker is on
\* the way to record it, or the acceptance was lost in a fault: only after such
\* a loss can a reply be posted again or end as failed (sendReply, MarkReply*).
PostedIsAccountedFor ==
    \A r \in posted :
        \/ status[r] = "sent"
        \/ r \in orphaned
        \/ \E w \in Senders(r) : pc[w] = "markSent"

\* A reply that waits for a reviewer or was turned down has not reached the
\* platform, and no worker or republication is on its way there with it.
UnapprovedStaysHome ==
    \A r \in Reply :
        status[r] \in {"none", "pending_approval", "rejected"} =>
            /\ r \notin posted
            /\ Senders(r) = {}
            /\ r \notin toEnqueue
            /\ \A k \in Reconciler : r \notin todo[k]
            /\ \A m \in Msg : ReplyOf[m] = r => queue[m].st = "free"

\* sent, failed and rejected are final: no reviewer, redelivery or sweep moves a
\* reply out of them, nor, if dispatches end in time (~SlowDispatch), does a
\* worker, whose write looks at no status (MarkReplySent, MarkReplyFailed).
SettledIsFinal ==
    [][\A r \in Reply : status[r] \in Terminal => status'[r] = status[r]]_vars

\* The sweep takes a sending reply back only when no live worker has it ("5
\* minutes without an update means stuck", cmd/replier/main.go).
ReclaimOnlyTheDead ==
    [][\A k \in Reconciler, r \in Reply :
          /\ ReclaimStuckReplies(k)
          /\ status[r] = "sending"
          /\ status'[r] # "sending"
          => Senders(r) = {}]_vars

\* An approved reply is not forgotten: lost publishes, dead letters and crashed
\* workers notwithstanding, it is claimed by a worker in the end.
ApprovedIsClaimed ==
    \A r \in Reply : status[r] = "approved" ~> status[r] = "sending"

\* No reply stays sending forever, whoever died while sending it.
SendingEnds ==
    \A r \in Reply : status[r] = "sending" ~> status[r] # "sending"

\* The pipeline does what the state diagram promises, and nothing else.
Lifecycle == INSTANCE ReplyLifecycle WITH Reply <- Reply, status <- status, posted <- posted

ImplementsLifecycle == Lifecycle!Spec
===============================================================================

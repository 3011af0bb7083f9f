-------------------------- MODULE ReplyPipelineProofs --------------------------
(***************************************************************************)
(* Theorems about ReplyPipeline, for every number of replies, messages,    *)
(* workers and reconcilers, every MaxDeliver and any number of faults.     *)
(***************************************************************************)
EXTENDS ReplyPipeline, FiniteSetTheorems, TLAPS

USE ReplyAssumption

-------------------------------------------------------------------------------
(* Facts about the helpers *)

\* A busy worker handles a delivery of some message, hence some reply.
LEMMA BusyHasTarget ==
    ASSUME TypeOK, NEW w \in Worker, pc[w] # "idle"
    PROVE  /\ job[w] \in Job
           /\ job[w].msg \in Msg
           /\ job[w].attempt \in 1..MaxDeliver
           /\ Target(w) \in Reply
<1>1. job[w] \in Job
  BY DEF TypeOK
<1>2. QED
  BY <1>1 DEF Job, Target

\* A held delivery that is released leaves every slot well formed.
LEMMA RequeueType ==
    ASSUME TypeOK, NEW m \in Msg, queue[m].st = "held"
    PROVE  Requeue(m) \in [Msg -> Slot]
<1>1. queue \in [Msg -> Slot]
  BY DEF TypeOK
<1>2. queue[m].n \in 1..MaxDeliver
  BY <1>1 DEF Slot, FreeSlot
<1>3. queue[m].n < MaxDeliver => [st |-> "ready", n |-> queue[m].n] \in Slot
  BY <1>2 DEF Slot
<1>4. FreeSlot \in Slot
  BY DEF Slot
<1>5. QED
  BY <1>1, <1>3, <1>4 DEF Requeue

LEMMA BumpType ==
    ASSUME NEW n \in 0..RetryCap
    PROVE  Bump(n) \in 0..RetryCap
BY DEF Bump

\* The workers other than w keep their place and their reply.
LEMMA OthersStay ==
    ASSUME TypeOK, NEW w \in Worker, WorkerStep(w) \/ WorkerFault(w)
    PROVE  \A v \in Worker \ {w} : pc'[v] = pc[v] /\ job'[v] = job[v] /\ Target(v)' = Target(v)
<1>1. \A v \in Worker \ {w} : pc'[v] = pc[v]
  BY DEF WorkerStep, WorkerFault, Receive, Ack, Nak, Answer, ClaimReplyForSend, ClaimFails,
         DispatchAccepted, DispatchUnknown, DispatchRefused, MarkReplySent,
         MarkReplySentFails, MarkReplyFailed, GiveUp, MarkFails, CrashWorker, Goto, TypeOK
<1>2. \A v \in Worker \ {w} : job'[v] = job[v]
  BY DEF WorkerStep, WorkerFault, Receive, Ack, Nak, Answer, ClaimReplyForSend, ClaimFails,
         DispatchAccepted, DispatchUnknown, DispatchRefused, MarkReplySent,
         MarkReplySentFails, MarkReplyFailed, GiveUp, MarkFails, CrashWorker, TypeOK
<1>3. QED
  BY <1>1, <1>2 DEF Target

-------------------------------------------------------------------------------
(* Type correctness *)

LEMMA InitType == Init => TypeOK
<1> SUFFICES ASSUME Init PROVE TypeOK
  OBVIOUS
<1>1. FreeSlot \in Slot
  BY DEF Slot
<1>2. QED
  BY <1>1 DEF Init, TypeOK, Status, InFlight, NoJob

LEMMA ApiType ==
    ASSUME TypeOK, Api
    PROVE  TypeOK'
<1>1. ASSUME NEW r \in Reply, CreateReply(r) PROVE TypeOK'
  BY <1>1 DEF CreateReply, TypeOK, WriteRow, Status, workVars, recVars, histVars
<1>2. ASSUME NEW r \in Reply, ApproveReply(r) PROVE TypeOK'
  BY <1>2 DEF ApproveReply, TypeOK, WriteRow, Status, workVars, recVars, histVars
<1>3. ASSUME NEW r \in Reply, RejectReply(r) PROVE TypeOK'
  BY <1>3 DEF RejectReply, TypeOK, WriteRow, Status, workVars, recVars, histVars
<1>5. ASSUME NEW r \in Reply, EnqueueLost(r) PROVE TypeOK'
  BY <1>5 DEF EnqueueLost, TypeOK, Fault, dbVars, workVars, recVars, histVars
<1>6. ASSUME NEW m \in Msg, EnqueueReply(m) PROVE TypeOK'
  <2>1. [st |-> "ready", n |-> 0] \in Slot
    BY DEF Slot
  <2>2. QED
    BY <1>6, <2>1 DEF EnqueueReply, Publish, TypeOK, dbVars, workVars, recVars, histVars
<1>7. QED
  BY <1>1, <1>2, <1>3, <1>5, <1>6 DEF Api

LEMMA AnswerType ==
    ASSUME TypeOK, NEW w \in Worker, NEW q \in [Msg -> Slot], Answer(w, q)
    PROVE  TypeOK'
<1>1. queue' \in [Msg -> Slot]
  BY DEF Answer, TypeOK
<1>2. pc' = [pc EXCEPT ![w] = "idle"] /\ job' = [job EXCEPT ![w] = NoJob]
  BY DEF Answer, Goto
<1>3. /\ pc' \in [Worker -> InFlight \cup {"idle", "claim", "ack", "nak"}]
      /\ job' \in [Worker -> Job \cup {NoJob}]
      /\ \A v \in Worker : job'[v] = NoJob <=> pc'[v] = "idle"
  BY <1>2 DEF TypeOK
<1>4. QED
  BY <1>1, <1>3 DEF Answer, TypeOK, dbVars, recVars, histVars

LEMMA AckType ==
    ASSUME TypeOK, NEW w \in Worker, Ack(w)
    PROVE  TypeOK'
<1>1. [queue EXCEPT ![job[w].msg] = FreeSlot] \in [Msg -> Slot]
  BY DEF TypeOK, Slot
<1>2. QED
  BY <1>1, AnswerType DEF Ack

LEMMA NakType ==
    ASSUME TypeOK, NEW w \in Worker, Nak(w)
    PROVE  TypeOK'
<1>1. job[w].msg \in Msg
  BY BusyHasTarget DEF Nak
<1>2. queue \in [Msg -> Slot]
  BY DEF TypeOK
<1>3. CASE queue[job[w].msg].st = "held"
  BY <1>1, <1>3, RequeueType, AnswerType DEF Nak
<1>4. CASE queue[job[w].msg].st # "held"
  BY <1>2, <1>4, AnswerType DEF Nak
<1>5. QED
  BY <1>3, <1>4

LEMMA ReceiveType ==
    ASSUME TypeOK, NEW w \in Worker, NEW m \in Msg, Receive(w, m)
    PROVE  TypeOK'
<1>1. queue[m].n \in 0..(MaxDeliver - 1)
  BY DEF Receive, TypeOK, Slot, FreeSlot
<1>2. [st |-> "held", n |-> queue[m].n + 1] \in Slot
  BY <1>1 DEF Slot
<1>3. [msg |-> m, attempt |-> queue[m].n + 1] \in Job
  BY <1>1 DEF Job
<1>4. [msg |-> m, attempt |-> queue[m].n + 1] # NoJob
  BY DEF NoJob
<1>5. queue' \in [Msg -> Slot]
  BY <1>2 DEF Receive, TypeOK
<1>6. /\ pc' \in [Worker -> InFlight \cup {"idle", "claim", "ack", "nak"}]
      /\ job' \in [Worker -> Job \cup {NoJob}]
      /\ \A v \in Worker : job'[v] = NoJob <=> pc'[v] = "idle"
  BY <1>3, <1>4 DEF Receive, Goto, TypeOK
<1>7. QED
  BY <1>5, <1>6 DEF Receive, TypeOK, dbVars, recVars, histVars

LEMMA AckTimeoutType ==
    ASSUME TypeOK, NEW m \in Msg, AckTimeout(m)
    PROVE  TypeOK'
BY RequeueType DEF AckTimeout, TypeOK, dbVars, workVars, recVars, histVars

\* The worker's own steps move pc and write one row, the history, the budget.
LEMMA HandlerType ==
    ASSUME TypeOK, NEW w \in Worker, pc[w] # "idle",
           \/ ClaimReplyForSend(w) \/ ClaimFails(w)
           \/ DispatchAccepted(w) \/ DispatchUnknown(w) \/ DispatchRefused(w)
           \/ MarkReplySent(w) \/ MarkReplySentFails(w) \/ MarkReplyFailed(w)
           \/ GiveUp(w) \/ MarkFails(w)
    PROVE  TypeOK'
<1>1. Target(w) \in Reply
  BY BusyHasTarget
<1>2. Bump(retry[Target(w)]) \in 0..RetryCap
  BY <1>1, BumpType DEF TypeOK
<1>3. CASE ClaimReplyForSend(w)
  BY <1>1, <1>3, ZenonT(40) DEF ClaimReplyForSend, WriteRow, Goto, TypeOK, Status, InFlight,
                   recVars, histVars
<1>4. CASE ClaimFails(w) \/ MarkFails(w)
  BY <1>4 DEF ClaimFails, MarkFails, Goto, Fault, TypeOK, InFlight,
             dbVars, recVars, histVars
<1>5. CASE DispatchAccepted(w) \/ DispatchUnknown(w) \/ DispatchRefused(w)
  BY <1>1, <1>5 DEF DispatchAccepted, DispatchUnknown, DispatchRefused, Goto, Fault,
                   TypeOK, InFlight, dbVars, recVars, histVars
<1>6. CASE MarkReplySent(w)
  BY <1>1, <1>6 DEF MarkReplySent, WriteRow, Goto, TypeOK, Status, InFlight,
                   recVars, histVars
<1>7. CASE MarkReplySentFails(w)
  BY <1>1, <1>7 DEF MarkReplySentFails, Goto, Fault, TypeOK, InFlight, dbVars, recVars
<1>8. CASE MarkReplyFailed(w)
  BY <1>1, <1>2, <1>8 DEF MarkReplyFailed, WriteRow, CountAttempt, Goto,
                   TypeOK, Status, InFlight, recVars, histVars
<1>9. CASE GiveUp(w)
  BY <1>1, <1>2, <1>9 DEF GiveUp, WriteRow, CountAttempt, Goto,
                   TypeOK, Status, InFlight, recVars, histVars
<1>10. QED
  BY <1>3, <1>4, <1>5, <1>6, <1>7, <1>8, <1>9

LEMMA CrashType ==
    ASSUME TypeOK, NEW w \in Worker, CrashWorker(w)
    PROVE  TypeOK'
<1>1. Target(w) \in Reply
  BY BusyHasTarget DEF CrashWorker
<1>2. QED
  BY <1>1 DEF CrashWorker, Goto, Fault, TypeOK, dbVars, recVars

LEMMA WorkerType ==
    ASSUME TypeOK, NEW w \in Worker, WorkerStep(w) \/ WorkerFault(w)
    PROVE  TypeOK'
<1>1. CASE \E m \in Msg : Receive(w, m)
  BY <1>1, ReceiveType
<1>2. CASE Ack(w) \/ Nak(w) \/ CrashWorker(w)
  BY <1>2, AckType, NakType, CrashType
<1>3. CASE \/ ClaimReplyForSend(w) \/ ClaimFails(w)
           \/ DispatchAccepted(w) \/ DispatchUnknown(w) \/ DispatchRefused(w)
           \/ MarkReplySent(w) \/ MarkReplySentFails(w) \/ MarkReplyFailed(w)
           \/ GiveUp(w) \/ MarkFails(w)
  <2>1. pc[w] # "idle"
    BY <1>3 DEF ClaimReplyForSend, ClaimFails, DispatchAccepted, DispatchUnknown,
           DispatchRefused, MarkReplySent, MarkReplySentFails, MarkReplyFailed,
           GiveUp, MarkFails
  <2>2. QED
    BY <1>3, <2>1, HandlerType
<1>4. QED
  BY <1>1, <1>2, <1>3 DEF WorkerStep, WorkerFault

LEMMA AgeType ==
    ASSUME TypeOK, NEW r \in Reply, Age(r)
    PROVE  TypeOK'
BY DEF Age, TypeOK, workVars, recVars, histVars

LEMMA ReconcilerType ==
    ASSUME TypeOK, NEW k \in Reconciler, ReconcilerStep(k) \/ ReconcilerFault(k)
    PROVE  TypeOK'
<1>1. CASE ReclaimStuckReplies(k)
  <2>1. \A r \in Reply : Bump(retry[r]) \in 0..RetryCap
    BY BumpType DEF TypeOK
  <2>2. status' \in [Reply -> Status] /\ aged' \in [Reply -> BOOLEAN]
    BY <1>1 DEF ReclaimStuckReplies, TypeOK, Status
  <2>3. retry' \in [Reply -> 0..RetryCap]
    BY <1>1, <2>1 DEF ReclaimStuckReplies, TypeOK
  <2>4. /\ todo' \in [Reconciler -> SUBSET Reply]
        /\ rpc' \in [Reconciler -> {"idle", "select", "publish"}]
    BY <1>1 DEF ReclaimStuckReplies, TypeOK, Stuck
  <2>5. QED
    BY <1>1, <2>2, <2>3, <2>4 DEF ReclaimStuckReplies, TypeOK, workVars, histVars
<1>2. CASE StaleApprovedReplies(k)
  BY <1>2 DEF StaleApprovedReplies, TypeOK, dbVars, workVars, histVars
<1>3. ASSUME NEW m \in Msg, Republish(k, m) PROVE TypeOK'
  <2>1. [st |-> "ready", n |-> 0] \in Slot
    BY DEF Slot
  <2>2. QED
    BY <1>3, <2>1 DEF Republish, Publish, TypeOK, dbVars, workVars, histVars
<1>4. CASE PassDone(k)
  BY <1>4 DEF PassDone, TypeOK, dbVars, workVars, histVars
<1>5. CASE PassAborted(k)
  BY <1>5 DEF PassAborted, Fault, TypeOK, dbVars, workVars, histVars
<1>6. ASSUME NEW r \in Reply, RepublishLost(k, r) PROVE TypeOK'
  BY <1>6 DEF RepublishLost, Fault, TypeOK, dbVars, workVars, histVars
<1>7. QED
  BY <1>1, <1>2, <1>3, <1>4, <1>5, <1>6 DEF ReconcilerStep, ReconcilerFault

LEMMA NextType == TypeOK /\ [Next]_vars => TypeOK'
<1> SUFFICES ASSUME TypeOK, [Next]_vars PROVE TypeOK'
  OBVIOUS
<1>1. CASE UNCHANGED vars
  BY <1>1 DEF vars, TypeOK, dbVars, workVars, recVars, histVars
<1>2. CASE Next
  BY <1>2, ApiType, WorkerType, AckTimeoutType, AgeType, ReconcilerType DEF Next
<1>3. QED
  BY <1>1, <1>2

\* The types of the tables, of the queue and of the processes' locals hold in
\* every reachable state; in particular no message is delivered more than
\* MaxDeliver times and every busy worker has a delivery to answer.
THEOREM TypeCorrect == Spec => []TypeOK
<1>1. QED
  BY InitType, NextType, PTL DEF Spec

-------------------------------------------------------------------------------
(* Exclusive sending, when the sweep reclaims from the dead only *)

SenderInv ==
    /\ \A v \in Worker : pc[v] \in InFlight => status[Target(v)] = "sending"
    /\ \A v, w \in Worker :
          pc[v] \in InFlight /\ pc[w] \in InFlight /\ Target(v) = Target(w) => v = w

\* The step of ReclaimOnlyTheDead.  SenderInv is not inductive without it: the
\* sweep looks at the row only, and may take a reply from its sender.
ReclaimsDead ==
    \A k \in Reconciler, r \in Reply :
        /\ ReclaimStuckReplies(k)
        /\ status[r] = "sending"
        /\ status'[r] # "sending"
        => Senders(r) = {}

LEMMA SenderInvExclusive == SenderInv => ExclusiveSender
BY DEF SenderInv, ExclusiveSender

\* Workers that are idle, or about to claim or to answer, own nothing.
LEMMA NotInFlight == InFlight \cap {"idle", "claim", "ack", "nak"} = {}
BY DEF InFlight

\* A worker that enters no critical step, over unchanged rows, disturbs nothing.
LEMMA SenderCalm ==
    ASSUME TypeOK, SenderInv,
           \A r \in Reply : status[r] = "sending" => status'[r] = "sending",
           \A v \in Worker : pc'[v] \in InFlight =>
              pc[v] \in InFlight /\ job'[v] = job[v]
    PROVE  SenderInv'
<1>1. \A v \in Worker : pc'[v] \in InFlight =>
          Target(v)' = Target(v) /\ Target(v) \in Reply /\ pc[v] \in InFlight
  BY BusyHasTarget, NotInFlight DEF Target
<1>2. QED
  BY <1>1 DEF SenderInv

\* A worker that writes its own row and leaves the critical steps with it.
LEMMA SenderLeaves ==
    ASSUME TypeOK, SenderInv, NEW w \in Worker, pc[w] \in InFlight,
           NEW s, WriteRow(Target(w), s),
           job' = job, NEW l \in {"ack", "nak"}, Goto(w, l)
    PROVE  SenderInv'
<1>1. \A v \in Worker : pc'[v] \in InFlight => v # w /\ pc[v] \in InFlight
  BY NotInFlight DEF Goto, TypeOK
<1>2. \A v \in Worker : Target(v)' = Target(v)
  BY DEF Target
<1>3. \A v \in Worker : pc[v] \in InFlight => Target(v) \in Reply
  BY BusyHasTarget, NotInFlight
<1>4. \A v \in Worker : pc'[v] \in InFlight => Target(v) # Target(w)
  BY <1>1 DEF SenderInv
<1>5. \A v \in Worker : pc'[v] \in InFlight => status'[Target(v)] = status[Target(v)]
  BY <1>1, <1>3, <1>4 DEF WriteRow, TypeOK
<1>6. QED
  BY <1>1, <1>2, <1>5 DEF SenderInv

\* The claim: the row was approved, so nobody else was in flight with it.
LEMMA SenderClaims ==
    ASSUME TypeOK, SenderInv, NEW w \in Worker, ClaimReplyForSend(w)
    PROVE  SenderInv'
<1>1. job' = job /\ pc[w] = "claim"
  BY DEF ClaimReplyForSend
<1>2. \A v \in Worker : Target(v)' = Target(v)
  BY <1>1 DEF Target
<1>3. \A v \in Worker : pc[v] \in InFlight => Target(v) \in Reply
  BY BusyHasTarget, NotInFlight
<1>4. Target(w) \in Reply
  BY <1>1, BusyHasTarget
<1>5. CASE status[Target(w)] = "approved"
  <2>1. \A v \in Worker : v # w => pc'[v] = pc[v]
    BY <1>5 DEF ClaimReplyForSend, Goto, TypeOK
  <2>2. \A v \in Worker : pc[v] \in InFlight => Target(v) # Target(w)
    BY <1>5 DEF SenderInv
  <2>3. status'[Target(w)] = "sending"
    BY <1>4, <1>5 DEF ClaimReplyForSend, WriteRow, TypeOK
  <2>4. \A v \in Worker : pc[v] \in InFlight => status'[Target(v)] = status[Target(v)]
    BY <1>3, <1>5, <2>2 DEF ClaimReplyForSend, WriteRow, TypeOK
  <2>5. QED
    BY <1>2, <2>1, <2>2, <2>3, <2>4 DEF SenderInv
<1>6. CASE status[Target(w)] # "approved"
  <2>1. UNCHANGED <<status, aged>> /\ Goto(w, "ack")
    BY <1>6 DEF ClaimReplyForSend
  <2>2. \A v \in Worker : pc'[v] \in InFlight => pc[v] \in InFlight
    BY <2>1, NotInFlight DEF Goto, TypeOK
  <2>3. QED
    BY <1>1, <2>1, <2>2, SenderCalm
<1>7. QED
  BY <1>5, <1>6

LEMMA SenderWorker ==
    ASSUME TypeOK, SenderInv, NEW w \in Worker, WorkerStep(w) \/ WorkerFault(w)
    PROVE  SenderInv'
<1>1. ASSUME NEW m \in Msg, Receive(w, m) PROVE SenderInv'
  <2>1. UNCHANGED <<status, aged>>
    BY <1>1 DEF Receive, dbVars
  <2>2. \A v \in Worker : pc'[v] \in InFlight => pc[v] \in InFlight /\ job'[v] = job[v]
    BY <1>1, NotInFlight DEF Receive, Goto, TypeOK
  <2>3. QED
    BY <2>1, <2>2, SenderCalm
<1>2. CASE Ack(w) \/ Nak(w)
  <2>1. UNCHANGED <<status, aged>> /\ Goto(w, "idle") /\ job' = [job EXCEPT ![w] = NoJob]
    BY <1>2 DEF Ack, Nak, Answer, dbVars
  <2>2. \A v \in Worker : pc'[v] \in InFlight => pc[v] \in InFlight /\ job'[v] = job[v]
    BY <2>1, NotInFlight DEF Goto, TypeOK
  <2>3. QED
    BY <2>1, <2>2, SenderCalm
<1>3. CASE CrashWorker(w)
  <2>1. UNCHANGED <<status, aged>> /\ Goto(w, "idle") /\ job' = [job EXCEPT ![w] = NoJob]
    BY <1>3 DEF CrashWorker, dbVars
  <2>2. \A v \in Worker : pc'[v] \in InFlight => pc[v] \in InFlight /\ job'[v] = job[v]
    BY <2>1, NotInFlight DEF Goto, TypeOK
  <2>3. QED
    BY <2>1, <2>2, SenderCalm
<1>4. CASE ClaimReplyForSend(w)
  BY <1>4, SenderClaims
<1>5. CASE ClaimFails(w) \/ MarkReplySentFails(w) \/ MarkFails(w)
  <2>1. UNCHANGED <<status, aged, job>> /\ (Goto(w, "nak") \/ Goto(w, "ack"))
    BY <1>5 DEF ClaimFails, MarkReplySentFails, MarkFails, dbVars
  <2>2. \A v \in Worker : pc'[v] \in InFlight => pc[v] \in InFlight
    BY <2>1, NotInFlight DEF Goto, TypeOK
  <2>3. QED
    BY <2>1, <2>2, SenderCalm
<1>6. CASE DispatchAccepted(w) \/ DispatchUnknown(w) \/ DispatchRefused(w)
  <2>1. /\ UNCHANGED <<status, aged, job>>
        /\ pc[w] = "dispatch"
        /\ Goto(w, "markSent") \/ Goto(w, "markFailed")
    BY <1>6 DEF DispatchAccepted, DispatchUnknown, DispatchRefused, dbVars
  <2>2. \A v \in Worker : pc'[v] \in InFlight => pc[v] \in InFlight
    BY <2>1 DEF InFlight, Goto, TypeOK
  <2>3. QED
    BY <2>1, <2>2, SenderCalm
<1>7. CASE MarkReplySent(w)
  BY <1>7, SenderLeaves DEF MarkReplySent, InFlight
<1>8. CASE MarkReplyFailed(w)
  BY <1>8, SenderLeaves DEF MarkReplyFailed, InFlight
<1>9. CASE GiveUp(w)
  BY <1>9, SenderLeaves DEF GiveUp, InFlight
<1>10. QED
  BY <1>1, <1>2, <1>3, <1>4, <1>5, <1>6, <1>7, <1>8, <1>9 DEF WorkerStep, WorkerFault

\* The API writes rows that are not being sent.
LEMMA SenderApi ==
    ASSUME TypeOK, SenderInv, Api
    PROVE  SenderInv'
<1>1. UNCHANGED workVars
  BY DEF Api, CreateReply, ApproveReply, RejectReply, EnqueueLost, EnqueueReply
<1>2. \A r \in Reply : status[r] = "sending" => status'[r] = "sending"
  <2>1. ASSUME NEW q \in Reply, NEW s, status[q] # "sending", WriteRow(q, s)
        PROVE  \A r \in Reply : status[r] = "sending" => status'[r] = "sending"
    BY <2>1 DEF WriteRow, TypeOK
  <2>2. CASE \E q \in Reply : CreateReply(q) \/ ApproveReply(q) \/ RejectReply(q)
    <3>1. PICK q \in Reply : CreateReply(q) \/ ApproveReply(q) \/ RejectReply(q)
      BY <2>2
    <3>2. status[q] # "sending" /\ \E s \in Status : WriteRow(q, s)
      BY <3>1 DEF CreateReply, ApproveReply, RejectReply, Status
    <3>3. QED
      BY <3>2, <2>1
  <2>3. CASE UNCHANGED dbVars
    BY <2>3 DEF dbVars
  <2>4. QED
    BY <2>2, <2>3 DEF Api, EnqueueLost, EnqueueReply
<1>3. QED
  BY <1>1, <1>2, SenderCalm DEF workVars

\* The sweep reclaims no row that has a sender.
LEMMA SenderReclaim ==
    ASSUME TypeOK, SenderInv, ReclaimsDead, NEW k \in Reconciler, ReclaimStuckReplies(k)
    PROVE  SenderInv'
<1>1. \A v \in Worker : pc[v] \in InFlight => Target(v) \in Reply
  BY BusyHasTarget, NotInFlight
<1>2. \A v \in Worker : pc[v] \in InFlight => status'[Target(v)] = "sending"
  BY <1>1 DEF ReclaimsDead, Senders, SenderInv
<1>3. UNCHANGED workVars
  BY DEF ReclaimStuckReplies
<1>4. QED
  BY <1>2, <1>3 DEF SenderInv, workVars, Target

LEMMA SenderReconciler ==
    ASSUME TypeOK, SenderInv, ReclaimsDead, NEW k \in Reconciler, ReconcilerStep(k) \/ ReconcilerFault(k)
    PROVE  SenderInv'
<1>1. CASE ReclaimStuckReplies(k)
  BY <1>1, SenderReclaim
<1>2. CASE ~ReclaimStuckReplies(k)
  <2>1. UNCHANGED <<dbVars, workVars>>
    BY <1>2 DEF ReconcilerStep, ReconcilerFault, StaleApprovedReplies, Republish, PassDone,
                PassAborted, RepublishLost
  <2>2. QED
    BY <2>1, SenderCalm DEF dbVars, workVars
<1>3. QED
  BY <1>1, <1>2

LEMMA SenderNext == TypeOK /\ SenderInv /\ [Next /\ ReclaimsDead]_vars => SenderInv'
<1> SUFFICES ASSUME TypeOK, SenderInv, [Next /\ ReclaimsDead]_vars PROVE SenderInv'
  OBVIOUS
<1>1. CASE UNCHANGED vars
  BY <1>1, SenderCalm DEF vars, dbVars, workVars
<1>2. ASSUME NEW m \in Msg, AckTimeout(m) PROVE SenderInv'
  BY <1>2, SenderCalm DEF AckTimeout, dbVars, workVars
<1>3. ASSUME NEW r \in Reply, Age(r) PROVE SenderInv'
  BY <1>3, SenderCalm DEF Age, dbVars, workVars
<1>4. QED
  BY <1>1, <1>2, <1>3, SenderApi, SenderWorker, SenderReconciler DEF Next

LEMMA InitSender == Init => SenderInv
BY NotInFlight DEF Init, SenderInv

-------------------------------------------------------------------------------
(* When no dispatch outlasts stuckSendingAfter, only the dead lose a reply *)

\* A row with a live sender is never old enough to be reclaimed.
FreshInv == \A v \in Worker : pc[v] \in InFlight => ~aged[Target(v)]

\* Only the passing of time makes a row old.
LEMMA OnlyAgeAges ==
    ASSUME TypeOK, Next, NEW r \in Reply, aged'[r], ~aged[r]
    PROVE  Age(r)
<1>1. \A q \in Reply, s \in Status : WriteRow(q, s) => ~aged'[r]
  BY DEF WriteRow, TypeOK
<1>2. ~Api
  BY <1>1 DEF Api, CreateReply, ApproveReply, RejectReply, EnqueueLost, EnqueueReply,
              dbVars, Status
<1>3. ASSUME NEW w \in Worker PROVE ~(WorkerStep(w) \/ WorkerFault(w))
  <2>1. \A s \in Status : WriteRow(Target(w), s) => ~aged'[r]
    BY DEF WriteRow, TypeOK
  <2>2. QED
    BY <2>1 DEF WorkerStep, WorkerFault, Receive, Ack, Nak, Answer, ClaimReplyForSend,
         ClaimFails, DispatchAccepted, DispatchUnknown, DispatchRefused, MarkReplySent,
         MarkReplySentFails, MarkReplyFailed, GiveUp, MarkFails, CrashWorker, dbVars, Status
<1>4. ASSUME NEW k \in Reconciler PROVE ~(ReconcilerStep(k) \/ ReconcilerFault(k))
  BY DEF ReconcilerStep, ReconcilerFault, ReclaimStuckReplies, StaleApprovedReplies,
         Republish, PassDone, PassAborted, RepublishLost, dbVars
<1>5. ASSUME NEW q \in Reply, Age(q) PROVE q = r
  BY <1>5 DEF Age, TypeOK
<1>6. QED
  BY <1>2, <1>3, <1>4, <1>5 DEF Next, AckTimeout, dbVars

\* Only the claim makes a sender, and it takes a row that was just written.
LEMMA OnlyClaimStartsSending ==
    ASSUME TypeOK, Next, NEW v \in Worker, pc'[v] \in InFlight
    PROVE  /\ Target(v)' = Target(v) /\ Target(v) \in Reply
           /\ pc[v] \in InFlight \/ ~aged'[Target(v)]
<1>1. CASE UNCHANGED workVars
  BY <1>1, BusyHasTarget, NotInFlight DEF workVars, Target
<1>2. ASSUME NEW w \in Worker, WorkerStep(w) \/ WorkerFault(w), v # w
      PROVE  UNCHANGED <<pc[v], job[v]>>
  BY <1>2, OthersStay
<1>3. CASE WorkerStep(v) \/ WorkerFault(v)
  <2>1. pc[v] # "idle" /\ job'[v] = job[v]
    BY <1>3, NotInFlight DEF WorkerStep, WorkerFault, Receive, Ack, Nak, Answer,
         ClaimReplyForSend, ClaimFails, DispatchAccepted, DispatchUnknown, DispatchRefused,
         MarkReplySent, MarkReplySentFails, MarkReplyFailed, GiveUp, MarkFails,
         CrashWorker, Goto, TypeOK
  <2>2. Target(v)' = Target(v) /\ Target(v) \in Reply
    BY <2>1, BusyHasTarget DEF Target
  <2>3. pc[v] \in InFlight \/ (pc[v] = "claim" /\ WriteRow(Target(v), "sending"))
    BY <1>3, NotInFlight DEF WorkerStep, WorkerFault, Receive, Ack, Nak, Answer,
         ClaimReplyForSend, ClaimFails, DispatchAccepted, DispatchUnknown, DispatchRefused,
         MarkReplySent, MarkReplySentFails, MarkReplyFailed, GiveUp, MarkFails,
         CrashWorker, Goto, TypeOK, InFlight
  <2>4. QED
    BY <2>2, <2>3 DEF WriteRow, TypeOK
<1>4. CASE \E w \in Worker : WorkerStep(w) \/ WorkerFault(w)
  BY <1>2, <1>3, <1>4, BusyHasTarget, NotInFlight DEF Target
<1>5. Api => UNCHANGED workVars
  BY DEF Api, CreateReply, ApproveReply, RejectReply, EnqueueLost, EnqueueReply
<1>6. ASSUME NEW k \in Reconciler, ReconcilerStep(k) \/ ReconcilerFault(k)
      PROVE  UNCHANGED workVars
  BY <1>6 DEF ReconcilerStep, ReconcilerFault, ReclaimStuckReplies, StaleApprovedReplies,
              Republish, PassDone, PassAborted, RepublishLost
<1>7. QED
  BY <1>1, <1>4, <1>5, <1>6 DEF Next, AckTimeout, Age

LEMMA FreshNext ==
    ASSUME ~SlowDispatch
    PROVE  TypeOK /\ SenderInv /\ FreshInv /\ [Next]_vars => FreshInv'
<1> SUFFICES ASSUME TypeOK, SenderInv, FreshInv, [Next]_vars,
                    NEW v \in Worker, pc'[v] \in InFlight
             PROVE  ~aged'[Target(v)']
  BY DEF FreshInv, Target
<1>1. CASE UNCHANGED vars
  BY <1>1 DEF vars, dbVars, workVars, FreshInv, Target
<1>2. CASE Next
  <2>1. Target(v)' = Target(v) /\ Target(v) \in Reply
    BY <1>2, OnlyClaimStartsSending
  <2>2. CASE pc[v] \in InFlight
    <3>1. ~Age(Target(v))
      BY <2>2 DEF Age, SenderInv, Senders
    <3>2. ~aged[Target(v)]
      BY <2>2 DEF FreshInv
    <3>3. QED
      BY <1>2, <2>1, <3>1, <3>2, OnlyAgeAges
  <2>3. CASE ~aged'[Target(v)]
    BY <2>1, <2>3
  <2>4. QED
    BY <1>2, <2>2, <2>3, OnlyClaimStartsSending
<1>3. QED
  BY <1>1, <1>2

\* The sweep takes old rows only.
LEMMA FreshReclaimsDead == TypeOK /\ FreshInv => ReclaimsDead
BY DEF TypeOK, FreshInv, ReclaimsDead, ReclaimStuckReplies, Stuck, Senders

\* With dispatches that end within the five minutes, only a reply whose worker
\* is gone is taken back by the sweep, although the sweep sees rows only.
THEOREM ReclaimedIsDead ==
    ASSUME ~SlowDispatch
    PROVE  Spec => ReclaimOnlyTheDead
<1>1. Init => FreshInv
  BY NotInFlight DEF Init, FreshInv
<1>2. TypeOK /\ SenderInv /\ FreshInv /\ [Next]_vars => SenderInv' /\ FreshInv'
  BY FreshReclaimsDead, SenderNext, FreshNext
<1>3. TypeOK /\ FreshInv /\ [Next]_vars => [ReclaimsDead]_vars
  BY FreshReclaimsDead
<1>4. QED
  BY <1>1, <1>2, <1>3, InitSender, TypeCorrect, PTL
     DEF Spec, ReclaimOnlyTheDead, ReclaimsDead

-------------------------------------------------------------------------------
(* What reached the platform *)

\* The strengthening of PostedIsAccountedFor: a worker that is about to record
\* an acceptance has one to record.
PostedInv ==
    /\ \A v \in Worker : pc[v] = "markSent" => Target(v) \in posted
    /\ PostedIsAccountedFor

\* A step that neither posts nor touches a worker that is recording, and that
\* takes no reply out of sent, keeps every post accounted for.
LEMMA PostedCalm ==
    ASSUME TypeOK, PostedInv,
           posted' = posted, orphaned \subseteq orphaned',
           \A r \in Reply : status[r] = "sent" => status'[r] = "sent",
           \A v \in Worker : (pc'[v] = "markSent" <=> pc[v] = "markSent")
                             /\ (pc[v] = "markSent" => job'[v] = job[v])
    PROVE  PostedInv'
<1>1. \A v \in Worker : pc[v] = "markSent" => Target(v)' = Target(v)
  BY DEF Target
<1>2. \A v \in Worker : pc'[v] = "markSent" => Target(v)' \in posted'
  BY <1>1 DEF PostedInv
<1>3. ASSUME NEW r \in posted'
      PROVE  \/ status'[r] = "sent"
             \/ r \in orphaned'
             \/ \E w \in Worker : pc'[w] = "markSent" /\ Target(w)' = r
  <2>1. r \in Reply
    BY <1>3 DEF TypeOK
  <2>2. \/ status[r] = "sent"
        \/ r \in orphaned
        \/ \E w \in Worker : pc[w] = "markSent" /\ Target(w) = r
    BY <1>3 DEF PostedInv, PostedIsAccountedFor, Senders
  <2>3. QED
    BY <2>1, <2>2, <1>1
<1>4. PostedIsAccountedFor'
  BY <1>3 DEF PostedIsAccountedFor, Senders, InFlight
<1>5. QED
  BY <1>2, <1>4 DEF PostedInv

\* The four steps that post, or that end the recording of a post.
LEMMA PostedByWorker ==
    ASSUME TypeOK, SenderInv, PostedInv, NEW w \in Worker,
           \/ DispatchAccepted(w) \/ DispatchUnknown(w)
           \/ MarkReplySent(w) \/ MarkReplySentFails(w)
           \/ (CrashWorker(w) /\ pc[w] = "markSent")
    PROVE  PostedInv'
<1>1. pc[w] \in {"dispatch", "markSent"}
  BY DEF DispatchAccepted, DispatchUnknown, MarkReplySent, MarkReplySentFails
<1>2. Target(w) \in Reply /\ status[Target(w)] = "sending"
  BY <1>1, BusyHasTarget DEF SenderInv, InFlight
<1>3. \A v \in Worker \ {w} : pc'[v] = pc[v] /\ job'[v] = job[v] /\ Target(v)' = Target(v)
  BY OthersStay DEF WorkerStep, WorkerFault
<1>4. \A r \in Reply : status[r] = "sent" => status'[r] = "sent"
  BY <1>2 DEF DispatchAccepted, DispatchUnknown, MarkReplySent, MarkReplySentFails,
              CrashWorker, WriteRow, dbVars, TypeOK
<1>5. /\ posted' \in {posted, posted \cup {Target(w)}}
      /\ orphaned \subseteq orphaned'
  BY DEF DispatchAccepted, DispatchUnknown, MarkReplySent, MarkReplySentFails,
         CrashWorker, histVars
<1>6. pc'[w] = "markSent" => Target(w)' = Target(w) /\ Target(w) \in posted'
  BY DEF DispatchAccepted, DispatchUnknown, MarkReplySent, MarkReplySentFails,
         CrashWorker, Goto, TypeOK, Target
<1>7. \/ status'[Target(w)] = "sent"
      \/ Target(w) \in orphaned'
      \/ pc'[w] = "markSent" /\ Target(w)' = Target(w)
  BY <1>2 DEF DispatchAccepted, DispatchUnknown, MarkReplySent, MarkReplySentFails,
         CrashWorker, Goto, WriteRow, TypeOK, Target
<1>8. \A v \in Worker : pc'[v] = "markSent" => Target(v)' \in posted'
  BY <1>3, <1>5, <1>6 DEF PostedInv
<1>9. ASSUME NEW r \in posted'
      PROVE  \/ status'[r] = "sent"
             \/ r \in orphaned'
             \/ \E v \in Worker : pc'[v] = "markSent" /\ Target(v)' = r
  <2>1. CASE r = Target(w)
    BY <2>1, <1>7
  <2>2. CASE r # Target(w)
    <3>1. r \in posted /\ r \in Reply
      BY <1>9, <1>5, <2>2 DEF TypeOK
    <3>2. \/ status[r] = "sent"
          \/ r \in orphaned
          \/ \E v \in Worker \ {w} : pc[v] = "markSent" /\ Target(v) = r
      BY <3>1, <2>2 DEF PostedInv, PostedIsAccountedFor, Senders
    <3>3. QED
      BY <3>1, <3>2, <1>3, <1>4, <1>5
  <2>3. QED
    BY <2>1, <2>2
<1>10. PostedIsAccountedFor'
  BY <1>9 DEF PostedIsAccountedFor, Senders, InFlight
<1>11. QED
  BY <1>8, <1>10 DEF PostedInv

-------------------------------------------------------------------------------
(* The pipeline implements the life cycle *)

\* Every step of the pipeline is a step of the state diagram or changes
\* neither the rows nor what has been posted.
LEMMA StepIsLifecycleStep ==
    ASSUME TypeOK, SenderInv, PostedInv, Next
    PROVE  [Lifecycle!Next]_<<status, posted>>
<1> USE DEF Lifecycle!Next, Lifecycle!Move
<1>1. ASSUME NEW r \in Reply, CreateReply(r) PROVE Lifecycle!Next
  BY <1>1 DEF CreateReply, WriteRow, histVars, Lifecycle!Create
<1>2. ASSUME NEW r \in Reply, ApproveReply(r) \/ RejectReply(r) PROVE Lifecycle!Next
  BY <1>2 DEF ApproveReply, RejectReply, WriteRow, histVars, Lifecycle!Decide
<1>3. CASE Api
  BY <1>1, <1>2, <1>3 DEF Api, EnqueueLost, EnqueueReply, dbVars, histVars
<1>4. ASSUME NEW w \in Worker, ClaimReplyForSend(w) PROVE [Lifecycle!Next]_<<status, posted>>
  <2>1. Target(w) \in Reply
    BY <1>4, BusyHasTarget DEF ClaimReplyForSend
  <2>2. QED
    BY <1>4, <2>1 DEF ClaimReplyForSend, WriteRow, histVars, Lifecycle!Claim
<1>5. ASSUME NEW w \in Worker, DispatchAccepted(w) \/ DispatchUnknown(w)
      PROVE  Lifecycle!Next
  <2>1. pc[w] = "dispatch"
    BY <1>5 DEF DispatchAccepted, DispatchUnknown
  <2>2. Target(w) \in Reply /\ status[Target(w)] = "sending"
    BY <2>1, BusyHasTarget DEF SenderInv, InFlight
  <2>3. QED
    BY <1>5, <2>2 DEF DispatchAccepted, DispatchUnknown, dbVars, Lifecycle!Post
<1>6. ASSUME NEW w \in Worker, MarkReplySent(w) PROVE Lifecycle!Next
  <2>1. Target(w) \in Reply /\ status[Target(w)] = "sending" /\ Target(w) \in posted
    BY <1>6, BusyHasTarget DEF MarkReplySent, SenderInv, PostedInv, InFlight
  <2>2. QED
    BY <1>6, <2>1 DEF MarkReplySent, WriteRow, histVars, Lifecycle!Succeed
<1>7. ASSUME NEW w \in Worker, MarkReplyFailed(w) \/ GiveUp(w) PROVE Lifecycle!Next
  <2>1. pc[w] \in {"markFailed", "giveUp"}
    BY <1>7 DEF MarkReplyFailed, GiveUp
  <2>2. Target(w) \in Reply /\ status[Target(w)] = "sending"
    BY <2>1, BusyHasTarget DEF SenderInv, InFlight
  <2>3. PICK s \in {"approved", "failed"} :
          status' = [status EXCEPT ![Target(w)] = s] /\ posted' = posted
    BY <1>7 DEF MarkReplyFailed, GiveUp, WriteRow, histVars
  <2> DEFINE S == {Target(w)}
             T == IF s = "approved" THEN S ELSE {}
  <2>4. status' = [r \in Reply |-> IF r \in T THEN "approved"
                                   ELSE IF r \in S THEN "failed" ELSE status[r]]
    BY <2>2, <2>3 DEF TypeOK
  <2>5. S \in SUBSET Reply /\ T \in SUBSET S /\ \A r \in S : status[r] = "sending"
    BY <2>2
  <2>6. Lifecycle!GiveBack(S)
    BY <2>3, <2>4, <2>5 DEF Lifecycle!GiveBack
  <2>7. QED
    BY <2>5, <2>6
<1>8. ASSUME NEW k \in Reconciler, ReclaimStuckReplies(k) PROVE Lifecycle!Next
  <2> DEFINE T == {r \in Stuck : retry[r] < MaxDeliver}
  <2>1. status' = [r \in Reply |-> IF r \in T THEN "approved"
                                   ELSE IF r \in Stuck THEN "failed" ELSE status[r]]
    BY <1>8 DEF ReclaimStuckReplies
  <2>2. Stuck \in SUBSET Reply /\ T \in SUBSET Stuck /\ \A r \in Stuck : status[r] = "sending"
    BY DEF Stuck
  <2>3. posted' = posted
    BY <1>8 DEF ReclaimStuckReplies, histVars
  <2>4. Lifecycle!GiveBack(Stuck)
    BY <2>1, <2>2, <2>3 DEF Lifecycle!GiveBack
  <2>5. QED
    BY <2>2, <2>4
<1>9. ASSUME NEW w \in Worker, WorkerStep(w) \/ WorkerFault(w)
      PROVE  [Lifecycle!Next]_<<status, posted>>
  <2>1. \/ ClaimReplyForSend(w) \/ DispatchAccepted(w) \/ DispatchUnknown(w)
        \/ MarkReplySent(w) \/ MarkReplyFailed(w) \/ GiveUp(w)
        \/ UNCHANGED <<status, posted>>
    BY <1>9 DEF WorkerStep, WorkerFault, Receive, Ack, Nak, Answer, ClaimFails,
         DispatchRefused, MarkReplySentFails, MarkFails, CrashWorker, dbVars, histVars
  <2>2. QED
    BY <2>1, <1>4, <1>5, <1>6, <1>7
<1>10. ASSUME NEW k \in Reconciler, ReconcilerStep(k) \/ ReconcilerFault(k)
       PROVE  [Lifecycle!Next]_<<status, posted>>
  BY <1>8, <1>10 DEF ReconcilerStep, ReconcilerFault, StaleApprovedReplies, Republish,
         PassDone, PassAborted, RepublishLost, dbVars, histVars
<1>11. QED
  BY <1>3, <1>9, <1>10 DEF Next, AckTimeout, Age, dbVars, histVars

\* No arrow of the diagram leaves sent, failed or rejected.
LEMMA LifecycleKeepsTerminal ==
    ASSUME status \in [Reply -> Status], [Lifecycle!Next]_<<status, posted>>
    PROVE  \A r \in Reply : status[r] \in Terminal => status'[r] = status[r]
<1>1. ASSUME NEW r \in Reply, NEW from \in Status \ Terminal, NEW to,
             Lifecycle!Move(r, from, to)
      PROVE  \A q \in Reply : status[q] \in Terminal => status'[q] = status[q]
  BY <1>1 DEF Lifecycle!Move
<1>2. ASSUME NEW r \in Reply, Lifecycle!Create(r) \/ Lifecycle!Decide(r)
             \/ Lifecycle!Claim(r) \/ Lifecycle!Succeed(r)
      PROVE  \A q \in Reply : status[q] \in Terminal => status'[q] = status[q]
  BY <1>1, <1>2 DEF Lifecycle!Create, Lifecycle!Decide, Lifecycle!Claim,
                   Lifecycle!Succeed, Status, Terminal
<1>3. ASSUME NEW S \in SUBSET Reply, Lifecycle!GiveBack(S)
      PROVE  \A q \in Reply : status[q] \in Terminal => status'[q] = status[q]
  BY <1>3 DEF Lifecycle!GiveBack, Terminal
<1>4. QED
  BY <1>2, <1>3 DEF Lifecycle!Next, Lifecycle!Post

LEMMA PostedNext ==
    TypeOK /\ SenderInv /\ PostedInv /\ [Next]_vars => PostedInv'
<1> SUFFICES ASSUME TypeOK, SenderInv, PostedInv, [Next]_vars PROVE PostedInv'
  OBVIOUS
<1>1. \A r \in Reply : status[r] = "sent" => status'[r] = "sent"
  <2>1. [Lifecycle!Next]_<<status, posted>>
    BY StepIsLifecycleStep DEF vars, dbVars, histVars
  <2>2. QED
    BY <2>1, LifecycleKeepsTerminal DEF TypeOK, Terminal
<1>2. CASE UNCHANGED vars
  BY <1>1, <1>2, PostedCalm DEF vars, workVars, histVars
<1>3. CASE Api
  <2>1. UNCHANGED <<workVars, posted, orphaned>>
    BY <1>3 DEF Api, CreateReply, ApproveReply, RejectReply,
                EnqueueLost, EnqueueReply, histVars
  <2>2. QED
    BY <1>1, <2>1, PostedCalm DEF workVars
<1>4. ASSUME NEW m \in Msg, AckTimeout(m) PROVE PostedInv'
  BY <1>1, <1>4, PostedCalm DEF AckTimeout, workVars, histVars
<1>5. ASSUME NEW r \in Reply, Age(r) PROVE PostedInv'
  BY <1>1, <1>5, PostedCalm DEF Age, workVars, histVars
<1>6. ASSUME NEW k \in Reconciler, ReconcilerStep(k) \/ ReconcilerFault(k) PROVE PostedInv'
  <2>1. UNCHANGED <<workVars, histVars>>
    BY <1>6 DEF ReconcilerStep, ReconcilerFault, ReclaimStuckReplies, StaleApprovedReplies,
                Republish, PassDone, PassAborted, RepublishLost
  <2>2. QED
    BY <1>1, <2>1, PostedCalm DEF workVars, histVars
<1>7. ASSUME NEW w \in Worker, WorkerStep(w) \/ WorkerFault(w) PROVE PostedInv'
  <2>1. CASE \/ DispatchAccepted(w) \/ DispatchUnknown(w)
             \/ MarkReplySent(w) \/ MarkReplySentFails(w)
             \/ (CrashWorker(w) /\ pc[w] = "markSent")
    BY <2>1, PostedByWorker
  <2>2. CASE ~ (\/ DispatchAccepted(w) \/ DispatchUnknown(w)
                \/ MarkReplySent(w) \/ MarkReplySentFails(w)
                \/ (CrashWorker(w) /\ pc[w] = "markSent"))
    <3>1. /\ pc[w] # "markSent" /\ pc'[w] # "markSent"
          /\ posted' = posted /\ orphaned' = orphaned
      BY <1>7, <2>2 DEF WorkerStep, WorkerFault, Receive, Ack, Nak, Answer,
           ClaimReplyForSend, ClaimFails, DispatchRefused, MarkReplyFailed, GiveUp,
           MarkFails, CrashWorker, Goto, histVars, TypeOK
    <3>2. \A v \in Worker \ {w} : pc'[v] = pc[v] /\ job'[v] = job[v]
      BY <1>7, OthersStay
    <3>3. QED
      BY <1>1, <3>1, <3>2, PostedCalm
  <2>3. QED
    BY <2>1, <2>2
<1>8. QED
  BY <1>2, <1>3, <1>4, <1>5, <1>6, <1>7 DEF Next

LEMMA InitPosted == Init => PostedInv
BY DEF Init, PostedInv, PostedIsAccountedFor

-------------------------------------------------------------------------------
(* What the pipeline keeps *)

LEMMA SettledStep ==
    TypeOK /\ SenderInv /\ PostedInv /\ [Next]_vars =>
        [\A r \in Reply : status[r] \in Terminal => status'[r] = status[r]]_vars
<1> SUFFICES ASSUME TypeOK, SenderInv, PostedInv, Next
             PROVE  \A r \in Reply : status[r] \in Terminal => status'[r] = status[r]
  OBVIOUS
<1>1. QED
  BY StepIsLifecycleStep, LifecycleKeepsTerminal DEF TypeOK

\* However long a dispatch takes: as long as the sweep happens to reclaim from
\* the dead only, sending is exclusive, posts are accounted for, settled rows
\* are final and the pipeline implements the diagram of store/reply.go.  No
\* duplicated message, crash, lost response or failed write endangers them.
THEOREM SafeUnlessTheLivingAreReclaimed ==
    Spec /\ ReclaimOnlyTheDead =>
        /\ []ExclusiveSender
        /\ []PostedIsAccountedFor
        /\ ImplementsLifecycle
        /\ SettledIsFinal
<1>1. Init => SenderInv /\ PostedInv /\ Lifecycle!Init
  BY InitSender, InitPosted DEF Init, Lifecycle!Init
<1>2. /\ TypeOK /\ SenderInv /\ [Next /\ ReclaimsDead]_vars => SenderInv'
      /\ TypeOK /\ SenderInv /\ PostedInv /\ [Next]_vars => PostedInv'
  BY SenderNext, PostedNext
<1>3. SenderInv /\ PostedInv => ExclusiveSender /\ PostedIsAccountedFor
  BY SenderInvExclusive DEF PostedInv
<1>4. TypeOK /\ SenderInv /\ PostedInv /\ [Next]_vars => [Lifecycle!Next]_<<status, posted>>
  BY StepIsLifecycleStep DEF vars, dbVars, histVars
<1>5. Spec /\ ReclaimOnlyTheDead => [](TypeOK /\ SenderInv /\ PostedInv)
  BY <1>1, <1>2, TypeCorrect, PTL DEF Spec, ReclaimOnlyTheDead, ReclaimsDead
<1>6. QED
  BY <1>1, <1>3, <1>4, <1>5, SettledStep, PTL
     DEF Spec, ImplementsLifecycle, Lifecycle!Spec, Lifecycle!vars, SettledIsFinal

\* Exclusive sending holds for any number of duplicated messages, crashes and
\* concurrent workers and sweeps, as long as a dispatch is over within the five
\* minutes after which the sweep takes a reply for abandoned.
THEOREM SendingIsExclusive ==
    ASSUME ~SlowDispatch
    PROVE  Spec => []ExclusiveSender
BY ReclaimedIsDead, SafeUnlessTheLivingAreReclaimed, PTL

\* Whatever the platform has accepted is recorded as sent, about to be, or was
\* lost by a crash, a lost response or a failed write of the result: there is
\* no other way to post a reply twice, or to show a posted reply as failed.
THEOREM PostsAreAccountedFor ==
    ASSUME ~SlowDispatch
    PROVE  Spec => []PostedIsAccountedFor
BY ReclaimedIsDead, SafeUnlessTheLivingAreReclaimed, PTL

\* The pipeline with all its processes, queues and faults is an implementation
\* of the state diagram in the header of store/reply.go.
THEOREM PipelineImplementsLifecycle ==
    ASSUME ~SlowDispatch
    PROVE  Spec => ImplementsLifecycle
BY ReclaimedIsDead, SafeUnlessTheLivingAreReclaimed, PTL

\* A settled reply stays as it is, although MarkReplySent, MarkReplyFailed and
\* the sweep's UPDATE would overwrite it: nobody who could is ever around.
THEOREM SettledRepliesAreFinal ==
    ASSUME ~SlowDispatch
    PROVE  Spec => SettledIsFinal
BY ReclaimedIsDead, SafeUnlessTheLivingAreReclaimed, PTL

-------------------------------------------------------------------------------
(* Posting twice *)

\* A second post of a reply only after the first one's acceptance was lost.
RepostsTheLost ==
    \A w \in Worker :
        (DispatchAccepted(w) \/ DispatchUnknown(w)) /\ Target(w) \in posted
            => Target(w) \in orphaned

\* A reply that is on the platform and that the row shows as neither sent nor
\* being sent: failed, or waiting for another attempt.
NoPostIsHidden ==
    \A r \in posted : status[r] \notin {"sending", "sent"} => r \in orphaned

\* Every loss is the work of one fault.
LossesAreFaults ==
    IsFiniteSet(orphaned) /\ Cardinality(orphaned) + faults <= FaultBudget

LEMMA RepostStep ==
    TypeOK /\ SenderInv /\ PostedInv => RepostsTheLost /\ NoPostIsHidden
<1> SUFFICES ASSUME TypeOK, SenderInv, PostedInv
             PROVE  RepostsTheLost /\ NoPostIsHidden
  OBVIOUS
<1>1. ASSUME NEW w \in Worker, pc[w] = "dispatch", Target(w) \in posted
      PROVE  Target(w) \in orphaned
  <2>1. status[Target(w)] = "sending"
    BY <1>1 DEF SenderInv, InFlight
  <2>2. ~ \E v \in Senders(Target(w)) : pc[v] = "markSent"
    BY <1>1 DEF SenderInv, Senders, InFlight
  <2>3. QED
    BY <1>1, <2>1, <2>2 DEF PostedInv, PostedIsAccountedFor
<1>2. NoPostIsHidden
  BY DEF NoPostIsHidden, PostedInv, PostedIsAccountedFor, SenderInv, Senders
<1>3. QED
  BY <1>1, <1>2 DEF RepostsTheLost, DispatchAccepted, DispatchUnknown

LEMMA LossNext == TypeOK /\ LossesAreFaults /\ [Next]_vars => LossesAreFaults'
<1> SUFFICES ASSUME TypeOK, LossesAreFaults, [Next]_vars PROVE LossesAreFaults'
  OBVIOUS
<1>1. \/ orphaned' = orphaned /\ faults' \in {faults, faults - 1}
      \/ /\ \E r : orphaned' = orphaned \cup {r}
         /\ faults' = faults - 1
  <2>1. ASSUME NEW w \in Worker, WorkerStep(w) \/ WorkerFault(w) PROVE <1>1
    BY <2>1 DEF WorkerStep, WorkerFault, Receive, Ack, Nak, Answer, ClaimReplyForSend,
         ClaimFails, DispatchAccepted, DispatchUnknown, DispatchRefused, MarkReplySent,
         MarkReplySentFails, MarkReplyFailed, GiveUp, MarkFails, CrashWorker, histVars, Fault
  <2>2. ASSUME NEW k \in Reconciler, ReconcilerStep(k) \/ ReconcilerFault(k) PROVE <1>1
    BY <2>2 DEF ReconcilerStep, ReconcilerFault, ReclaimStuckReplies, StaleApprovedReplies,
         Republish, PassDone, PassAborted, RepublishLost, histVars, Fault
  <2>3. CASE Api
    BY <2>3 DEF Api, CreateReply, ApproveReply, RejectReply, EnqueueLost, EnqueueReply,
         histVars, Fault
  <2>4. QED
    BY <2>1, <2>2, <2>3 DEF Next, vars, AckTimeout, Age, histVars
<1>2. faults \in Nat /\ FaultBudget \in Nat
  BY DEF TypeOK
<1>3. IsFiniteSet(orphaned) /\ Cardinality(orphaned) \in Nat
  BY FS_CardinalityType DEF LossesAreFaults
<1>4. ASSUME NEW r
      PROVE  /\ IsFiniteSet(orphaned \cup {r})
             /\ Cardinality(orphaned \cup {r}) <= Cardinality(orphaned) + 1
  BY <1>3, FS_AddElement
<1>5. CASE orphaned' = orphaned /\ faults' \in {faults, faults - 1}
  BY <1>2, <1>3, <1>5 DEF LossesAreFaults
<1>6. ASSUME NEW r, orphaned' = orphaned \cup {r}, faults' = faults - 1
      PROVE  LossesAreFaults'
  <2>1. Cardinality(orphaned \cup {r}) \in Nat
    BY <1>4, FS_CardinalityType
  <2>2. Cardinality(orphaned \cup {r}) + (faults - 1) <= FaultBudget
    <3>1. ASSUME NEW a \in Nat, NEW b \in Nat, NEW f \in Nat, NEW B \in Nat,
                 a + f <= B, b <= a + 1
          PROVE  b + (f - 1) <= B
      BY <3>1
    <3>2. Cardinality(orphaned) + faults <= FaultBudget
      BY DEF LossesAreFaults
    <3>3. Cardinality(orphaned \cup {r}) <= Cardinality(orphaned) + 1
      BY <1>4
    <3>4. QED
      BY <1>2, <1>3, <2>1, <3>1, <3>2, <3>3
  <2>3. QED
    BY <1>4, <1>6, <2>2 DEF LossesAreFaults
<1>7. QED
  BY <1>1, <1>5, <1>6

\* Each reply that is posted a second time, or that is on the platform without
\* its row saying so, has cost a fault of its own: as many replies as faults at
\* most, and none when nothing fails.  (A duplicated delivery is no fault.)
THEOREM RepostsAreLosses ==
    /\ Spec => []LossesAreFaults
    /\ Spec /\ ReclaimOnlyTheDead => [][RepostsTheLost]_vars /\ []NoPostIsHidden
<1>1. Init => SenderInv /\ PostedInv /\ LossesAreFaults
  <2>1. Init => LossesAreFaults
    BY FS_EmptySet DEF Init, LossesAreFaults
  <2>2. QED
    BY <2>1, InitSender, InitPosted
<1>2. QED
  BY <1>1, SenderNext, PostedNext, LossNext, RepostStep, TypeCorrect, PTL
     DEF Spec, ReclaimOnlyTheDead, ReclaimsDead

-------------------------------------------------------------------------------
(* A row that says sent; this one needs no bound on a dispatch either *)

SentWasPosted == \A r \in Reply : status[r] = "sent" => r \in posted

\* The worker that records an acceptance has one to record.
SentInv ==
    /\ SentWasPosted
    /\ \A v \in Worker : pc[v] = "markSent" => Target(v) \in posted

LEMMA SentNext == TypeOK /\ SentInv /\ [Next]_vars => SentInv'
<1> SUFFICES ASSUME TypeOK, SentInv, [Next]_vars PROVE SentInv'
  OBVIOUS
<1>1. ASSUME UNCHANGED <<workVars, posted>>,
             \A r \in Reply : status'[r] = "sent" => status[r] = "sent"
      PROVE  SentInv'
  BY <1>1 DEF SentInv, SentWasPosted, workVars, Target
<1>2. ASSUME NEW q \in Reply, CreateReply(q) \/ ApproveReply(q) \/ RejectReply(q)
      PROVE  SentInv'
  <2>1. \A s : WriteRow(q, s) /\ s # "sent" =>
          \A r \in Reply : status'[r] = "sent" => status[r] = "sent"
    BY DEF WriteRow, TypeOK
  <2>2. QED
    BY <1>1, <1>2, <2>1 DEF CreateReply, ApproveReply, RejectReply, histVars
<1>3. CASE Api
  BY <1>1, <1>2, <1>3 DEF Api, EnqueueLost, EnqueueReply, dbVars, histVars
<1>4. ASSUME NEW k \in Reconciler, ReconcilerStep(k) \/ ReconcilerFault(k) PROVE SentInv'
  <2>1. \A r \in Reply : status'[r] = "sent" => status[r] = "sent"
    BY <1>4 DEF ReconcilerStep, ReconcilerFault, ReclaimStuckReplies, StaleApprovedReplies,
         Republish, PassDone, PassAborted, RepublishLost, dbVars, TypeOK
  <2>2. UNCHANGED <<workVars, posted>>
    BY <1>4 DEF ReconcilerStep, ReconcilerFault, ReclaimStuckReplies, StaleApprovedReplies,
         Republish, PassDone, PassAborted, RepublishLost, histVars
  <2>3. QED
    BY <1>1, <2>1, <2>2
<1>5. ASSUME NEW w \in Worker, WorkerStep(w) \/ WorkerFault(w) PROVE SentInv'
  <2>1. posted \subseteq posted'
    BY <1>5 DEF WorkerStep, WorkerFault, Receive, Ack, Nak, Answer, ClaimReplyForSend,
         ClaimFails, DispatchAccepted, DispatchUnknown, DispatchRefused, MarkReplySent,
         MarkReplySentFails, MarkReplyFailed, GiveUp, MarkFails, CrashWorker, histVars
  <2>2. pc'[w] = "markSent" => Target(w)' \in posted'
    BY <1>5 DEF WorkerStep, WorkerFault, Receive, Ack, Nak, Answer, ClaimReplyForSend,
         ClaimFails, DispatchAccepted, DispatchUnknown, DispatchRefused, MarkReplySent,
         MarkReplySentFails, MarkReplyFailed, GiveUp, MarkFails, CrashWorker, histVars,
         Goto, TypeOK, Target
  <2>3. \/ UNCHANGED status
        \/ \E s \in {"sending", "failed", "approved"} :
              status' = [status EXCEPT ![Target(w)] = s]
        \/ pc[w] = "markSent" /\ status' = [status EXCEPT ![Target(w)] = "sent"]
    BY <1>5 DEF WorkerStep, WorkerFault, Receive, Ack, Nak, Answer, ClaimReplyForSend,
         ClaimFails, DispatchAccepted, DispatchUnknown, DispatchRefused, MarkReplySent,
         MarkReplySentFails, MarkReplyFailed, GiveUp, MarkFails, CrashWorker, WriteRow, dbVars
  <2>4. SentWasPosted'
    BY <2>1, <2>3 DEF SentInv, SentWasPosted, TypeOK
  <2>5. \A v \in Worker \ {w} : pc'[v] = "markSent" => Target(v)' \in posted'
    BY <1>5, <2>1, OthersStay DEF SentInv
  <2>6. QED
    BY <2>2, <2>4, <2>5 DEF SentInv
<1>6. CASE UNCHANGED vars
  BY <1>1, <1>6 DEF vars, dbVars, histVars
<1>7. QED
  BY <1>1, <1>3, <1>4, <1>5, <1>6 DEF Next, AckTimeout, Age, dbVars, histVars

\* A row says sent only if the platform has accepted the reply, however slow a
\* dispatch is and whoever was given the reply in the meantime.
THEOREM SentRepliesWerePosted == Spec => []SentWasPosted
<1>1. Init => SentInv
  BY DEF Init, SentInv, SentWasPosted
<1>2. SentInv => SentWasPosted
  BY DEF SentInv
<1>3. QED
  BY <1>1, <1>2, SentNext, TypeCorrect, PTL DEF Spec

-------------------------------------------------------------------------------
(* Nothing unapproved is on its way; this one needs no bound on a dispatch *)

Unapproved == {"none", "pending_approval", "rejected"}

\* No status write but CreateReply's and RejectReply's produces an unapproved
\* reply, and RejectReply starts from one.
LEMMA StaysUnapproved ==
    ASSUME TypeOK, Next, NEW r \in Reply, status'[r] \in Unapproved
    PROVE  status[r] \in Unapproved
<1>1. ASSUME NEW q \in Reply, CreateReply(q) \/ ApproveReply(q) \/ RejectReply(q)
      PROVE  status[r] \in Unapproved
  BY <1>1 DEF CreateReply, ApproveReply, RejectReply, WriteRow, Unapproved, TypeOK
<1>2. CASE Api
  BY <1>1, <1>2 DEF Api, EnqueueLost, EnqueueReply, dbVars
<1>3. ASSUME NEW w \in Worker, WorkerStep(w) \/ WorkerFault(w)
      PROVE  status[r] \in Unapproved
  <2>1. \/ UNCHANGED status
        \/ \E s \in {"sending", "sent", "failed", "approved"} :
              status' = [status EXCEPT ![Target(w)] = s]
    BY <1>3 DEF WorkerStep, WorkerFault, Receive, Ack, Nak, Answer, ClaimReplyForSend,
         ClaimFails, DispatchAccepted, DispatchUnknown, DispatchRefused, MarkReplySent,
         MarkReplySentFails, MarkReplyFailed, GiveUp, MarkFails, CrashWorker, WriteRow, dbVars
  <2>2. QED
    BY <2>1 DEF Unapproved, TypeOK
<1>4. ASSUME NEW k \in Reconciler, ReconcilerStep(k) \/ ReconcilerFault(k)
      PROVE  status[r] \in Unapproved
  <2>1. CASE ReclaimStuckReplies(k)
    BY <2>1 DEF ReclaimStuckReplies, Unapproved, TypeOK
  <2>2. CASE ~ReclaimStuckReplies(k)
    BY <1>4, <2>2 DEF ReconcilerStep, ReconcilerFault, StaleApprovedReplies, Republish,
         PassDone, PassAborted, RepublishLost, dbVars
  <2>3. QED
    BY <2>1, <2>2
<1>5. QED
  BY <1>2, <1>3, <1>4 DEF Next, AckTimeout, Age, dbVars

\* The reply r has left no trace outside its row.
AtHome(r) ==
    /\ r \notin posted
    /\ \A w \in Worker : pc[w] \in InFlight => Target(w) # r
    /\ r \notin toEnqueue
    /\ \A k \in Reconciler : r \notin todo[k]
    /\ \A m \in Msg : ReplyOf[m] = r => queue[m].st = "free"

LEMMA HomeByApi ==
    ASSUME TypeOK, NEW r \in Reply, AtHome(r), status[r] \in Unapproved,
           status'[r] \in Unapproved, Api
    PROVE  AtHome(r)'
<1>1. UNCHANGED <<workVars, recVars, posted>>
  BY DEF Api, CreateReply, ApproveReply, RejectReply, EnqueueLost,
         EnqueueReply, histVars
<1>2. r \notin toEnqueue'
  BY DEF Api, CreateReply, ApproveReply, RejectReply, EnqueueLost,
         EnqueueReply, WriteRow, AtHome, Unapproved, TypeOK
<1>3. \A m \in Msg : ReplyOf[m] = r => queue'[m] = queue[m]
  BY DEF Api, CreateReply, ApproveReply, RejectReply, EnqueueLost,
         EnqueueReply, Publish, AtHome, TypeOK
<1>4. QED
  BY <1>1, <1>2, <1>3 DEF AtHome, workVars, recVars, Target

LEMMA HomeByWorker ==
    ASSUME TypeOK, NEW r \in Reply, AtHome(r), status[r] \in Unapproved,
           NEW w \in Worker, WorkerStep(w) \/ WorkerFault(w)
    PROVE  AtHome(r)'
<1>1. toEnqueue' = toEnqueue /\ todo' = todo
  BY DEF WorkerStep, WorkerFault, Receive, Ack, Nak, Answer, ClaimReplyForSend,
         ClaimFails, DispatchAccepted, DispatchUnknown, DispatchRefused, MarkReplySent,
         MarkReplySentFails, MarkReplyFailed, GiveUp, MarkFails, CrashWorker, recVars
<1>2. \/ posted' = posted
      \/ pc[w] = "dispatch" /\ posted' = posted \cup {Target(w)}
  BY DEF WorkerStep, WorkerFault, Receive, Ack, Nak, Answer, ClaimReplyForSend,
         ClaimFails, DispatchAccepted, DispatchUnknown, DispatchRefused, MarkReplySent,
         MarkReplySentFails, MarkReplyFailed, GiveUp, MarkFails, CrashWorker, histVars
<1>3. r \notin posted'
  BY <1>2 DEF AtHome, InFlight
<1>4. pc'[w] \in InFlight =>
        Target(w)' = Target(w) /\ (pc[w] \in InFlight \/ status[Target(w)] = "approved")
  BY DEF WorkerStep, WorkerFault, Receive, Ack, Nak, Answer, ClaimReplyForSend,
         ClaimFails, DispatchAccepted, DispatchUnknown, DispatchRefused, MarkReplySent,
         MarkReplySentFails, MarkReplyFailed, GiveUp, MarkFails, CrashWorker, Goto,
         InFlight, TypeOK, Target
<1>5. \A v \in Worker : pc'[v] \in InFlight => Target(v)' # r
  BY <1>4, OthersStay DEF AtHome, Unapproved
<1>6. \A m \in Msg : queue[m].st = "free" => queue'[m].st = "free"
  <2>1. ASSUME NEW m \in Msg, Receive(w, m)
        PROVE  \A n \in Msg : queue[n].st = "free" => queue'[n].st = "free"
    BY <2>1 DEF Receive, TypeOK
  <2>2. CASE Ack(w)
    BY <2>2 DEF Ack, Answer, FreeSlot, TypeOK
  <2>3. CASE Nak(w)
    BY <2>3 DEF Nak, Answer, Requeue, FreeSlot, TypeOK
  <2>4. CASE UNCHANGED queue
    BY <2>4
  <2>5. QED
    BY <2>1, <2>2, <2>3, <2>4 DEF WorkerStep, WorkerFault, ClaimReplyForSend,
         ClaimFails, DispatchAccepted, DispatchUnknown, DispatchRefused, MarkReplySent,
         MarkReplySentFails, MarkReplyFailed, GiveUp, MarkFails, CrashWorker
<1>7. QED
  BY <1>1, <1>3, <1>5, <1>6 DEF AtHome

LEMMA HomeByReconciler ==
    ASSUME TypeOK, NEW r \in Reply, AtHome(r), status[r] \in Unapproved,
           NEW k \in Reconciler, ReconcilerStep(k) \/ ReconcilerFault(k)
    PROVE  AtHome(r)'
<1>1. UNCHANGED <<workVars, posted, toEnqueue>>
  BY DEF ReconcilerStep, ReconcilerFault, ReclaimStuckReplies, StaleApprovedReplies,
         Republish, PassDone, PassAborted, RepublishLost, histVars
<1>2. \A j \in Reconciler : r \notin todo'[j]
  BY DEF ReconcilerStep, ReconcilerFault, ReclaimStuckReplies, StaleApprovedReplies,
         Republish, PassDone, PassAborted, RepublishLost, Stuck, AtHome, Unapproved, TypeOK
<1>3. \A m \in Msg : ReplyOf[m] = r => queue'[m] = queue[m]
  BY DEF ReconcilerStep, ReconcilerFault, ReclaimStuckReplies, StaleApprovedReplies,
         Republish, Publish, PassDone, PassAborted, RepublishLost, AtHome, TypeOK
<1>4. QED
  BY <1>1, <1>2, <1>3 DEF AtHome, workVars, Target

LEMMA HomeByTimeout ==
    ASSUME TypeOK, NEW r \in Reply, AtHome(r), NEW m \in Msg, AckTimeout(m)
    PROVE  AtHome(r)'
<1>1. \A n \in Msg : queue[n].st = "free" => queue'[n].st = "free"
  BY DEF AckTimeout, Requeue, TypeOK
<1>2. QED
  BY <1>1 DEF AckTimeout, AtHome, workVars, recVars, histVars, Target

LEMMA HomeDef ==
    UnapprovedStaysHome <=> \A r \in Reply : status[r] \in Unapproved => AtHome(r)
BY DEF UnapprovedStaysHome, AtHome, Senders, Unapproved

LEMMA HomeNext == TypeOK /\ UnapprovedStaysHome /\ [Next]_vars => UnapprovedStaysHome'
<1> SUFFICES ASSUME TypeOK, UnapprovedStaysHome, [Next]_vars,
                    NEW r \in Reply, status'[r] \in Unapproved
             PROVE  AtHome(r)'
  BY DEF UnapprovedStaysHome, AtHome, Senders, Unapproved
<1>1. CASE UNCHANGED vars
  BY <1>1 DEF vars, dbVars, workVars, recVars, histVars, UnapprovedStaysHome, AtHome,
              Senders, Unapproved, Target
<1>2. CASE Next
  <2>1. status[r] \in Unapproved
    BY <1>2, StaysUnapproved
  <2>2. AtHome(r)
    BY <2>1, HomeDef
  <2>3. ASSUME NEW q \in Reply, Age(q) PROVE AtHome(r)'
    BY <2>2, <2>3 DEF Age, AtHome, workVars, recVars, histVars, Target
  <2>4. QED
    BY <1>2, <2>1, <2>2, <2>3, HomeByApi, HomeByWorker, HomeByReconciler, HomeByTimeout
       DEF Next
<1>3. QED
  BY <1>1, <1>2

\* A reply nobody has approved, or that was turned down, is neither posted, nor
\* being sent, nor queued, nor about to be queued, however slow a dispatch is.
THEOREM UnapprovedRepliesStayHome == Spec => []UnapprovedStaysHome
<1>1. Init => UnapprovedStaysHome
  BY NotInFlight DEF Init, UnapprovedStaysHome, Senders, FreeSlot
<1>2. QED
  BY <1>1, HomeNext, TypeCorrect, PTL DEF Spec
===============================================================================

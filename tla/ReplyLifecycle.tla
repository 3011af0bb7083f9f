---------------------------- MODULE ReplyLifecycle ----------------------------
(***************************************************************************)
(* What the reply subsystem promises, without queues, workers, retries or  *)
(* crashes: the state diagram in the header of                             *)
(* backend/internal/store/reply.go, together with the one external effect, *)
(* a post on the review platform.  A reply is posted only while it is      *)
(* being sent, is called sent only when it has been posted, and never      *)
(* leaves sent, failed or rejected.                                        *)
(***************************************************************************)
CONSTANT Reply

VARIABLES
    status,     \* replies.status of every reply; "none" before its INSERT
    posted      \* the replies the platform has accepted at least once

vars == <<status, posted>>

Status == {"none", "pending_approval", "approved", "rejected",
           "sending", "sent", "failed"}

Terminal == {"sent", "failed", "rejected"}

Init ==
    /\ status = [r \in Reply |-> "none"]
    /\ posted = {}

\* A move along one arrow of the diagram, the posts left as they are.
Move(r, from, to) ==
    /\ status[r] = from
    /\ status' = [status EXCEPT ![r] = to]
    /\ UNCHANGED posted

Create(r) == Move(r, "none", "pending_approval") \/ Move(r, "none", "approved")

Decide(r) ==
    \/ Move(r, "pending_approval", "approved")
    \/ Move(r, "pending_approval", "rejected")

Claim(r) == Move(r, "approved", "sending")

\* The platform takes the post; it may take it again on a later attempt.
Post(r) ==
    /\ status[r] = "sending"
    /\ posted' = posted \cup {r}
    /\ UNCHANGED status

Succeed(r) == r \in posted /\ Move(r, "sending", "sent")

\* Replies whose sending was given up: back for another attempt, or failed.
\* One recovery pass may do it for many replies in one transaction.
GiveBack(S) ==
    /\ \A r \in S : status[r] = "sending"
    /\ \E T \in SUBSET S :
          status' = [r \in Reply |-> IF r \in T THEN "approved"
                                     ELSE IF r \in S THEN "failed"
                                     ELSE status[r]]
    /\ UNCHANGED posted

Next ==
    \/ \E r \in Reply :
          Create(r) \/ Decide(r) \/ Claim(r) \/ Post(r) \/ Succeed(r)
    \/ \E S \in SUBSET Reply : GiveBack(S)

Spec == Init /\ [][Next]_vars
===============================================================================

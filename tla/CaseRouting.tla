------------------------------ MODULE CaseRouting ------------------------------
(***************************************************************************)
(* One review's case: the routing service turns each current analysis into *)
(* a new, escalated, reopened or merely updated case, from the             *)
(* review.analyzed events and from its own reconciliation loop, while      *)
(* people work on the case and its deadline passes.                        *)
(*                                                                         *)
(*   backend/cmd/routing/main.go         routeOne, reconcileUnrouted       *)
(*   backend/internal/store/routing.go   RouteCase and the queries         *)
(*   backend/internal/store/api.go       UpdateCaseStatus                  *)
(*                                                                         *)
(* A review has at most one case (cases.review_id is UNIQUE) and cases do  *)
(* not share state, so one review is enough.  Its analyses are numbered in *)
(* the order in which the analyzer made them current.                      *)
(***************************************************************************)
EXTENDS Naturals, FiniteSets

CONSTANTS
    Role,           \* assignee roles
    RolesOf,        \* routing_rules.assignee_roles, by risk level
    Router,         \* concurrent executions of the review.analyzed handler
    Sweeper,        \* reconciliation loops, one per routing process
    Arising,        \* bound of the model: the risk levels analyses come to
    MaxAnalyses,    \* bound of the model: analyses of the review
    MaxCopies,      \* bound of the model: copies of review.analyzed
    FaultBudget     \* bound of the model: how many faults may still happen

Risk == {"low", "medium", "high"}

ASSUME RoutingAssumption ==
    /\ RolesOf \in [Risk -> SUBSET Role]
    /\ Router \cap Sweeper = {}
    /\ Arising \subseteq Risk
    /\ MaxAnalyses \in Nat \ {0}
    /\ MaxCopies \in Nat \ {0}
    /\ FaultBudget \in Nat

VARIABLES
    latest,         \* number of the is_current analysis, 0 while there is none
    risk,           \* analysis_results.risk_level of each analysis
    old,            \* the current analysis is more than 2 minutes old
    deleted,        \* reviews.deleted_at is set
    enabled,        \* the risk levels with an enabled routing rule
    status,         \* cases.status, "none" before the INSERT
    level,          \* cases.risk_level, also the rule the case points at
    claimed,        \* cases.analysis_id
    roles,          \* case_assignments
    overdue,        \* cases.sla_due_at has passed
    reminded,       \* cases.sla_reminded_at is set
    events,         \* copies of review.analyzed
    task,           \* where each router and sweeper is in routeOne
    snap,           \* the analysis it has read
    faults          \* faults that may still happen

caseVars == <<status, level, claimed, roles, overdue, reminded>>
inputVars == <<latest, risk, old, deleted, enabled>>
vars == <<inputVars, caseVars, events, task, snap, faults>>

Executor == Router \cup Sweeper
Analysis == 1..MaxAnalyses
NoAnalysis == 0

-------------------------------------------------------------------------------
(* Helpers *)

riskRank == [r \in Risk |-> CASE r = "low" -> 1 [] r = "medium" -> 2 [] r = "high" -> 3]

Plus(n) == IF n < MaxCopies THEN n + 1 ELSE n
Fault == faults > 0 /\ faults' = faults - 1
Goto(e, l) == task' = [task EXCEPT ![e] = l]

\* The handler is done with its message, or the sweeper with this review.
Done(e) == Goto(e, "idle") /\ snap' = [snap EXCEPT ![e] = NoAnalysis]

\* An error: a router naks, and the message comes again or is dead-lettered; a
\* sweeper leaves the review to its next pass.
GiveUp(e) ==
    /\ Done(e)
    /\ events' \in {events} \cup (IF e \in Router THEN {Plus(events)} ELSE {})

-------------------------------------------------------------------------------
(* What routing is given: analyses, rules, people and time *)

\* The analyzer commits a new current analysis and announces it, or fails to.
NewAnalysis(r) ==
    /\ latest < MaxAnalyses
    /\ ~deleted
    /\ latest' = latest + 1
    /\ risk' = [risk EXCEPT ![latest + 1] = r]
    /\ old' = FALSE
    /\ \/ events' = Plus(events) /\ UNCHANGED faults
       \/ Fault /\ UNCHANGED events
    /\ UNCHANGED <<deleted, enabled, caseVars, task, snap>>

SoftDelete ==
    /\ latest > 0
    /\ ~deleted
    /\ deleted' = TRUE
    /\ UNCHANGED <<latest, risk, old, enabled, caseVars, events, task, snap, faults>>

\* Somebody disables a rule, which is an error of operation, or repairs it.
DisableRule(r) ==
    /\ r \in enabled
    /\ enabled' = enabled \ {r}
    /\ Fault
    /\ UNCHANGED <<latest, risk, old, deleted, caseVars, events, task, snap>>

EnableRule ==
    /\ enabled # Risk
    /\ enabled' = Risk
    /\ UNCHANGED <<latest, risk, old, deleted, caseVars, events, task, snap, faults>>

allowedStatuses == {"open", "in_progress", "resolved", "closed"}

\* The changes people may make; reopening is not one of them.
validTransitions ==
    [s \in allowedStatuses |->
        CASE s = "open"        -> {"in_progress", "resolved"}
          [] s = "in_progress" -> {"resolved", "open"}
          [] s = "resolved"    -> {"closed", "in_progress"}
          [] s = "closed"      -> {}]

\* Mutant: neither the request nor the transition is validated.
UpdateUnchecked(s) ==
    /\ status # "none"
    /\ status' = s
    /\ UNCHANGED <<inputVars, level, claimed, roles, overdue, reminded, events, task, snap,
                   faults>>

UpdateCaseStatus(s) ==
    /\ status # "none"
    /\ s \in allowedStatuses
    /\ s \in validTransitions[status]
    /\ status' = s
    /\ UNCHANGED <<inputVars, level, claimed, roles, overdue, reminded, events, task, snap,
                   faults>>

\* The analysis becomes two minutes old; the deadline passes.
AnalysisAges ==
    /\ latest > 0
    /\ ~old
    /\ old' = TRUE
    /\ UNCHANGED <<latest, risk, deleted, enabled, caseVars, events, task, snap, faults>>

DeadlinePasses ==
    /\ status # "none"
    /\ ~overdue
    /\ overdue' = TRUE
    /\ UNCHANGED <<inputVars, status, level, claimed, roles, reminded, events, task, snap,
                   faults>>

-------------------------------------------------------------------------------
(* routeOne *)

Receive(e) ==
    /\ task[e] = "idle"
    /\ events > 0
    /\ events' = events - 1
    /\ Goto(e, "read")
    /\ UNCHANGED <<inputVars, caseVars, snap, faults>>

\* The current analysis, if there is one and the review is not deleted.
CurrentAnalysisForRouting(e) ==
    /\ task[e] = "read"
    /\ IF latest = NoAnalysis \/ deleted
       THEN Done(e)
       ELSE Goto(e, "rule") /\ snap' = [snap EXCEPT ![e] = latest]
    /\ UNCHANGED <<inputVars, caseVars, events, faults>>

\* Without a rule the handler fails on purpose, until the rule is repaired.
ActiveRule(e) ==
    /\ task[e] = "rule"
    /\ IF risk[snap[e]] \in enabled
       THEN Goto(e, "route") /\ UNCHANGED <<snap, events>>
       ELSE GiveUp(e)
    /\ UNCHANGED <<inputVars, caseVars, faults>>

Closed == status \in {"resolved", "closed"}

\* Mutant: the comparison is the wrong way round.
EscalatingDown(a) == riskRank[risk[a]] < riskRank[level]

Escalating(a) == riskRank[risk[a]] > riskRank[level]

\* Mutant: the analysis the case has claimed is taken for a new one.
RouteOutcomeNoReplay(a) ==
    IF Closed                    THEN "reopened"
    ELSE IF Escalating(a)        THEN "escalated"
    ELSE "acknowledged"

\* The decision matrix of RouteCase about a case that exists, for analysis a.
RouteOutcome(a) ==
    IF claimed = a               THEN "replay"
    ELSE IF Closed               THEN "reopened"
    ELSE IF Escalating(a)        THEN "escalated"
    ELSE "acknowledged"

\* Without a case FOR UPDATE locks nothing, and the transaction goes on to its
\* INSERT while others may do the same.
LookForCase(e) ==
    /\ task[e] = "route"
    /\ status = "none"
    /\ Goto(e, "insert")
    /\ UNCHANGED <<inputVars, caseVars, events, snap, faults>>

\* The INSERT with its assignments, or the violation of UNIQUE (review_id).
InsertCase(e) ==
    LET a == snap[e] IN
    /\ task[e] = "insert"
    /\ IF status = "none"
       THEN /\ Goto(e, "publish")
            /\ claimed' = a
            /\ level' = risk[a]
            /\ roles' = RolesOf[risk[a]]
            /\ status' = "open"
            /\ UNCHANGED <<overdue, reminded, snap, events>>
       ELSE GiveUp(e) /\ UNCHANGED caseVars
    /\ UNCHANGED <<inputVars, faults>>

\* Mutant: an escalated case keeps the people it has.
RouteSameRoles(e) ==
    LET a == snap[e]
        o == RouteOutcome(a)
    IN  /\ task[e] = "route"
        /\ status # "none"
        /\ Goto(e, "publish")
        /\ claimed' = a
        /\ IF o \in {"reopened", "escalated"}
           THEN /\ level' = risk[a]
                /\ roles' = IF o = "escalated" THEN roles ELSE roles \cup RolesOf[risk[a]]
                /\ overdue' = FALSE
                /\ reminded' = FALSE
                /\ status' = IF o = "escalated" THEN status ELSE "open"
           ELSE UNCHANGED <<status, level, roles, overdue, reminded>>
        /\ UNCHANGED <<inputVars, events, snap, faults>>

\* One transaction under the case's row lock, with ensureAssignmentsAndNotify:
\* the analysis it decides about is the one read before, outside of it.
RouteCase(e) ==
    LET a == snap[e]
        o == RouteOutcome(a)
    IN  /\ task[e] = "route"
        /\ status # "none"
        /\ Goto(e, "publish")
        /\ claimed' = a
        /\ IF o \in {"reopened", "escalated"}
           THEN /\ level' = risk[a]
                /\ roles' = roles \cup RolesOf[risk[a]]
                /\ overdue' = FALSE
                /\ reminded' = FALSE
                /\ status' = IF o = "escalated" THEN status ELSE "open"
           ELSE UNCHANGED <<status, level, roles, overdue, reminded>>
        /\ UNCHANGED <<inputVars, events, snap, faults>>

PublishCaseEvent(e) ==
    /\ task[e] = "publish"
    /\ Done(e)
    /\ UNCHANGED <<inputVars, caseVars, events, faults>>

\* A query, the transaction or the publish fails, or the process dies.
RouteFails(e) ==
    /\ task[e] # "idle"
    /\ GiveUp(e)
    /\ Fault
    /\ UNCHANGED <<inputVars, caseVars>>

\* A copy is dead-lettered unhandled, or delivered once more.
EventLost ==
    /\ events > 0
    /\ events' = events - 1
    /\ Fault
    /\ UNCHANGED <<inputVars, caseVars, task, snap>>

EventAgain ==
    /\ latest > 0
    /\ events < MaxCopies
    /\ events' = events + 1
    /\ Fault
    /\ UNCHANGED <<inputVars, caseVars, task, snap>>

-------------------------------------------------------------------------------
(* The loops *)

\* Mutant: only reviews without a case are looked for.
UncasedOnly == latest > 0 /\ ~deleted /\ old /\ status = "none"

\* The current analysis is two minutes old and no case has claimed it.
Unrouted == latest > 0 /\ ~deleted /\ old /\ (status = "none" \/ claimed # latest)

\* LIMIT 20 is assumed not to cut the pass.
FindUnroutedAnalyses(k) ==
    /\ task[k] = "idle"
    /\ Unrouted
    /\ Goto(k, "read")
    /\ UNCHANGED <<inputVars, caseVars, events, snap, faults>>

\* Mutant: the reminder looks at cases nobody has begun with.
RemindOpenOnly ==
    /\ status = "open"
    /\ overdue
    /\ ~reminded
    /\ reminded' = TRUE
    /\ UNCHANGED <<inputVars, status, level, claimed, roles, overdue, events, task, snap,
                   faults>>

DueSLAReminders ==
    /\ status \in {"open", "in_progress"}
    /\ overdue
    /\ ~reminded
    /\ reminded' = TRUE
    /\ UNCHANGED <<inputVars, status, level, claimed, roles, overdue, events, task, snap,
                   faults>>

-------------------------------------------------------------------------------
Init ==
    /\ latest = NoAnalysis
    /\ risk = [n \in Analysis |-> "low"]
    /\ old = FALSE
    /\ deleted = FALSE
    /\ enabled = Risk
    /\ status = "none"
    /\ level = "low"
    /\ claimed = NoAnalysis
    /\ roles = {}
    /\ overdue = FALSE
    /\ reminded = FALSE
    /\ events = 0
    /\ task = [e \in Executor |-> "idle"]
    /\ snap = [e \in Executor |-> NoAnalysis]
    /\ faults = FaultBudget

RouteOne(e) ==
    \/ CurrentAnalysisForRouting(e) \/ ActiveRule(e)
    \/ LookForCase(e) \/ InsertCase(e) \/ RouteCase(e)
    \/ PublishCaseEvent(e)

RouterStep(w) == Receive(w) \/ RouteOne(w)
SweeperStep(k) == FindUnroutedAnalyses(k) \/ RouteOne(k)

Outside ==
    \/ \E r \in Arising : NewAnalysis(r) \/ DisableRule(r)
    \/ SoftDelete
    \/ \E s \in allowedStatuses \cup {"ignored"} : UpdateCaseStatus(s)
    \/ EventLost \/ EventAgain

Next ==
    \/ \E w \in Router : RouterStep(w)
    \/ \E k \in Sweeper : SweeperStep(k)
    \/ DueSLAReminders
    \/ \E e \in Executor : RouteFails(e)
    \/ Outside
    \/ EnableRule \/ AnalysisAges \/ DeadlinePasses

Spec == Init /\ [][Next]_vars

\* The service keeps running, time passes, and a missing rule is repaired.
Fairness ==
    /\ \A w \in Router : WF_vars(RouterStep(w))
    /\ \A k \in Sweeper : WF_vars(SweeperStep(k))
    /\ WF_vars(DueSLAReminders)
    /\ WF_vars(EnableRule)
    /\ WF_vars(AnalysisAges)

FairSpec == Spec /\ Fairness

-------------------------------------------------------------------------------
(* Properties *)

\* Every variable keeps its type.
TypeOK ==
    /\ latest \in Analysis \cup {NoAnalysis}
    /\ risk \in [Analysis -> Risk]
    /\ old \in BOOLEAN
    /\ deleted \in BOOLEAN
    /\ enabled \in SUBSET Risk
    /\ status \in allowedStatuses \cup {"none"}
    /\ level \in Risk
    /\ claimed \in Analysis \cup {NoAnalysis}
    /\ roles \in SUBSET Role
    /\ overdue \in BOOLEAN
    /\ reminded \in BOOLEAN
    /\ events \in 0..MaxCopies
    /\ task \in [Executor -> {"idle", "read", "rule", "route", "insert", "publish"}]
    /\ snap \in [Executor -> Analysis \cup {NoAnalysis}]
    /\ faults \in 0..FaultBudget

\* In whatever order consumers and sweeps route the analyses of a review, its
\* case is never handled at a lower risk than the analysis it has claimed, and
\* everyone the rule of its risk names is assigned (RouteCase).
CaseMeetsItsRisk ==
    status # "none" =>
        /\ claimed # NoAnalysis
        /\ riskRank[level] >= riskRank[risk[claimed]]
        /\ RolesOf[level] \subseteq roles

\* A case people have finished with opens again only for an analysis it has
\* not claimed: a repeated event or a sweep never undoes their work.
ReplayNeverReopens ==
    [][Closed /\ status' = "open" => claimed' # claimed]_vars

\* A case is reopened by an analysis newer than the one it was finished with
\* ("a new analysis means that the customer has acted again", RouteCase).
ReopenMeansNewer ==
    [][Closed /\ status' = "open" => claimed' > claimed]_vars

\* Whatever happens to the events, the case comes to claim the current
\* analysis (FindUnroutedAnalyses).
CurrentIsRouted == []<>(latest # NoAnalysis => deleted \/ claimed = latest)

\* A case that is being worked on past its deadline gets its reminder.
OverdueIsReminded ==
    status \in {"open", "in_progress"} /\ overdue
        ~> reminded \/ ~overdue \/ Closed
===============================================================================

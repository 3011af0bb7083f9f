--------------------------- MODULE CaseRoutingProofs ---------------------------
(***************************************************************************)
(* Theorems about CaseRouting, for any roles and rules and any number of   *)
(* routers, sweepers, analyses, event copies and faults.                   *)
(***************************************************************************)
EXTENDS CaseRouting, TLAPS

USE RoutingAssumption

-------------------------------------------------------------------------------
(* Type correctness *)

\* Past the read, an execution of routeOne has an analysis in hand.
HasAnalysis ==
    \A e \in Executor :
        task[e] \in {"rule", "route", "insert", "publish"} => snap[e] \in Analysis

TypeInv == TypeOK /\ HasAnalysis

LEMMA PlusType ==
    ASSUME NEW n \in 0..MaxCopies
    PROVE  Plus(n) \in 0..MaxCopies
BY DEF Plus

LEMMA FaultType ==
    ASSUME TypeOK, Fault
    PROVE  faults' \in 0..FaultBudget
BY DEF TypeOK, Fault

LEMMA InitType == Init => TypeInv
<1> SUFFICES ASSUME Init PROVE TypeOK /\ HasAnalysis
  BY DEF TypeInv
<1>1. TypeOK
  <2>1. /\ latest \in Analysis \cup {NoAnalysis} /\ claimed \in Analysis \cup {NoAnalysis}
        /\ status \in allowedStatuses \cup {"none"} /\ level \in Risk
        /\ enabled \in SUBSET Risk /\ roles \in SUBSET Role
    BY DEF Init, Risk
  <2>2. events \in 0..MaxCopies /\ faults \in 0..FaultBudget
    BY DEF Init
  <2>3. risk \in [Analysis -> Risk]
    BY DEF Init, Risk
  <2>4. /\ task \in [Executor -> {"idle", "read", "rule", "route", "insert", "publish"}]
        /\ snap \in [Executor -> Analysis \cup {NoAnalysis}]
    BY DEF Init
  <2>5. QED
    BY <2>1, <2>2, <2>3, <2>4 DEF Init, TypeOK
<1>2. HasAnalysis
  BY DEF Init, HasAnalysis
<1>3. QED
  BY <1>1, <1>2

\* What an execution that is done, with or without an error, leaves behind.
LEMMA DoneType ==
    ASSUME TypeInv, NEW e \in Executor, Done(e)
    PROVE  /\ task' \in [Executor -> {"idle", "read", "rule", "route", "insert", "publish"}]
           /\ snap' \in [Executor -> Analysis \cup {NoAnalysis}]
           /\ HasAnalysis'
BY DEF TypeInv, TypeOK, HasAnalysis, Done, Goto

LEMMA GiveUpType ==
    ASSUME TypeInv, NEW e \in Executor, GiveUp(e)
    PROVE  Done(e) /\ events' \in 0..MaxCopies
BY PlusType DEF TypeInv, TypeOK, GiveUp

\* What an execution that goes on with the analysis it has leaves behind.
LEMMA GotoType ==
    ASSUME TypeInv, NEW e \in Executor, UNCHANGED snap,
           NEW l \in {"read", "route", "insert", "publish"}, Goto(e, l),
           l = "read" \/ task[e] \in {"rule", "route", "insert", "publish"}
    PROVE  /\ task' \in [Executor -> {"idle", "read", "rule", "route", "insert", "publish"}]
           /\ HasAnalysis'
BY DEF TypeInv, TypeOK, HasAnalysis, Goto

LEMMA NextType == TypeInv /\ [Next]_vars => TypeInv'
<1> SUFFICES ASSUME TypeInv, [Next]_vars PROVE TypeOK' /\ HasAnalysis'
  BY DEF TypeInv
<1> USE DEF inputVars, caseVars
<1>t. TypeOK /\ HasAnalysis
  BY DEF TypeInv
<1>1. ASSUME NEW w \in Router, Receive(w) PROVE TypeOK' /\ HasAnalysis'
  <2>1. w \in Executor
    BY DEF Executor
  <2>2. events' \in 0..MaxCopies
    BY <1>1, <1>t DEF Receive, TypeOK
  <2>3. QED
    BY <1>1, <1>t, <2>1, <2>2, GotoType DEF Receive, TypeOK
<1>2. ASSUME NEW e \in Executor, RouteOne(e) PROVE TypeOK' /\ HasAnalysis'
  <2>1. CASE CurrentAnalysisForRouting(e)
    <3>1. CASE Done(e)
      BY <2>1, <3>1, <1>t, DoneType DEF CurrentAnalysisForRouting, TypeOK
    <3>2. CASE ~(latest = NoAnalysis \/ deleted)
      <4>1. latest \in Analysis
        BY <3>2, <1>t DEF TypeOK
      <4>2. /\ task' = [task EXCEPT ![e] = "rule"]
            /\ snap' = [snap EXCEPT ![e] = latest]
        BY <2>1, <3>2 DEF CurrentAnalysisForRouting, Goto
      <4>3. HasAnalysis'
        BY <4>1, <4>2, <1>t DEF HasAnalysis, TypeOK
      <4>4. TypeOK'
        BY <2>1, <4>1, <4>2, <1>t DEF CurrentAnalysisForRouting, TypeOK
      <4>5. QED
        BY <4>3, <4>4
    <3>3. QED
      BY <2>1, <3>1, <3>2 DEF CurrentAnalysisForRouting
  <2>2. CASE ActiveRule(e)
    <3>1. CASE GiveUp(e)
      BY <2>2, <3>1, <1>t, GiveUpType, DoneType DEF ActiveRule, TypeOK
    <3>2. CASE Goto(e, "route") /\ UNCHANGED <<snap, events>>
      BY <2>2, <3>2, <1>t, GotoType DEF ActiveRule, TypeOK
    <3>3. QED
      BY <2>2, <3>1, <3>2 DEF ActiveRule
  <2>3. CASE LookForCase(e)
    BY <2>3, <1>t, GotoType DEF LookForCase, TypeOK
  <2>4. CASE InsertCase(e)
    <3>1. CASE status = "none"
      <4>1. snap[e] \in Analysis
        BY <2>4, <1>t DEF InsertCase, HasAnalysis
      <4>2. risk[snap[e]] \in Risk
        BY <4>1, <1>t DEF TypeOK
      <4>3. /\ claimed' \in Analysis /\ level' \in Risk /\ roles' \in SUBSET Role
            /\ status' \in allowedStatuses
        BY <2>4, <3>1, <4>1, <4>2 DEF InsertCase, allowedStatuses
      <4>4. QED
        BY <2>4, <3>1, <4>3, <1>t, GotoType DEF InsertCase, TypeOK
    <3>2. CASE status # "none"
      BY <2>4, <3>2, <1>t, GiveUpType, DoneType DEF InsertCase, TypeOK
    <3>3. QED
      BY <3>1, <3>2
  <2>5. CASE RouteCase(e)
    <3>1. snap[e] \in Analysis
      BY <2>5, <1>t DEF RouteCase, HasAnalysis
    <3>2. risk[snap[e]] \in Risk
      BY <3>1, <1>t DEF TypeOK
    <3>3. /\ claimed' \in Analysis /\ level' \in Risk /\ roles' \in SUBSET Role
          /\ status' \in allowedStatuses \cup {"none"}
          /\ overdue' \in BOOLEAN /\ reminded' \in BOOLEAN
      BY <2>5, <3>1, <3>2, <1>t DEF RouteCase, TypeOK, allowedStatuses
    <3>4. QED
      BY <2>5, <3>3, <1>t, GotoType DEF RouteCase, TypeOK
  <2>6. CASE PublishCaseEvent(e)
    BY <2>6, <1>t, DoneType DEF PublishCaseEvent, TypeOK
  <2>7. QED
    BY <1>2, <2>1, <2>2, <2>3, <2>4, <2>5, <2>6 DEF RouteOne
<1>3. ASSUME NEW k \in Sweeper, FindUnroutedAnalyses(k) PROVE TypeOK' /\ HasAnalysis'
  <2>1. k \in Executor
    BY DEF Executor
  <2>2. QED
    BY <1>3, <1>t, <2>1, GotoType DEF FindUnroutedAnalyses, TypeOK
<1>4. CASE DueSLAReminders
  BY <1>4, <1>t DEF DueSLAReminders, TypeOK, HasAnalysis
<1>5. ASSUME NEW e \in Executor, RouteFails(e) PROVE TypeOK' /\ HasAnalysis'
  BY <1>5, <1>t, GiveUpType, DoneType, FaultType DEF RouteFails, TypeOK
<1>6. ASSUME NEW r \in Risk, NewAnalysis(r) PROVE TypeOK' /\ HasAnalysis'
  <2>1. latest' \in Analysis
    BY <1>6, <1>t DEF NewAnalysis, TypeOK, Analysis, NoAnalysis
  <2>2. risk' \in [Analysis -> Risk]
    BY <1>6, <1>t DEF NewAnalysis, TypeOK
  <2>3. events' \in 0..MaxCopies /\ faults' \in 0..FaultBudget
    BY <1>6, <1>t, PlusType, FaultType DEF NewAnalysis, TypeOK
  <2>4. QED
    BY <1>6, <1>t, <2>1, <2>2, <2>3 DEF NewAnalysis, TypeOK, HasAnalysis
<1>7. ASSUME NEW r \in Risk, DisableRule(r) PROVE TypeOK' /\ HasAnalysis'
  BY <1>7, <1>t, FaultType DEF DisableRule, TypeOK, HasAnalysis
<1>8. CASE SoftDelete
  BY <1>8, <1>t DEF SoftDelete, TypeOK, HasAnalysis
<1>9. ASSUME NEW s, UpdateCaseStatus(s) PROVE TypeOK' /\ HasAnalysis'
  BY <1>9, <1>t DEF UpdateCaseStatus, TypeOK, HasAnalysis
<1>10. CASE EventLost
  <2>1. events' \in 0..MaxCopies
    BY <1>10, <1>t DEF EventLost, TypeOK
  <2>2. QED
    BY <1>10, <1>t, <2>1, FaultType DEF EventLost, TypeOK, HasAnalysis
<1>11. CASE EventAgain
  <2>1. events' \in 0..MaxCopies
    BY <1>11, <1>t DEF EventAgain, TypeOK
  <2>2. QED
    BY <1>11, <1>t, <2>1, FaultType DEF EventAgain, TypeOK, HasAnalysis
<1>12. CASE EnableRule
  BY <1>12, <1>t DEF EnableRule, TypeOK, HasAnalysis
<1>13. CASE AnalysisAges
  BY <1>13, <1>t DEF AnalysisAges, TypeOK, HasAnalysis
<1>14. CASE DeadlinePasses
  BY <1>14, <1>t DEF DeadlinePasses, TypeOK, HasAnalysis
<1>15. CASE UNCHANGED vars
  BY <1>15, <1>t DEF vars, TypeOK, HasAnalysis
<1>16. QED
  BY <1>1, <1>2, <1>3, <1>4, <1>5, <1>6, <1>7, <1>8, <1>9, <1>10, <1>11, <1>12, <1>13,
     <1>14, <1>15
     DEF Next, RouterStep, SweeperStep, Outside, Executor

LEMMA TypeInvariance == Spec => []TypeInv
BY InitType, NextType, PTL DEF Spec

\* Every variable keeps its type.
THEOREM TypeCorrect == Spec => []TypeOK
BY TypeInvariance, PTL DEF TypeInv

-------------------------------------------------------------------------------
(* The case and its risk *)

\* Nobody holds, and the case has not claimed, an analysis that is not there
\* yet: what their risk is does not change any more.
NoneFromTheFuture ==
    /\ claimed <= latest
    /\ \A e \in Executor : snap[e] <= latest

RiskInv == TypeInv /\ NoneFromTheFuture /\ CaseMeetsItsRisk

\* A step that leaves the case and the risks alone and lets no execution read
\* ahead keeps the invariant.
LEMMA QuietStep ==
    ASSUME RiskInv, UNCHANGED <<status, level, claimed, roles, risk, latest>>,
           \A e \in Executor : snap'[e] \in {snap[e], latest, NoAnalysis}
    PROVE  NoneFromTheFuture' /\ CaseMeetsItsRisk'
<1>1. latest \in Nat
  BY DEF RiskInv, TypeInv, TypeOK, Analysis, NoAnalysis
<1>2. NoneFromTheFuture'
  <2>1. ASSUME NEW e \in Executor PROVE snap'[e] <= latest
    <3>1. snap[e] <= latest /\ latest <= latest /\ NoAnalysis <= latest
      BY <1>1 DEF RiskInv, NoneFromTheFuture, NoAnalysis
    <3>2. QED
      BY <3>1
  <2>2. claimed' <= latest'
    BY DEF RiskInv, NoneFromTheFuture
  <2>3. QED
    BY <2>1, <2>2 DEF NoneFromTheFuture
<1>3. CaseMeetsItsRisk'
  BY DEF RiskInv, CaseMeetsItsRisk
<1>4. QED
  BY <1>2, <1>3

\* Being done forgets the analysis and changes nobody else's.
LEMMA DoneForgets ==
    ASSUME TypeOK, NEW e \in Executor, Done(e), NEW d \in Executor
    PROVE  snap'[d] \in {snap[d], NoAnalysis}
BY DEF TypeOK, Done

LEMMA GiveUpForgets ==
    ASSUME TypeOK, NEW e \in Executor, GiveUp(e), NEW d \in Executor
    PROVE  snap'[d] \in {snap[d], NoAnalysis}
BY DoneForgets DEF GiveUp

\* The ranks are ordered as they are meant to be.
LEMMA RankType == riskRank \in [Risk -> 1..3]
BY DEF riskRank, Risk

\* Creating, reopening, escalating or acknowledging leaves the case at no less
\* than the risk of what it has claimed.
LEMMA RoutedCase ==
    ASSUME RiskInv, NEW e \in Executor, InsertCase(e) \/ RouteCase(e)
    PROVE  NoneFromTheFuture' /\ CaseMeetsItsRisk'
<1> DEFINE a == snap[e]
<1> USE DEF inputVars, caseVars
<1>t. TypeOK /\ HasAnalysis /\ NoneFromTheFuture /\ CaseMeetsItsRisk
  BY DEF RiskInv, TypeInv
<1>1. a \in Analysis /\ a <= latest
  BY <1>t DEF InsertCase, RouteCase, HasAnalysis, NoneFromTheFuture
<1>2. risk[a] \in Risk /\ level \in Risk /\ risk' = risk /\ latest' = latest
  BY <1>1, <1>t DEF TypeOK, InsertCase, RouteCase
<1>3. riskRank[risk[a]] \in 1..3 /\ riskRank[level] \in 1..3
  BY <1>2, RankType
<1>4. a # NoAnalysis
  BY <1>1 DEF Analysis, NoAnalysis
<1>5. CASE GiveUp(e) /\ UNCHANGED <<status, level, claimed, roles>>
  <2>1. \A d \in Executor : snap'[d] \in {snap[d], latest, NoAnalysis}
    BY <1>5, <1>t, GiveUpForgets
  <2>2. QED
    BY <1>5, <1>2, <2>1, QuietStep
<1>6. CASE /\ claimed' = a /\ level' = risk[a] /\ RolesOf[risk[a]] \subseteq roles'
           /\ UNCHANGED snap
  BY <1>6, <1>1, <1>2, <1>3, <1>4, <1>t DEF NoneFromTheFuture, CaseMeetsItsRisk
<1>7. CASE /\ claimed' = a /\ UNCHANGED <<status, level, roles, snap>>
           /\ status # "none" /\ RouteOutcome(a) \in {"replay", "acknowledged"}
  <2>1. riskRank[level] >= riskRank[risk[a]]
    <3>1. CASE claimed = a
      BY <3>1, <1>7, <1>t DEF CaseMeetsItsRisk
    <3>2. CASE ~Escalating(a)
      BY <3>2, <1>3 DEF Escalating
    <3>3. QED
      BY <3>1, <3>2, <1>7 DEF RouteOutcome
  <2>2. QED
    BY <2>1, <1>7, <1>1, <1>2, <1>4, <1>t DEF NoneFromTheFuture, CaseMeetsItsRisk
<1>8. QED
  <2>1. CASE InsertCase(e)
    BY <2>1, <1>5, <1>6 DEF InsertCase
  <2>2. CASE RouteCase(e)
    <3>1. CASE RouteOutcome(a) \in {"reopened", "escalated"}
      BY <2>2, <3>1, <1>6 DEF RouteCase
    <3>2. CASE RouteOutcome(a) \notin {"reopened", "escalated"}
      <4>1. RouteOutcome(a) \in {"replay", "acknowledged"}
        BY <3>2 DEF RouteOutcome
      <4>2. QED
        BY <2>2, <3>2, <4>1, <1>7 DEF RouteCase
    <3>3. QED
      BY <3>1, <3>2
  <2>3. QED
    BY <2>1, <2>2

LEMMA InitRisk == Init => RiskInv
<1> SUFFICES ASSUME Init PROVE NoneFromTheFuture /\ CaseMeetsItsRisk
  BY InitType DEF RiskInv
<1>1. QED
  BY DEF Init, NoneFromTheFuture, CaseMeetsItsRisk, NoAnalysis

LEMMA NextRisk == RiskInv /\ [Next]_vars => RiskInv'
<1> SUFFICES ASSUME RiskInv, [Next]_vars PROVE NoneFromTheFuture' /\ CaseMeetsItsRisk'
  BY NextType DEF RiskInv
<1> USE DEF inputVars, caseVars
<1>t. TypeOK /\ HasAnalysis /\ NoneFromTheFuture /\ CaseMeetsItsRisk
  BY DEF RiskInv, TypeInv
<1>1. ASSUME NEW w \in Router, Receive(w) PROVE NoneFromTheFuture' /\ CaseMeetsItsRisk'
  BY <1>1, QuietStep DEF Receive
<1>2. ASSUME NEW e \in Executor, RouteOne(e) PROVE NoneFromTheFuture' /\ CaseMeetsItsRisk'
  <2>1. CASE CurrentAnalysisForRouting(e)
    <3>1. \A d \in Executor : snap'[d] \in {snap[d], latest, NoAnalysis}
      BY <2>1, <1>t, DoneForgets DEF CurrentAnalysisForRouting, TypeOK
    <3>2. QED
      BY <2>1, <3>1, QuietStep DEF CurrentAnalysisForRouting
  <2>2. CASE ActiveRule(e)
    <3>1. \A d \in Executor : snap'[d] \in {snap[d], latest, NoAnalysis}
      BY <2>2, <1>t, GiveUpForgets DEF ActiveRule
    <3>2. QED
      BY <2>2, <3>1, QuietStep DEF ActiveRule
  <2>3. CASE LookForCase(e)
    BY <2>3, QuietStep DEF LookForCase
  <2>4. CASE InsertCase(e) \/ RouteCase(e)
    BY <2>4, RoutedCase
  <2>5. CASE PublishCaseEvent(e)
    <3>1. \A d \in Executor : snap'[d] \in {snap[d], latest, NoAnalysis}
      BY <2>5, <1>t, DoneForgets DEF PublishCaseEvent
    <3>2. QED
      BY <2>5, <3>1, QuietStep DEF PublishCaseEvent
  <2>6. QED
    BY <1>2, <2>1, <2>2, <2>3, <2>4, <2>5 DEF RouteOne
<1>3. ASSUME NEW k \in Sweeper, FindUnroutedAnalyses(k)
      PROVE  NoneFromTheFuture' /\ CaseMeetsItsRisk'
  BY <1>3, QuietStep DEF FindUnroutedAnalyses
<1>4. ASSUME NEW e \in Executor, RouteFails(e) PROVE NoneFromTheFuture' /\ CaseMeetsItsRisk'
  <2>1. \A d \in Executor : snap'[d] \in {snap[d], latest, NoAnalysis}
    BY <1>4, <1>t, GiveUpForgets DEF RouteFails
  <2>2. QED
    BY <1>4, <2>1, QuietStep DEF RouteFails
<1>5. ASSUME NEW r \in Risk, NewAnalysis(r) PROVE NoneFromTheFuture' /\ CaseMeetsItsRisk'
  <2>1. /\ latest \in Nat /\ claimed \in Nat /\ latest' = latest + 1
        /\ claimed <= latest /\ claimed' = claimed
    BY <1>5, <1>t DEF NewAnalysis, TypeOK, NoneFromTheFuture, Analysis, NoAnalysis
  <2>2. NoneFromTheFuture'
    <3>1. ASSUME NEW e \in Executor PROVE snap'[e] <= latest'
      <4>1. snap[e] \in Nat /\ snap[e] <= latest /\ snap' = snap
        BY <1>5, <1>t DEF NewAnalysis, TypeOK, NoneFromTheFuture, Analysis, NoAnalysis
      <4>2. QED
        BY <2>1, <4>1
    <3>2. QED
      BY <2>1, <3>1 DEF NoneFromTheFuture
  <2>3. CaseMeetsItsRisk'
    <3>1. SUFFICES ASSUME status # "none" PROVE risk'[claimed] = risk[claimed]
      BY <1>5, <2>1, <1>t DEF NewAnalysis, CaseMeetsItsRisk
    <3>2. claimed \in Analysis /\ claimed # latest + 1
      BY <3>1, <2>1, <1>t DEF CaseMeetsItsRisk, TypeOK
    <3>3. risk' = [risk EXCEPT ![latest + 1] = r]
      BY <1>5 DEF NewAnalysis
    <3>4. QED
      BY <3>2, <3>3, <1>t DEF TypeOK
  <2>4. QED
    BY <2>2, <2>3
<1>6. ASSUME NEW s, UpdateCaseStatus(s) PROVE NoneFromTheFuture' /\ CaseMeetsItsRisk'
  BY <1>6, <1>t DEF UpdateCaseStatus, NoneFromTheFuture, CaseMeetsItsRisk
<1>7. CASE \/ SoftDelete \/ EventLost \/ EventAgain \/ EnableRule \/ AnalysisAges
           \/ DeadlinePasses \/ DueSLAReminders \/ UNCHANGED vars
           \/ \E r \in Risk : DisableRule(r)
  BY <1>7, QuietStep
     DEF SoftDelete, EventLost, EventAgain, EnableRule, AnalysisAges, DeadlinePasses,
         DueSLAReminders, DisableRule, vars
<1>8. QED
  BY <1>1, <1>2, <1>3, <1>4, <1>5, <1>6, <1>7
     DEF Next, RouterStep, SweeperStep, Outside, Executor

LEMMA RiskInvariance == Spec => []RiskInv
BY InitRisk, NextRisk, PTL DEF Spec

\* Whatever the order in which analyses are routed, a case is never handled at
\* a lower risk than the analysis it has claimed, and the people its risk calls
\* for are assigned.
THEOREM CasesMeetTheirRisk == Spec => []CaseMeetsItsRisk
BY RiskInvariance, PTL DEF RiskInv

-------------------------------------------------------------------------------
(* Work that is finished *)

LEMMA NoReplayReopens ==
    ASSUME [Next]_vars, Closed, status' = "open"
    PROVE  claimed' # claimed
<1> USE DEF inputVars, caseVars
<1>1. status \in {"resolved", "closed"} /\ status' # status
  BY DEF Closed
<1>2. ASSUME NEW e \in Executor, RouteOne(e) PROVE claimed' # claimed
  <2>1. RouteCase(e)
    BY <1>1, <1>2
       DEF RouteOne, CurrentAnalysisForRouting, ActiveRule, LookForCase, InsertCase,
           PublishCaseEvent
  <2>2. RouteOutcome(snap[e]) = "reopened"
    BY <1>1, <2>1 DEF RouteCase, RouteOutcome, Closed
  <2>3. QED
    BY <2>1, <2>2 DEF RouteCase, RouteOutcome
<1>3. ASSUME NEW s, UpdateCaseStatus(s) PROVE FALSE
  <2>1. "open" \in validTransitions[status] /\ status \in allowedStatuses
    BY <1>1, <1>3 DEF UpdateCaseStatus, allowedStatuses
  <2>2. QED
    BY <1>1, <2>1 DEF validTransitions, allowedStatuses
<1>4. QED
  BY <1>1, <1>2, <1>3
     DEF Next, RouterStep, SweeperStep, Outside, Executor, Receive, FindUnroutedAnalyses,
         DueSLAReminders, RouteFails, NewAnalysis, DisableRule, SoftDelete, EventLost,
         EventAgain, EnableRule, AnalysisAges, DeadlinePasses, vars

\* A case people have finished with opens again only for an analysis it has
\* not claimed, never for a repeated event or a sweep.
THEOREM ReplaysNeverReopen == Spec => ReplayNeverReopens
<1>1. [Next]_vars => [Closed /\ status' = "open" => claimed' # claimed]_vars
  BY NoReplayReopens
<1>2. QED
  BY <1>1, PTL DEF Spec, ReplayNeverReopens

-------------------------------------------------------------------------------
(* Every step but RouteCase, as far as the case is concerned *)

LEMMA WhoWritesTheCase ==
    ASSUME [Next]_vars, status # "none"
    PROVE  \/ \E e \in Executor : RouteCase(e)
           \/ /\ UNCHANGED <<level, claimed, roles>>
              /\ status' \in {status} \cup validTransitions[status]
              /\ \/ UNCHANGED <<overdue, reminded>>
                 \/ overdue' = TRUE /\ reminded' = reminded
                 \/ overdue /\ overdue' = overdue /\ reminded' = TRUE
<1> USE DEF inputVars, caseVars
<1>1. ASSUME NEW e \in Executor, RouteOne(e), ~RouteCase(e)
      PROVE  UNCHANGED caseVars
  BY <1>1 DEF RouteOne, CurrentAnalysisForRouting, ActiveRule, LookForCase, InsertCase,
              PublishCaseEvent
<1>2. ASSUME NEW s, UpdateCaseStatus(s)
      PROVE  /\ UNCHANGED <<level, claimed, roles, overdue, reminded>>
             /\ status' \in validTransitions[status]
  BY <1>2 DEF UpdateCaseStatus
<1>3. CASE DueSLAReminders
  BY <1>3 DEF DueSLAReminders
<1>4. CASE DeadlinePasses
  BY <1>4 DEF DeadlinePasses
<1>5. QED
  BY <1>1, <1>2, <1>3, <1>4
     DEF Next, RouterStep, SweeperStep, Outside, Executor, Receive, FindUnroutedAnalyses,
         RouteFails, NewAnalysis, DisableRule, SoftDelete, EventLost, EventAgain,
         EnableRule, AnalysisAges, vars

-------------------------------------------------------------------------------
(* What reopens a case for an older analysis *)

\* The analysis an execution has read is still the current one when its
\* transaction decides about the case.
RoutesLatest == \A e \in Executor : RouteCase(e) => snap[e] = latest

\* The case never goes back to an analysis older than the one it has claimed.
ClaimNeverGoesBack == [][claimed' >= claimed]_vars

\* A review without a case has no claimed analysis, and a case stays.
UnclaimedBefore == status = "none" => claimed = NoAnalysis

LEMMA CaseStays ==
    ASSUME [Next]_vars, status' = "none"
    PROVE  status = "none" /\ claimed' = claimed
<1> USE DEF inputVars, caseVars
<1>1. ASSUME NEW e \in Executor, RouteOne(e) PROVE status = "none" /\ claimed' = claimed
  <2>1. ~InsertCase(e) \/ UNCHANGED caseVars
    BY DEF InsertCase
  <2>2. ~RouteCase(e)
    BY DEF RouteCase
  <2>3. QED
    BY <1>1, <2>1, <2>2
       DEF RouteOne, CurrentAnalysisForRouting, ActiveRule, LookForCase, InsertCase,
           PublishCaseEvent
<1>2. ASSUME NEW s, UpdateCaseStatus(s) PROVE FALSE
  BY <1>2 DEF UpdateCaseStatus, allowedStatuses
<1>3. QED
  BY <1>1, <1>2
     DEF Next, RouterStep, SweeperStep, Outside, Executor, Receive, FindUnroutedAnalyses,
         DueSLAReminders, RouteFails, NewAnalysis, DisableRule, SoftDelete, EventLost,
         EventAgain, EnableRule, AnalysisAges, DeadlinePasses, vars

LEMMA UnclaimedNext == UnclaimedBefore /\ [Next]_vars => UnclaimedBefore'
BY CaseStays DEF UnclaimedBefore

LEMMA LatestNeverGoesBack ==
    ASSUME RiskInv, UnclaimedBefore, [Next]_vars, [RoutesLatest]_vars
    PROVE  /\ [claimed' >= claimed]_vars
           /\ [Closed /\ status' = "open" => claimed' > claimed]_vars
<1>0. claimed \in Nat /\ claimed' \in Nat
  BY NextRisk DEF RiskInv, TypeInv, TypeOK, Analysis, NoAnalysis
<1>1. claimed' >= claimed
  <2>1. CASE status = "none"
    <3>1. claimed = 0
      BY <2>1 DEF UnclaimedBefore, NoAnalysis
    <3>2. QED
      BY <1>0, <3>1
  <2>2. ASSUME NEW e \in Executor, RouteCase(e)
        PROVE  claimed' >= claimed
    <3>1. CASE UNCHANGED vars
      BY <1>0, <3>1 DEF vars, caseVars
    <3>2. CASE RoutesLatest
      <4>1. claimed' = latest /\ claimed <= latest
        BY <2>2, <3>2 DEF RouteCase, RoutesLatest, RiskInv, NoneFromTheFuture
      <4>2. latest \in Nat
        BY DEF RiskInv, TypeInv, TypeOK, Analysis, NoAnalysis
      <4>3. QED
        BY <1>0, <4>1, <4>2
    <3>3. QED
      BY <3>1, <3>2
  <2>3. CASE status # "none" /\ claimed' = claimed
    BY <1>0, <2>3
  <2>4. QED
    BY <2>1, <2>2, <2>3, WhoWritesTheCase
<1>2. Closed /\ status' = "open" => claimed' # claimed
  BY NoReplayReopens
<1>3. QED
  BY <1>0, <1>1, <1>2

\* The comment of RouteCase, which RoutingStaleReopen refutes, is wrong for one
\* reason only: the analysis is read before the transaction that decides.  If
\* it is still the current one then, a case is reopened by a newer analysis
\* only, and never claims an older one again.
THEOREM StaleReadsReopen ==
    Spec /\ [][RoutesLatest]_vars => ReopenMeansNewer /\ ClaimNeverGoesBack
<1>1. Init => UnclaimedBefore
  BY DEF Init, UnclaimedBefore
<1>2. /\ RiskInv /\ UnclaimedBefore /\ [Next]_vars /\ [RoutesLatest]_vars
      => /\ [claimed' >= claimed]_vars
         /\ [Closed /\ status' = "open" => claimed' > claimed]_vars
  BY LatestNeverGoesBack
<1>3. QED
  BY <1>1, <1>2, UnclaimedNext, RiskInvariance, PTL
     DEF Spec, ReopenMeansNewer, ClaimNeverGoesBack

-------------------------------------------------------------------------------
(* What happens to a case in the course of its life *)

Reopened == Closed /\ status' = "open"

\* A case stays, its people stay, its risk falls only with the analysis that
\* reopens it, and its clock and its reminder start anew only when it is
\* reopened or its risk rises.
CaseIsKept ==
    status # "none" =>
        /\ status' # "none"
        /\ roles \subseteq roles'
        /\ riskRank[level'] < riskRank[level] => Reopened
        /\ (overdue /\ ~overdue') \/ (reminded /\ ~reminded')
              => Reopened \/ riskRank[level'] > riskRank[level]

\* A reminder goes out only past the deadline, and goes with it.
RemindedIsOverdue == reminded => overdue

LEMMA KeptNext ==
    ASSUME RiskInv, RemindedIsOverdue, [Next]_vars
    PROVE  CaseIsKept /\ RemindedIsOverdue'
<1>1. riskRank[level] \in 1..3 /\ level \in Risk /\ overdue \in BOOLEAN /\ reminded \in BOOLEAN
  BY RankType DEF RiskInv, TypeInv, TypeOK
<1>2. ASSUME NEW e \in Executor, RouteCase(e)
      PROVE  CaseIsKept /\ RemindedIsOverdue'
  <2>1. snap[e] \in Analysis /\ risk[snap[e]] \in Risk /\ riskRank[risk[snap[e]]] \in 1..3
    BY <1>2, RankType DEF RouteCase, RiskInv, TypeInv, TypeOK, HasAnalysis
  <2>2. CASE RouteOutcome(snap[e]) \notin {"reopened", "escalated"}
    <3>1. UNCHANGED <<status, level, roles, overdue, reminded>> /\ status # "none"
      BY <1>2, <2>2 DEF RouteCase
    <3>2. QED
      BY <1>1, <3>1 DEF CaseIsKept, RemindedIsOverdue
  <2>3. CASE RouteOutcome(snap[e]) = "reopened"
    <3>1. Closed
      BY <2>3 DEF RouteOutcome
    <3>2. /\ status' = "open" /\ roles \subseteq roles'
          /\ overdue' = FALSE /\ reminded' = FALSE
      BY <1>2, <2>3 DEF RouteCase
    <3>3. QED
      BY <3>1, <3>2 DEF CaseIsKept, RemindedIsOverdue, Reopened
  <2>4. CASE RouteOutcome(snap[e]) = "escalated"
    <3>1. riskRank[risk[snap[e]]] > riskRank[level]
      BY <2>4 DEF RouteOutcome, Escalating
    <3>2. /\ status' = status /\ status # "none" /\ roles \subseteq roles'
          /\ level' = risk[snap[e]]
          /\ overdue' = FALSE /\ reminded' = FALSE
      BY <1>2, <2>4 DEF RouteCase
    <3>3. ~(riskRank[level'] < riskRank[level]) /\ riskRank[level'] > riskRank[level]
      BY <1>1, <2>1, <3>1, <3>2
    <3>4. QED
      BY <3>2, <3>3 DEF CaseIsKept, RemindedIsOverdue
  <2>5. QED
    BY <2>2, <2>3, <2>4
<1>3. CASE status # "none" /\ ~ \E e \in Executor : RouteCase(e)
  <2>1. /\ UNCHANGED <<level, roles>>
        /\ \/ UNCHANGED <<overdue, reminded>>
           \/ overdue' = TRUE /\ reminded' = reminded
           \/ overdue /\ overdue' = overdue /\ reminded' = TRUE
    BY <1>3, WhoWritesTheCase
  <2>2. status' # "none"
    BY <1>3, CaseStays
  <2>3. QED
    BY <1>1, <2>1, <2>2 DEF CaseIsKept, RemindedIsOverdue
<1>4. CASE status = "none"
  <2>1. UNCHANGED <<overdue, reminded>>
    <3> USE DEF inputVars, caseVars
    <3>1. ASSUME NEW e \in Executor, RouteOne(e) PROVE UNCHANGED <<overdue, reminded>>
      BY <1>4, <3>1 DEF RouteOne, CurrentAnalysisForRouting, ActiveRule, LookForCase,
                        InsertCase, RouteCase, PublishCaseEvent
    <3>2. QED
      BY <1>4, <3>1
         DEF Next, RouterStep, SweeperStep, Outside, Executor, Receive,
             FindUnroutedAnalyses, UpdateCaseStatus, DueSLAReminders, RouteFails,
             NewAnalysis, DisableRule, SoftDelete, EventLost, EventAgain, EnableRule,
             AnalysisAges, DeadlinePasses, vars
  <2>2. QED
    BY <1>4, <2>1 DEF CaseIsKept, RemindedIsOverdue
<1>5. QED
  BY <1>2, <1>3, <1>4

\* Routing, people and reminders together: no order of analyses, sweeps and
\* status changes takes a case or its people away, lowers its risk while it is
\* being worked on, or gives it a later deadline or a second reminder for free.
THEOREM CasesAreKept == Spec => [][CaseIsKept]_vars /\ []RemindedIsOverdue
<1>1. Init => RemindedIsOverdue
  BY DEF Init, RemindedIsOverdue
<1>2. RiskInv /\ RemindedIsOverdue /\ [Next]_vars => CaseIsKept /\ RemindedIsOverdue'
  BY KeptNext
<1>3. QED
  BY <1>1, <1>2, RiskInvariance, PTL DEF Spec
===============================================================================

------------------------------- MODULE AdminCases -------------------------------
(***************************************************************************)
(* The demonstration cases of the admin application (admin/src/lib/db.ts): *)
(* their statuses and read marks in the memory of each tab and in          *)
(* localStorage, the filters, the drawer, the notifications' read marks,   *)
(* and the pages that list and count cases.  The roles cut every list.     *)
(*                                                                         *)
(* A tab reads localStorage once, when it is loaded, and every change it   *)
(* makes writes back all of its own cases: what another tab wrote in the   *)
(* meantime is lost.                                                       *)
(***************************************************************************)
EXTENDS AdminRoles

CONSTANTS
    Tab,            \* the tabs of one browser
    TabRole,        \* the roles the users of this instance take
    Seed,           \* the status seedStatus derives from a case's id and risk
    CaseSentiment,  \* sentiment of every case
    CaseCats,       \* categories of every case
    CaseWords,      \* the search words its texts contain
    Note,           \* DB.notifications
    NoteCase,       \* the case of a notification, NoCase for a collective one
    Filtering,      \* the tabs whose users filter and switch roles
    Fields,         \* the fields of the filter bar they touch
    MaxEdits,       \* bound: handlers per behaviour
    NotSaved, NoCase

Status == {"unassigned", "open", "in_progress", "pending_review",
           "pending_customer", "done", "closed", "canceled"}
Sentiment == {"negative", "neutral", "positive"}

\* What seedStatus can give each risk (db.ts:119-131).
SeedOf(k) ==
    CASE k = "high"   -> {"in_progress", "open", "unassigned"}
      [] k = "medium" -> Status \ {"canceled"}
      [] k = "low"    -> {"closed", "done", "in_progress", "unassigned", "open"}

ASSUME TabAssumption == Tab # {} /\ TabRole \subseteq RoleId /\ Filtering \subseteq Tab
ASSUME BoundAssumption == MaxEdits \in Nat
\* An empty key of localStorage is told apart from any record in it.
ASSUME SavedAssumption == NotSaved \notin [Case -> [s : Status, read : BOOLEAN]]

ASSUME SeedAssumption == \A c \in Case : Seed[c] \in SeedOf(CaseRisk[c])

\* The buttons of the case drawer.
CASE_TRANS(s) ==
    CASE s = "unassigned"       -> {"open"}
      [] s = "open"             -> {"in_progress", "canceled"}
      [] s = "in_progress"      -> {"pending_customer", "pending_review", "done"}
      [] s = "pending_customer" -> {"in_progress", "done"}
      [] s = "pending_review"   -> {"done", "in_progress"}
      [] s = "done"             -> {"closed", "in_progress"}
      [] s \in {"closed", "canceled"} -> {"open"}

VARIABLES
    saved,      \* localStorage: status and read mark of every case, or NotSaved
    cases,      \* CASES, per tab
    openId,     \* the case in the drawer, per tab
    rf,         \* the filters, per tab
    noteRead,   \* the notifications marked read, per tab (memory only)
    role,       \* the tab's role
    due,        \* the clock against every case's sla_due_at
    edits,      \* handlers so far
    writer,     \* history: the tab that wrote localStorage last
    inView      \* history: the notifications some role of the tab could see

vars == <<saved, cases, openId, rf, noteRead, role, due, edits, writer, inView>>
historyVars == <<edits, writer, inView>>

isActive(s) == s \notin {"done", "closed", "canceled"}
Escalated(c, s) == CaseRisk[c] = "high" /\ s = "in_progress"

NoFilter == [q |-> "", brand |-> "", store |-> "", risk |-> "", sent |-> "",
             status |-> "", cat |-> "", overdue |-> ""]

(***************************************************************************)
(* What the pages of a tab list and count.                                 *)
(***************************************************************************)
Mine(t) == ScopedCases(role[t])
Overdue(t) == {c \in Mine(t) : isActive(cases[t][c].cstatus) /\ due[c] = "late"}
Soon(t)    == {c \in Mine(t) : isActive(cases[t][c].cstatus) /\ due[c] = "soon"}

\* An empty field lets every case through.
Passes(f, value) == f = "" \/ f = value

\* The cases of S that the filters of tab t let through.
ReviewFilters(t, S) ==
    {c \in S :
        /\ rf[t].q = "" \/ rf[t].q \in CaseWords[c]
        /\ Passes(rf[t].brand, CaseBrand(c))
        /\ Passes(rf[t].store, CaseStore[c])
        /\ Passes(rf[t].risk, CaseRisk[c])
        /\ Passes(rf[t].sent, CaseSentiment[c])
        /\ Passes(rf[t].status, cases[t][c].cstatus)
        /\ rf[t].cat = "" \/ rf[t].cat \in CaseCats[c]
        /\ rf[t].overdue = "1" => isActive(cases[t][c].cstatus) /\ due[c] = "late"}

ReviewsList(t) == ReviewFilters(t, Mine(t))
CasesList(t)   == ReviewFilters(t, Mine(t))
SlaList(t)     == Overdue(t) \cup Soon(t)

ScopedNotifications(r) ==
    {n \in Note : IF NoteCase[n] # NoCase THEN NoteCase[n] \in ScopedCases(r)
                                          ELSE r \in {"hq", "cs"}}

NotedCases(t) == {NoteCase[n] : n \in ScopedNotifications(role[t])} \ {NoCase}

\* The badges of the menu.
OpenCount(t) == Cardinality({c \in Mine(t) : cases[t][c].cstatus \in {"unassigned", "open"}})
Alerts(t) == Cardinality(ScopedNotifications(role[t]) \ noteRead[t])

\* The cases behind a figure of the dashboard that one can click.
Figure == {"neg", "cases", "sla", "high", "overdue"}

Counted(t, d) ==
    CASE d = "neg"     -> {c \in Mine(t) : CaseSentiment[c] = "negative"}
      [] d = "high"    -> {c \in Mine(t) : CaseRisk[c] = "high" /\ isActive(cases[t][c].cstatus)}
      [] d = "overdue" -> Overdue(t)
      [] OTHER         -> Mine(t)

\* The list on the page a figure leads to.
Reached(t, d) == CASE d = "sla"                 -> SlaList(t)
                   [] d \in {"cases", "overdue"} -> CasesList(t)
                   [] OTHER                      -> ReviewsList(t)

(***************************************************************************)
(* The handlers.                                                           *)
(***************************************************************************)
Edit == edits < MaxEdits /\ edits' = edits + 1

\* What a tab that is loaded now finds for case c.
Loaded(c) ==
    LET s == IF saved = NotSaved THEN Seed[c] ELSE saved[c].s
    IN [cstatus |-> s, read |-> saved # NotSaved /\ saved[c].read,
        reopened |-> 0, escalated |-> Escalated(c, s)]

\* Mutant: only the case that was changed is written.
PersistOne(t, c, rec) ==
    /\ cases' = [cases EXCEPT ![t][c] = rec]
    /\ saved' = [k \in Case |-> IF k = c \/ saved = NotSaved
                                THEN [s |-> cases'[t][k].cstatus, read |-> cases'[t][k].read]
                                ELSE saved[k]]
    /\ writer' = t

\* Tab t replaces its record of case c and writes all its cases back.
Persist(t, c, rec) ==
    /\ cases' = [cases EXCEPT ![t][c] = rec]
    /\ saved' = [k \in Case |-> [s |-> cases'[t][k].cstatus, read |-> cases'[t][k].read]]
    /\ writer' = t

Load(t) ==
    /\ Edit
    /\ cases' = [cases EXCEPT ![t] = [c \in Case |-> Loaded(c)]]
    /\ openId' = [openId EXCEPT ![t] = NoCase]
    /\ rf' = [rf EXCEPT ![t] = NoFilter]
    /\ noteRead' = [noteRead EXCEPT ![t] = {}]
    /\ inView' = [inView EXCEPT ![t] = ScopedNotifications(role[t])]
    /\ UNCHANGED <<saved, role, due, writer>>

\* A row of the lists, or the case of a notification.
OpenCase(t, c) ==
    /\ Edit
    /\ c \in ReviewsList(t) \cup CasesList(t) \cup SlaList(t) \cup NotedCases(t)
    /\ Persist(t, c, [cases[t][c] EXCEPT !.read = TRUE])
    /\ openId' = [openId EXCEPT ![t] = c]
    /\ UNCHANGED <<rf, noteRead, role, due, inView>>

\* Mutant: the identifier is blanked instead of dropped.
CloseBlank(t) ==
    /\ openId[t] # NoCase
    /\ openId' = [openId EXCEPT ![t] = ""]
    /\ UNCHANGED <<saved, cases, rf, noteRead, role, due, historyVars>>

CloseDrawer(t) ==
    /\ openId[t] # NoCase
    /\ openId' = [openId EXCEPT ![t] = NoCase]
    /\ UNCHANGED <<saved, cases, rf, noteRead, role, due, historyVars>>

\* A button of the case drawer.
SetStatus(t, c, to) ==
    /\ Edit
    /\ c = openId[t]
    /\ to \in CASE_TRANS(cases[t][c].cstatus)
    /\ Persist(t, c,
         [cases[t][c] EXCEPT
            !.cstatus = to,
            !.reopened = IF to = "open" /\ cases[t][c].cstatus \in {"closed", "done"}
                         THEN @ + 1 ELSE @,
            !.escalated = Escalated(c, to)])
    /\ UNCHANGED <<openId, rf, noteRead, role, due, inView>>

\* What the filter bar offers for a field; the short bar has four fields less.
Offered(t, k) ==
    CASE k = "q"       -> UNION {CaseWords[c] : c \in Case}
      [] k = "brand"   -> {CaseBrand(c) : c \in Mine(t)}
      [] k = "store"   -> {CaseStore[c] : c \in Mine(t)}
      [] k = "risk"    -> Risk
      [] k = "sent"    -> Sentiment
      [] k = "status"  -> Status
      [] k = "cat"     -> UNION {CaseCats[c] : c \in Mine(t)}
      [] k = "overdue" -> {"1"}

SetFilters(t, f) ==
    /\ rf' = [rf EXCEPT ![t] = f]
    /\ UNCHANGED <<saved, cases, openId, noteRead, role, due, writer, inView>>

\* FilterBar: one field, chosen or emptied, over the full set of fields.
PickFilter(t, k) ==
    /\ Edit
    /\ \E v \in Offered(t, k) \cup {""} : SetFilters(t, [rf[t] EXCEPT ![k] = v])

ClearFilters(t) == Edit /\ SetFilters(t, NoFilter)

\* Mutant: the figure's filter is put on top of the old ones.
GoOnTop(t, d) ==
    /\ Edit
    /\ SetFilters(t, CASE d = "neg"     -> [rf[t] EXCEPT !.sent = "negative"]
                       [] d = "high"    -> [rf[t] EXCEPT !.risk = "high"]
                       [] d = "overdue" -> [rf[t] EXCEPT !.overdue = "1"]
                       [] OTHER         -> NoFilter)

\* A click on a figure of the dashboard: its filter and no other.
Go(t, d) ==
    /\ Edit
    /\ SetFilters(t, CASE d = "neg"     -> [NoFilter EXCEPT !.sent = "negative"]
                       [] d = "high"    -> [NoFilter EXCEPT !.risk = "high"]
                       [] d = "overdue" -> [NoFilter EXCEPT !.overdue = "1"]
                       [] OTHER         -> NoFilter)

MarkNotes(t, S) ==
    /\ Edit
    /\ noteRead' = [noteRead EXCEPT ![t] = @ \cup S]
    /\ UNCHANGED <<saved, cases, openId, rf, role, due, writer, inView>>

MarkRead(t, n) == n \in ScopedNotifications(role[t]) /\ MarkNotes(t, {n})

\* Mutant: the button marks what other roles would list, too.
MarkEverything(t) == MarkNotes(t, Note)

\* The button passes the identifiers of the notifications listed.
MarkAllRead(t) == MarkNotes(t, ScopedNotifications(role[t]))

SwitchRole(t, r) ==
    /\ Edit
    /\ r # role[t]
    /\ role' = [role EXCEPT ![t] = r]
    /\ inView' = [inView EXCEPT ![t] = @ \cup ScopedNotifications(r)]
    /\ UNCHANGED <<saved, cases, openId, rf, noteRead, due, writer>>

\* Time passes: the case enters its last hour, and is late after it.
Pass(c) ==
    /\ due[c] # "late"
    /\ due' = [due EXCEPT ![c] = IF @ = "far" THEN "soon" ELSE "late"]
    /\ UNCHANGED <<saved, cases, openId, rf, noteRead, role, historyVars>>

Init ==
    /\ saved = NotSaved
    /\ cases = [t \in Tab |-> [c \in Case |->
          [cstatus |-> Seed[c], read |-> FALSE, reopened |-> 0,
           escalated |-> Escalated(c, Seed[c])]]]
    /\ openId = [t \in Tab |-> NoCase]
    /\ rf = [t \in Tab |-> NoFilter]
    /\ noteRead = [t \in Tab |-> {}]
    /\ role \in [Tab -> TabRole]
    /\ due = [c \in Case |-> "far"]
    /\ edits = 0
    /\ writer = CHOOSE t \in Tab : TRUE     \* of no meaning before a write
    /\ inView = [t \in Tab |-> ScopedNotifications(role[t])]

Next ==
    \/ \E t \in Tab :
          \/ Load(t) \/ CloseDrawer(t)
          \/ \E c \in Case : OpenCase(t, c) \/ \E to \in Status : SetStatus(t, c, to)
    \/ \E t \in Filtering :
          \/ ClearFilters(t) \/ MarkAllRead(t)
          \/ \E k \in Fields : PickFilter(t, k)
          \/ \E d \in Figure : Go(t, d)
          \/ \E n \in Note : MarkRead(t, n)
          \/ \E r \in TabRole : SwitchRole(t, r)
    \/ \E c \in Case : Pass(c)

Spec == Init /\ [][Next]_vars

(***************************************************************************)
(* Properties.                                                             *)
(***************************************************************************)
\* Every variable holds a value of its kind.
TypeOK ==
    /\ saved \in {NotSaved} \cup [Case -> [s : Status, read : BOOLEAN]]
    /\ cases \in [Tab -> [Case -> [cstatus : Status, read : BOOLEAN,
                                   reopened : 0..MaxEdits, escalated : BOOLEAN]]]
    /\ openId \in [Tab -> Case \cup {NoCase}]
    /\ DOMAIN rf = Tab /\ \A t \in Tab : DOMAIN rf[t] = DOMAIN NoFilter
    /\ noteRead \in [Tab -> SUBSET Note]
    /\ role \in [Tab -> TabRole]
    /\ due \in [Case -> {"far", "soon", "late"}]
    /\ edits \in 0..MaxEdits
    /\ writer \in Tab
    /\ inView \in [Tab -> SUBSET Note]

\* Whichever tab changed a case last finds all its statuses and read marks again
\* after a reload (db.ts:144-148), though another tab with older statuses wrote
\* the same key before: nothing of an earlier writer is mixed in.
LastWriterIsSaved ==
    saved # NotSaved =>
        \A c \in Case : /\ Loaded(c).cstatus = cases[writer][c].cstatus
                        /\ Loaded(c).read = cases[writer][c].read
                        /\ Loaded(c).escalated = cases[writer][c].escalated

\* A figure of the dashboard leads to a list of the very cases it counts, whatever
\* was filtered before (Dashboard.tsx:24-31).  The figure of open high risks
\* leads to all high risks: there the list may only be longer.
FigureOpensItsCases ==
    [][\A t \in Tab, d \in {"neg", "cases", "overdue", "high"} :
          Go(t, d) => IF d = "high" THEN Counted(t, d) \subseteq Reached(t, d)'
                      ELSE Counted(t, d) = Reached(t, d)']_vars

\* A notification is read in a tab only if a role of that tab could see it: to
\* mark all as read under one role leaves the others' unread (db.ts:198-202).
ReadWasInView == \A t \in Tab : noteRead[t] \subseteq inView[t]
===============================================================================

------------------------------ MODULE MobileCases ------------------------------
(***************************************************************************)
(* The mobile application: its session, its screens and the cache of cases *)
(* that the optimistic update of a case's status writes to                 *)
(* (mobile/src/api, mobile/src/auth, mobile/app).                          *)
(*                                                                         *)
(* One device, the only one that moves cases.  Calls are sent, served and  *)
(* handled in steps; the screen may be left and opened again in between.   *)
(* The server is what the client is written for: it answers as api/mock.ts *)
(* does, over a network, and accepts a token until it expires.             *)
(***************************************************************************)
EXTENDS Naturals, FiniteSets

CONSTANTS
    RoleId,             \* the roles somebody logs in with
    Case,
    CaseRisk,           \* high, medium or low, for every case
    NorthOne,           \* the cases of the first northern region
    Noticed,            \* the cases that a notification names
    StartStatus,        \* the status the mock seeds, for every case
    Mutation,           \* bound: changes of status in flight
    MaxActs,            \* bound: changes of status and of role made
    MaxFaults,          \* bound: calls lost, restarts, expiries
    None

VARIABLES
    server,             \* the server's cases
    accepts,            \* the server accepts the token it has issued
    disk,               \* AsyncStorage: the persisted session
    token, roleId,      \* the session in memory
    screen, caseId,     \* the screen, and the case it shows
    query,              \* the query cache, by key
    mutation,           \* the changes of status in flight
    mine,               \* the one of them that the mounted case screen waits for
    acts, faults

session == <<disk, token, roleId>>
place == <<screen, caseId>>
cache == <<query, mutation, mine>>
vars == <<server, accepts, session, place, cache, acts, faults>>

Status == {"unassigned", "open", "in_progress", "pending_review",
           "pending_customer", "done", "closed", "canceled"}

CASE_TRANSITIONS(s) ==
    CASE s = "unassigned"       -> {"open"}
      [] s = "open"             -> {"in_progress", "canceled"}
      [] s = "in_progress"      -> {"pending_customer", "pending_review", "done"}
      [] s = "pending_customer" -> {"in_progress", "done"}
      [] s = "pending_review"   -> {"done", "in_progress"}
      [] s = "done"             -> {"closed", "in_progress"}
      [] s = "closed"           -> {"open"}
      [] s = "canceled"         -> {"open"}

CaseRecord == [status : Status, reopened : Nat]

\* A change of status in flight: its case and new status, the list as it was
\* before, for the way back, and its answer.
Change == [id : Case, to : Status, prev : {None} \cup [Case -> CaseRecord],
           answer : {"none", "ok", "refused", "lost"}]

ASSUME StartAssumption == StartStatus \in [Case -> Status]
ASSUME NoneAssumption ==
    None \notin Case \cup Mutation \cup CaseRecord \cup [Case -> CaseRecord] \cup Change
ASSUME CaseAssumption == "cases" \notin Case

(***************************************************************************)
(* Roles and what the screens show.                                        *)
(***************************************************************************)
ROLES == {"hq", "region", "store", "cs", "pr"}

ASSUME RoleAssumption == "hq" \in RoleId /\ RoleId \subseteq ROLES

View == {"dashboard", "reviews", "cases", "sla", "stores", "causes", "voice", "ai",
         "tasks", "improve", "notifications", "reports", "rules", "org", "sources"}

Menu(r) ==
    CASE r = "hq"     -> View
      [] r = "region" -> View \ {"rules", "org", "sources"}
      [] r = "store"  -> {"dashboard", "reviews", "cases", "sla", "tasks", "notifications"}
      [] r = "cs"     -> {"dashboard", "reviews", "cases", "sla", "notifications", "tasks"}
      [] r = "pr"     -> {"dashboard", "reviews", "cases", "sla", "notifications"}

\* The screens that "more" leads to.
MORE_MENU == View \ {"dashboard", "reviews", "cases", "notifications"}
allowedView(r, v) == v \in Menu(r)

\* No role has a store: the store manager's is never filled in.
scopeCases(r, cs) ==
    CASE r = "region" -> cs \cap NorthOne
      [] r = "pr"     -> {c \in cs : CaseRisk[c] = "high"}
      [] OTHER        -> cs

\* The screen of all cases has four groups, the reviews' a filter of the risk.
Groups == {Status, {"unassigned"},
           {"open", "in_progress", "pending_customer", "pending_review"}, {"done", "closed"}}

Cached(k) == query[k].data

Cases(g) == {c \in scopeCases(roleId, Case) : Cached("cases")[c].status \in g}
Reviews(risks) == {c \in scopeCases(roleId, Case) : CaseRisk[c] \in risks}
Notifications == Noticed

\* The tabs are one screen here: what can be opened from any of them.
Openable ==
    Notifications \cup
        IF Cached("cases") = None THEN {}
        ELSE UNION {Cases(g) : g \in Groups}
             \cup UNION {Reviews(rs) : rs \in {{"high", "medium", "low"}, {"high"}, {"medium"}, {"low"}}}

(***************************************************************************)
(* The query cache.                                                        *)
(***************************************************************************)
Key == {"cases"} \cup Case

\* A query: its data, whether they are neither invalidated nor followed by a
\* failure, whether they were asked for while no change of status was in flight,
\* and the fetch under way.
NoQuery == [data |-> None, valid |-> FALSE, calm |-> TRUE, fetch |-> None]

InFlight == {m \in Mutation : mutation[m] # None}

NewFetch(muts) == [answer |-> "none", value |-> None, retried |-> FALSE, calm |-> muts = {}]

\* A mounted screen wants the data: a fetch under way is shared.
Wanted(q) == IF q.fetch = None THEN [q EXCEPT !.fetch = NewFetch(InFlight)] ELSE q

\* Mutant: a query without a screen is not invalidated.
InvalidatedOnScreen(q, active, muts) ==
    IF active /\ (q.data # None \/ q.fetch = None)
    THEN [q EXCEPT !.valid = FALSE, !.fetch = NewFetch(muts)] ELSE q

\* An invalidated query that is on a screen is fetched anew; without data the
\* first fetch goes on.
Invalidated(q, active, muts) ==
    [q EXCEPT !.valid = FALSE,
              !.fetch = IF active /\ (q.data # None \/ q.fetch = None)
                        THEN NewFetch(muts) ELSE @]

Active(k) == IF k = "cases" THEN screen # "login" ELSE screen = "case" /\ caseId = k

\* Data of the list stay good for a minute, those of a case for no time.
MountList(q) ==
    {[q EXCEPT !["cases"] = Wanted(@)]} \cup (IF q["cases"].valid THEN {q} ELSE {})

(***************************************************************************)
(* The server and the network.                                             *)
(***************************************************************************)
Served(k) == IF k = "cases" THEN server ELSE server[k]

Fault == faults < MaxFaults /\ faults' = faults + 1

ServeFetch(k) ==
    /\ query[k].fetch # None
    /\ query[k].fetch.answer = "none"
    /\ query' = [query EXCEPT ![k].fetch =
                   IF accepts THEN [@ EXCEPT !.answer = "ok", !.value = Served(k)]
                   ELSE [@ EXCEPT !.answer = "refused"]]
    /\ UNCHANGED <<server, accepts, session, place, mutation, mine, acts, faults>>

\* Any status is taken; back to open from the end counts as a reopening.
ServeStatus(m) ==
    /\ mutation[m] # None
    /\ mutation[m].answer = "none"
    /\ mutation' = [mutation EXCEPT ![m].answer = IF accepts THEN "ok" ELSE "refused"]
    /\ LET c == mutation[m].id
           to == mutation[m].to
           again == to = "open" /\ server[c].status \in {"closed", "done"}
       IN server' = IF accepts
                    THEN [server EXCEPT ![c] = [status |-> to,
                              reopened |-> @.reopened + (IF again THEN 1 ELSE 0)]]
                    ELSE server
    /\ UNCHANGED <<accepts, session, place, query, mine, acts, faults>>

\* A call is lost before the server has it, or its answer is.
LoseFetch(k) ==
    /\ Fault
    /\ query[k].fetch # None
    /\ query[k].fetch.answer = "none"
    /\ query' = [query EXCEPT ![k].fetch.answer = "lost"]
    /\ UNCHANGED <<server, accepts, session, place, mutation, mine, acts>>

LoseStatus(m) ==
    /\ Fault
    /\ mutation[m] # None
    /\ mutation[m].answer # "lost"
    /\ mutation' = [mutation EXCEPT ![m].answer = "lost"]
    /\ UNCHANGED <<server, accepts, session, place, query, mine, acts>>

Expire ==
    /\ Fault
    /\ accepts
    /\ accepts' = FALSE
    /\ UNCHANGED <<server, session, place, cache, acts>>

(***************************************************************************)
(* The session.                                                            *)
(***************************************************************************)
\* Every change of the session is written to the storage.
SetSession(k, r) ==
    /\ token' = k
    /\ roleId' = r
    /\ disk' = [token |-> k, roleId |-> r]

\* The application starts without a session in memory, and goes to the login
\* screen; nothing of the cache survives.
Restart ==
    /\ Fault
    /\ token' = FALSE
    /\ roleId' = "hq"
    /\ screen' = "login"
    /\ caseId' = None
    /\ query' = [k \in Key |-> NoQuery]
    /\ mutation' = [m \in Mutation |-> None]
    /\ mine' = None
    /\ UNCHANGED <<server, accepts, disk, acts>>

\* The persisted session is read; the login screen takes no notice.
Hydrate ==
    /\ <<token, roleId>> # <<disk.token, disk.roleId>>
    /\ token' = disk.token
    /\ roleId' = disk.roleId
    /\ UNCHANGED <<server, accepts, disk, place, cache, acts, faults>>

\* Bound: to take another role is an act.
Choose(r) == acts' = acts + (IF r = roleId THEN 0 ELSE 1) /\ acts' <= MaxActs

\* Logging in, with any role; the tabs are mounted.
SignIn(r) ==
    /\ screen = "login"
    /\ Choose(r)
    /\ SetSession(TRUE, r)
    /\ accepts' = TRUE
    /\ screen' = "tabs"
    /\ query' \in MountList(query)
    /\ UNCHANGED <<server, caseId, mutation, mine, faults>>

\* The cache is kept.
SignOut ==
    /\ screen = "tabs"
    /\ SetSession(FALSE, roleId)
    /\ screen' = "login"
    /\ UNCHANGED <<server, accepts, caseId, cache, acts, faults>>

SwitchRole(r) ==
    /\ screen = "tabs"
    /\ Choose(r)
    /\ SetSession(token, r)
    /\ UNCHANGED <<server, accepts, place, cache, faults>>

(***************************************************************************)
(* The screens.                                                            *)
(***************************************************************************)
\* A tab that is mounted for the first time asks for the list.
MountTab ==
    /\ screen = "tabs"
    /\ query' \in MountList(query)
    /\ UNCHANGED <<server, accepts, session, place, mutation, mine, acts, faults>>

\* A screen of secondary functions: it asks for no cases.
GoMore(v) ==
    /\ screen = "tabs"
    /\ v \in MORE_MENU
    /\ allowedView(roleId, v)
    /\ screen' = "view"
    /\ UNCHANGED <<server, accepts, session, caseId, cache, acts, faults>>

OpenCase(c) ==
    /\ screen = "tabs"
    /\ c \in Openable
    /\ screen' = "case"
    /\ caseId' = c
    /\ query' = [query EXCEPT ![c] = Wanted(@)]
    /\ UNCHANGED <<server, accepts, session, mutation, mine, acts, faults>>

\* Mutant: the case is kept when its screen is left.
BackWithCase ==
    /\ screen \in {"case", "view"}
    /\ screen' = "tabs"
    /\ mine' = None
    /\ UNCHANGED <<server, accepts, session, caseId, query, mutation, acts, faults>>

\* Back to the tabs; the change of status goes on without the screen.
Back ==
    /\ screen \in {"case", "view"}
    /\ screen' = "tabs"
    /\ caseId' = None
    /\ mine' = None
    /\ UNCHANGED <<server, accepts, session, query, mutation, acts, faults>>

(***************************************************************************)
(* The change of a case's status.                                          *)
(***************************************************************************)
\* setQueryData on what is cached, if anything is.
Write(q, v) == IF q.data = None THEN q ELSE [q EXCEPT !.data = v, !.valid = TRUE]

\* onMutate: fetches of cases are cancelled, the new status is shown at once.
Press(m, to) ==
    LET c == caseId
        list == query["cases"].data
        q(k) == [query[k] EXCEPT !.fetch = None]
    IN /\ acts < MaxActs
       /\ mutation[m] = None
       /\ screen = "case"
       /\ mine = None
       /\ Cached(c) # None
       /\ to \in CASE_TRANSITIONS(Cached(c).status)
       /\ query' = [k \in Key |->
             CASE k = "cases" -> Write(q(k), [list EXCEPT ![c].status = to])
               [] k = c       -> Write(q(k), [q(k).data EXCEPT !.status = to])
               [] OTHER       -> q(k)]
       /\ mutation' = [mutation EXCEPT ![m] = [id |-> c, to |-> to, prev |-> list, answer |-> "none"]]
       /\ mine' = m
       /\ acts' = acts + 1
       /\ UNCHANGED <<server, accepts, session, place, faults>>

\* 401 signs out; the tabs lead to the login screen.
Leave(unauthorized) ==
    IF unauthorized
    THEN /\ SetSession(FALSE, roleId)
         /\ screen' = "login"
         /\ caseId' = None
    ELSE UNCHANGED <<session, place>>

\* onError puts the list back as it was when the button was pressed; onSettled
\* invalidates the list and, the key of the list being a prefix of theirs, all cases.
Settle(m) ==
    /\ mutation[m] # None
    /\ mutation[m].answer # "none"
    /\ LET prev == mutation[m].prev
           failed == mutation[m].answer # "ok"
           q == IF failed /\ prev # None
                THEN [query EXCEPT !["cases"].data = prev] ELSE query
       IN query' = [k \in Key |-> Invalidated(q[k], Active(k), InFlight \ {m})]
    /\ mutation' = [mutation EXCEPT ![m] = None]
    /\ Leave(mutation[m].answer = "refused")
    /\ mine' = IF mine = m \/ screen' = "login" THEN None ELSE mine
    /\ UNCHANGED <<server, accepts, acts, faults>>

\* An answer is cached; a failed fetch is sent once more before it is given up.
Receive(k) ==
    /\ query[k].fetch # None
    /\ query[k].fetch.answer # "none"
    /\ LET f == query[k].fetch
       IN /\ query' = [query EXCEPT ![k] =
                CASE f.answer = "ok" ->
                         [data |-> f.value, valid |-> TRUE, calm |-> f.calm, fetch |-> None]
                  [] f.answer # "ok" /\ ~f.retried ->
                         [@ EXCEPT !.fetch = [NewFetch(InFlight) EXCEPT !.retried = TRUE]]
                  [] OTHER -> [@ EXCEPT !.valid = FALSE, !.fetch = None]]
          /\ Leave(f.answer = "refused")
    /\ mine' = IF screen' = "login" THEN None ELSE mine
    /\ UNCHANGED <<server, accepts, mutation, acts, faults>>

(***************************************************************************)
(* The specification.                                                      *)
(***************************************************************************)
Init ==
    /\ server = [c \in Case |-> [status |-> StartStatus[c], reopened |-> 0]]
    /\ accepts = FALSE
    /\ disk = [token |-> FALSE, roleId |-> "hq"]
    /\ token = FALSE
    /\ roleId = "hq"
    /\ screen = "login"
    /\ caseId = None
    /\ query = [k \in Key |-> NoQuery]
    /\ mutation = [m \in Mutation |-> None]
    /\ mine = None
    /\ acts = 0
    /\ faults = 0

Next ==
    \/ \E k \in Key : ServeFetch(k) \/ LoseFetch(k) \/ Receive(k)
    \/ \E m \in Mutation : ServeStatus(m) \/ LoseStatus(m) \/ Settle(m)
    \/ \E m \in Mutation, to \in Status : Press(m, to)
    \/ \E r \in RoleId : SignIn(r) \/ SwitchRole(r)
    \/ \E v \in View : GoMore(v)
    \/ \E c \in Case : OpenCase(c)
    \/ Expire \/ Restart \/ Hydrate \/ SignOut \/ MountTab \/ Back

Spec == Init /\ [][Next]_vars

(***************************************************************************)
(* Properties.                                                             *)
(***************************************************************************)
\* The types of the variables; the case screen has its case, and waits only for
\* a change of status that is under way.
TypeOK ==
    /\ server \in [Case -> CaseRecord]
    /\ accepts \in BOOLEAN /\ token \in BOOLEAN
    /\ disk \in [token : BOOLEAN, roleId : RoleId] /\ roleId \in RoleId
    /\ screen \in {"login", "tabs", "case", "view"}
    /\ caseId \in Case \cup {None} /\ (caseId # None <=> screen = "case")
    /\ \A k \in Key : query[k].valid => query[k].data # None
    /\ mutation \in [Mutation -> {None} \cup Change]
    /\ mine \in Mutation \cup {None} /\ (mine # None => mine \in InFlight)

\* At rest the cache has what the server has: once no change of status is under
\* way, data that are valid and were not asked for in the middle of another
\* change are the server's, whatever was lost, rolled back or left unfinished
\* (queries.ts: cancelQueries, onError and onSettled together).
CacheComesToServer ==
    \A k \in Key :
        InFlight = {} /\ query[k].valid /\ query[k].calm => query[k].data = Served(k)
================================================================================

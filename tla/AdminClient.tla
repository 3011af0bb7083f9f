------------------------------- MODULE AdminClient -------------------------------
(***************************************************************************)
(* The pages of the admin application that ask the real API: the inbox,    *)
(* the case page, the approval queue and the pipeline page, with the login *)
(* page and the request function (admin/src/api.ts, admin/src/pages/...).  *)
(*                                                                         *)
(* One tab.  A call is made, executed by the server and answered, and its  *)
(* answer handled, in steps of their own: calls overtake each other, and a *)
(* page may be left, or show another case, before the answer comes.  The   *)
(* server is cut down to what the client can tell: case statuses, replies  *)
(* awaiting approval and the tokens it accepts.                            *)
(***************************************************************************)
EXTENDS Naturals, Sequences, FiniteSets

CONSTANTS
    Case,           \* the cases
    Source,         \* where their reviews come from
    SourceOf,       \* the source of every case
    RatingOf,       \* the stars of its review; "" where the source has none
    Google,         \* the one source that has stars
    IsHigh,         \* the cases of high risk
    Reply,          \* bound: the replies there may be
    Token,          \* the tokens the server may issue
    Slots,          \* bound: calls in flight
    MaxActs,        \* bound: acts of the user
    MaxEvents,      \* bound: calls lost, tokens expired, acts of other users
    None

ASSUME SourceAssumption ==
    /\ Google \in Source
    /\ \A c \in Case : SourceOf[c] # Google => RatingOf[c] = ""

ASSUME BoundAssumption == Slots \in Nat
ASSUME NoneAssumption == None \notin Case \cup Token
ASSUME HighAssumption == IsHigh \subseteq Case

VARIABLES
    \* the server
    status,         \* cases.status
    replies,        \* the status and the case of every reply, or None
    tokens,         \* new, valid or expired, for every token
    \* the tab
    token,          \* localStorage: wachen_token
    page,           \* the path, without the case
    caseId,         \* the case in the path of the case page
    inbox,          \* state of the Inbox component
    form,           \* state of the CaseDetail component
    queue,          \* state of the Approvals component
    figures,        \* state of the Pipeline component
    calls,          \* the calls in flight
    acts, events

server == <<status, replies, tokens>>
pages == <<page, caseId, inbox, form, queue, figures>>
vars == <<server, token, pages, calls, acts, events>>

CaseStatus == {"open", "in_progress", "resolved", "closed"}

\* The server's own table of moves, which the source of the API names.
ValidTransitions(s) ==
    CASE s = "open"        -> {"in_progress", "resolved"}
      [] s = "in_progress" -> {"resolved", "open"}
      [] s = "resolved"    -> {"closed", "in_progress"}
      [] s = "closed"      -> {}

\* Mutant: a case may be closed from the start.
ActionsAhead(s) ==
    CASE s = "open"        -> {"in_progress", "resolved", "closed"}
      [] s = "in_progress" -> {"resolved", "open"}
      [] s = "resolved"    -> {"closed", "in_progress"}
      [] s = "closed"      -> {}

\* The buttons of the case page.
Actions(s) ==
    CASE s = "open"        -> {"in_progress", "resolved"}
      [] s = "in_progress" -> {"resolved", "open"}
      [] s = "resolved"    -> {"closed", "in_progress"}
      [] s = "closed"      -> {}

EMPTY == [status |-> "", source |-> "", rating |-> ""]

\* Components as they are mounted.
NewInbox == [filters |-> EMPTY, cases |-> None, askedFor |-> EMPTY, facets |-> FALSE]
NewForm  == [d |-> None, err |-> FALSE, replyText |-> FALSE, sending |-> FALSE]
NewQueue == [list |-> None, err |-> FALSE]

(***************************************************************************)
(* Calls.                                                                  *)
(***************************************************************************)
\* A call: its kind, its case or reply, what else it sends, the view it was
\* decided on, and the token it carries.  client is "live" while its answer may
\* change the page, "orphan" once its component is gone or has asked again,
\* "gone" once the browser has dropped it with the whole page.
Request(kind, id, arg, basis) ==
    [kind |-> kind, id |-> id, arg |-> arg, basis |-> basis, token |-> token,
     client |-> "live", answer |-> "none", value |-> None]

facets         == Request("facets", None, None, None)
listCases(f)   == Request("list", None, f, None)
caseDetail(c)  == Request("detail", c, None, None)
approvals      == Request("approvals", None, None, None)
pipeline       == Request("pipeline", None, None, None)

\* A reply that is being sent, or has been answered: its case, no value.
ReplyCall ==
    [kind : {"reply"}, id : Case, arg : {None}, basis : {None}, token : Token \cup {None},
     client : {"live", "orphan", "gone"},
     answer : {"none", "ok", "refused", "unauthorized", "lost"}, value : {None}]

ASSUME ReplyAssumption == None \notin ReplyCall

Slot == 1..Slots
Free(cs) == {s \in Slot : cs[s] = None}

\* cs with more calls, in the lowest free slots.
AddAll(cs, asked) ==
    LET place(s) == Cardinality({z \in Free(cs) : z <= s})
    IN [s \in Slot |-> IF cs[s] = None /\ place(s) <= Len(asked)
                       THEN asked[place(s)] ELSE cs[s]]

Add(cs, call) == AddAll(cs, <<call>>)

\* Mutant: nothing is left behind, the effect has no cleanup.
LeftNothing(cs, kinds, how) == cs

\* cs when the calls of some kinds are left behind.
Left(cs, kinds, how) ==
    [s \in Slot |-> IF cs[s] # None /\ cs[s].kind \in kinds /\ cs[s].client # "gone"
                    THEN [cs[s] EXCEPT !.client = how] ELSE cs[s]]

Kind == {"login", "list", "facets", "detail", "approvals", "pipeline",
         "status", "reply", "decide"}

Send(call) == Free(calls) # {} /\ calls' = Add(calls, call)

Act == acts < MaxActs /\ acts' = acts + 1
Event == events < MaxEvents /\ events' = events + 1

(***************************************************************************)
(* What the server does.                                                   *)
(***************************************************************************)
Pending == {r \in Reply : replies[r] # None /\ replies[r].status = "pending_approval"}

Matches(f, c) ==
    /\ f.status \in {"", status[c]}
    /\ f.source \in {"", SourceOf[c]}
    /\ f.rating \in {"", RatingOf[c]}

ListCases(f) == {<<c, status[c]>> : c \in {k \in Case : Matches(f, k)}}

Detail(c) == [id |-> c, status |-> status[c],
              replies |-> {r \in Reply : replies[r] # None /\ replies[r].case = c}]

Answer(s, a, v) == calls' = [calls EXCEPT ![s].answer = a, ![s].value = v]
Refuse(s) == Answer(s, "refused", None) /\ UNCHANGED <<status, replies>>

\* A call that only reads: the facets and the pipeline's figures have no value here.
ServeRead(s) ==
    /\ Answer(s, "ok", CASE calls[s].kind = "list"      -> ListCases(calls[s].arg)
                         [] calls[s].kind = "detail"    -> Detail(calls[s].id)
                         [] calls[s].kind = "approvals" -> Pending
                         [] OTHER                       -> None)
    /\ UNCHANGED <<status, replies>>

ServeStatus(s) ==
    IF calls[s].arg \in ValidTransitions(status[calls[s].id])
    THEN /\ status' = [status EXCEPT ![calls[s].id] = calls[s].arg]
         /\ Answer(s, "ok", None)
         /\ UNCHANGED replies
    ELSE Refuse(s)

\* A new reply; one to a case of high risk waits for approval.
ServeReply(s) ==
    LET c == calls[s].id
    IN /\ \E r \in Reply :
            /\ replies[r] = None
            /\ replies' = [replies EXCEPT ![r] =
                 [case |-> c, status |-> IF c \in IsHigh THEN "pending_approval" ELSE "approved"]]
       /\ Answer(s, "ok", None)
       /\ UNCHANGED status

\* Only a reply that is pending can be decided.
ServeDecision(s) ==
    IF calls[s].id \in Pending
    THEN /\ replies' = [replies EXCEPT ![calls[s].id].status = calls[s].arg]
         /\ Answer(s, "ok", None)
         /\ UNCHANGED status
    ELSE Refuse(s)

Unserved(s) == calls[s] # None /\ calls[s].answer = "none"

ServeLogin(s) ==
    /\ Unserved(s)
    /\ calls[s].kind = "login"
    /\ tokens' = [tokens EXCEPT ![calls[s].id] = "valid"]
    /\ Answer(s, "ok", None)
    /\ UNCHANGED <<status, replies, token, pages, acts, events>>

Serve(s) ==
    /\ Unserved(s)
    /\ calls[s].kind # "login"
    /\ IF calls[s].token = None \/ tokens[calls[s].token] # "valid"
       THEN Answer(s, "unauthorized", None) /\ UNCHANGED <<status, replies>>
       ELSE CASE calls[s].kind = "status" -> ServeStatus(s)
              [] calls[s].kind = "reply"  -> ServeReply(s)
              [] calls[s].kind = "decide" -> ServeDecision(s)
              [] OTHER                    -> ServeRead(s)
    /\ UNCHANGED <<tokens, token, pages, acts, events>>

\* The network loses the call, or its answer.
Lose(s) ==
    /\ calls[s] # None
    /\ calls[s].answer # "lost"
    /\ Event
    /\ Answer(s, "lost", None)
    /\ UNCHANGED <<server, token, pages, acts>>

\* Other users and the backend's own processes; a token's time runs out.
OtherMoves(c) ==
    /\ Event
    /\ \E to \in ValidTransitions(status[c]) \cup (IF status[c] = "closed" THEN {"open"} ELSE {}) :
          status' = [status EXCEPT ![c] = to]
    /\ UNCHANGED <<replies, tokens, token, pages, calls, acts>>

OtherDecides(r) ==
    /\ Event
    /\ r \in Pending
    /\ replies' = [replies EXCEPT ![r].status = "approved"]
    /\ UNCHANGED <<status, tokens, token, pages, calls, acts>>

Expire(k) ==
    /\ Event
    /\ tokens[k] = "valid"
    /\ tokens' = [tokens EXCEPT ![k] = "expired"]
    /\ UNCHANGED <<status, replies, token, pages, calls, acts>>

(***************************************************************************)
(* What the user does.                                                     *)
(***************************************************************************)
\* The calls a component makes when it is mounted.
MountCalls(p, c) ==
    CASE p = "inbox"     -> <<facets, listCases(EMPTY)>>
      [] p = "case"      -> <<caseDetail(c)>>
      [] p = "approvals" -> <<approvals>>
      [] p = "pipeline"  -> <<pipeline>>
      [] OTHER           -> <<>>

\* Page p is mounted, with the calls cs already in flight.
Enter(p, c, cs) ==
    LET asked == MountCalls(p, c)
    IN /\ Cardinality(Free(cs)) >= Len(asked)
       /\ calls' = AddAll(cs, asked)
       /\ page' = p
       /\ caseId' = IF p = "case" THEN c ELSE None
       /\ inbox' = NewInbox
       /\ form' = NewForm
       /\ queue' = NewQueue
       /\ figures' = FALSE

\* Every call of the page that is left is now nobody's.
Orphaned == Left(calls, Kind, "orphan")

\* The login page: one call at a time, the server's new token in its answer.
SubmitLogin ==
    /\ page = "login"
    /\ \E k \in Token : tokens[k] = "new"
    /\ ~ \E s \in Slot : calls[s] # None /\ calls[s].kind = "login" /\ calls[s].client = "live"
    /\ Send(Request("login", CHOOSE k \in Token : tokens[k] = "new", None, None))
    /\ UNCHANGED <<server, token, pages, acts, events>>

\* Mutant: the token is kept.
LogoutKeepsToken ==
    /\ Act
    /\ page # "login"
    /\ token' = token
    /\ Enter("login", None, Orphaned)
    /\ UNCHANGED <<server, events>>

Logout ==
    /\ Act
    /\ page # "login"
    /\ token' = None
    /\ Enter("login", None, Orphaned)
    /\ UNCHANGED <<server, events>>

\* The menu, with the local pages as one.
Visit(p) ==
    /\ Act
    /\ page \notin {"login", p}
    /\ Enter(p, None, Orphaned)
    /\ UNCHANGED <<server, token, events>>

\* A row of the inbox, the link of a reply in the queue.
VisitCase(c) ==
    /\ Act
    /\ \/ page = "inbox" /\ inbox.cases # None /\ \E x \in inbox.cases : x[1] = c
       \/ page = "approvals" /\ queue.list # None /\ \E r \in queue.list : replies[r].case = c
    /\ Enter("case", c, Orphaned)
    /\ UNCHANGED <<server, token, events>>

\* From case to case in the browser's history: the component stays mounted and
\* only asks for the other case.
Jump(c) ==
    /\ Act
    /\ page = "case" /\ c # caseId
    /\ caseId' = c
    /\ Send(caseDetail(c))
    /\ UNCHANGED <<server, token, page, inbox, form, queue, figures, events>>

\* A filter of the inbox: the effect's cleanup leaves its list calls behind.
SetFilters(f) ==
    /\ Act
    /\ page = "inbox"
    /\ f # inbox.filters
    /\ LET cs == Left(calls, {"list"}, "orphan")
       IN Free(cs) # {} /\ calls' = Add(cs, listCases(f))
    /\ inbox' = [inbox EXCEPT !.filters = f]
    /\ UNCHANGED <<server, token, page, caseId, form, queue, figures, events>>

PickStatus(x) == SetFilters([inbox.filters EXCEPT !.status = x])

\* A source, once the facets are there; stars are kept for Google only.
SetSource(x) ==
    /\ x = "" \/ inbox.facets
    /\ SetFilters([status |-> inbox.filters.status, source |-> x,
                   rating |-> IF x = Google THEN inbox.filters.rating ELSE ""])

PickRating(x) ==
    /\ inbox.filters.source = Google
    /\ SetFilters([inbox.filters EXCEPT !.rating = x])

\* Mutant: the inbox and the queue have no timer.
PollPipeline ==
    /\ page = "pipeline" /\ Send(pipeline)
    /\ UNCHANGED <<server, token, pages, acts, events>>

\* The timers of the inbox, the queue and the pipeline page.
Poll ==
    /\ \/ page = "inbox"     /\ Send(listCases(inbox.filters))
       \/ page = "approvals" /\ Send(approvals)
       \/ page = "pipeline"  /\ Send(pipeline)
    /\ UNCHANGED <<server, token, pages, acts, events>>

\* A button of the case page: from the status shown, for the case of the path.
ClickStatus(to) ==
    /\ Act
    /\ page = "case" /\ form.d # None
    /\ to \in Actions(form.d.status)
    /\ Send(Request("status", caseId, to, <<form.d.id, form.d.status>>))
    /\ form' = [form EXCEPT !.err = FALSE]
    /\ UNCHANGED <<server, token, page, caseId, inbox, queue, figures, events>>

\* Some text is written as the reply.
TypeReply ==
    /\ page = "case" /\ form.d # None
    /\ form' = [form EXCEPT !.replyText = TRUE]
    /\ UNCHANGED <<server, token, page, caseId, inbox, queue, figures, calls, acts, events>>

\* Bound: no more calls than there is room for replies.
Room == Cardinality({s \in Slot : calls[s] # None /\ calls[s].kind = "reply"})
          < Cardinality({r \in Reply : replies[r] = None})

SubmitReply ==
    /\ Act
    /\ Room
    /\ page = "case" /\ form.d # None
    /\ form.replyText /\ ~form.sending
    /\ Send(Request("reply", caseId, None, None))
    /\ form' = [form EXCEPT !.sending = TRUE, !.err = FALSE]
    /\ UNCHANGED <<server, token, page, caseId, inbox, queue, figures, events>>

Decide(r, a) ==
    /\ Act
    /\ page = "approvals" /\ queue.list # None /\ r \in queue.list
    /\ Send(Request("decide", r, a, None))
    /\ queue' = [queue EXCEPT !.err = FALSE]
    /\ UNCHANGED <<server, token, page, caseId, inbox, form, figures, events>>

(***************************************************************************)
(* How answers are handled.                                                *)
(***************************************************************************)
Done(s) == [calls EXCEPT ![s] = None]

\* A call's handler asks again, for the same component, in the call's slot.
Reload(s, call) ==
    calls' = [calls EXCEPT ![s] = [call EXCEPT !.client = calls[s].client]]

\* The page was loaded anew since: nobody hears the answer.
Forgotten(s) ==
    /\ calls[s].client = "gone"
    /\ calls' = Done(s)
    /\ UNCHANGED <<token, pages>>

\* Mutant: 401 is an error like others.
UnauthorizedIgnored(s) ==
    /\ calls[s].client # "gone"
    /\ calls[s].answer = "unauthorized"
    /\ calls' = Done(s)
    /\ UNCHANGED <<token, pages>>

\* 401, whichever component asked: to the login page, by loading it.
Unauthorized(s) ==
    /\ calls[s].client # "gone"
    /\ calls[s].answer = "unauthorized"
    /\ token' = None
    /\ Enter("login", None, Left(Done(s), Kind, "gone"))

\* An answer that its component no longer waits for; what was done by it is
\* loaded again all the same.
Ignored(s) ==
    /\ calls[s].client = "orphan"
    /\ calls[s].answer \in {"ok", "refused", "lost"}
    /\ CASE calls[s].answer = "ok" /\ calls[s].kind \in {"status", "reply"} ->
                Reload(s, caseDetail(calls[s].id))
         [] calls[s].answer = "ok" /\ calls[s].kind = "decide" -> Reload(s, approvals)
         [] OTHER -> calls' = Done(s)
    /\ UNCHANGED <<token, pages>>

\* The error text of the page; the readers of the inbox and the pipeline have none.
Failed(s) ==
    /\ calls[s].client = "live"
    /\ calls[s].answer \in {"refused", "lost"}
    /\ calls' = Done(s)
    /\ form' = IF calls[s].kind \in {"detail", "status", "reply"}
               THEN [form EXCEPT !.err = TRUE,
                                 !.sending = IF calls[s].kind = "reply" THEN FALSE ELSE @]
               ELSE form
    /\ queue' = IF calls[s].kind \in {"approvals", "decide"}
                THEN [queue EXCEPT !.err = TRUE] ELSE queue
    /\ UNCHANGED <<token, page, caseId, inbox, figures>>

Arrived(s, kind) ==
    calls[s].client = "live" /\ calls[s].answer = "ok" /\ calls[s].kind = kind

Shown(s) ==
    /\ calls' = Done(s)
    /\ \/ /\ Arrived(s, "list")
          /\ inbox' = [inbox EXCEPT !.cases = calls[s].value, !.askedFor = calls[s].arg]
          /\ UNCHANGED <<form, queue, figures>>
       \/ /\ Arrived(s, "facets")
          /\ inbox' = [inbox EXCEPT !.facets = TRUE]
          /\ UNCHANGED <<form, queue, figures>>
       \/ /\ Arrived(s, "detail")
          /\ form' = [form EXCEPT !.d = calls[s].value]
          /\ UNCHANGED <<inbox, queue, figures>>
       \/ /\ Arrived(s, "approvals")
          /\ queue' = [queue EXCEPT !.list = calls[s].value]
          /\ UNCHANGED <<inbox, form, figures>>
       \/ /\ Arrived(s, "pipeline")
          /\ figures' = TRUE
          /\ UNCHANGED <<inbox, form, queue>>
    /\ UNCHANGED <<token, page, caseId>>

Acted(s) ==
    /\ \/ /\ Arrived(s, "status")
          /\ Reload(s, caseDetail(calls[s].id))
          /\ form' = form
       \/ /\ Arrived(s, "reply")
          /\ Reload(s, caseDetail(calls[s].id))
          /\ form' = [form EXCEPT !.replyText = FALSE, !.sending = FALSE]
       \/ /\ Arrived(s, "decide")
          /\ Reload(s, approvals)
          /\ form' = form
    /\ UNCHANGED <<token, page, caseId, inbox, queue, figures>>

\* The role's home is one of the local pages.
LoggedIn(s) ==
    /\ Arrived(s, "login")
    /\ token' = calls[s].id
    /\ Enter("local", None, Done(s))

Deliver(s) ==
    /\ calls[s] # None
    /\ calls[s].answer # "none"
    /\ \/ Forgotten(s) \/ Unauthorized(s) \/ Ignored(s)
       \/ Failed(s) \/ Shown(s) \/ Acted(s) \/ LoggedIn(s)
    /\ UNCHANGED <<server, acts, events>>

(***************************************************************************)
(* The specification.                                                      *)
(***************************************************************************)
Init ==
    /\ status = [c \in Case |-> "open"]
    /\ replies \in [Reply -> {None} \cup [case : IsHigh, status : {"pending_approval"}]]
    /\ tokens = [k \in Token |-> "new"]
    /\ token = None
    /\ page = "login"
    /\ caseId = None
    /\ inbox = NewInbox
    /\ form = NewForm
    /\ queue = NewQueue
    /\ figures = FALSE
    /\ calls = [s \in Slot |-> None]
    /\ acts = 0
    /\ events = 0

Next ==
    \/ \E s \in Slot : ServeLogin(s) \/ Serve(s) \/ Lose(s) \/ Deliver(s)
    \/ \E c \in Case : OtherMoves(c) \/ VisitCase(c) \/ Jump(c)
    \/ \E r \in Reply : OtherDecides(r)
    \/ \E r \in Reply, a \in {"approved", "rejected"} : Decide(r, a)
    \/ \E k \in Token : Expire(k)
    \/ \E p \in {"local", "inbox", "approvals", "pipeline"} : Visit(p)
    \/ \E x \in CaseStatus : PickStatus(x) \/ ClickStatus(x)
    \/ \E x \in Source \cup {""} : SetSource(x)
    \/ \E c \in Case : PickRating(RatingOf[c])
    \/ SubmitLogin \/ Logout \/ Poll \/ TypeReply \/ SubmitReply

Spec == Init /\ [][Next]_vars

\* The timers tick, the server answers and the browser runs its handlers; users
\* owe nothing.
FairSpec ==
    /\ Spec
    /\ WF_vars(Poll)
    /\ \A s \in Slot : WF_vars(ServeLogin(s)) /\ WF_vars(Serve(s)) /\ WF_vars(Deliver(s))

(***************************************************************************)
(* Properties.                                                             *)
(***************************************************************************)
\* The types of the variables; the page and its case go together, and only the
\* login page is shown to who holds no token.
TypeOK ==
    /\ status \in [Case -> CaseStatus]
    /\ \A r \in Reply : replies[r] = None \/
          replies[r] \in [case : Case, status : {"pending_approval", "approved", "rejected"}]
    /\ tokens \in [Token -> {"new", "valid", "expired"}]
    /\ token \in Token \cup {None}
    /\ page \in {"login", "local", "inbox", "case", "approvals", "pipeline"}
    /\ token = None <=> page = "login"
    /\ caseId \in Case \cup {None} /\ (caseId # None <=> page = "case")
    /\ inbox.filters.source \in Source \cup {""}
    /\ inbox.filters.rating # "" => inbox.filters.source = Google
    /\ form.replyText \in BOOLEAN /\ form.sending \in BOOLEAN
    /\ \A s \in Slot : calls[s] = None \/
          /\ calls[s].kind \in Kind
          /\ calls[s].client \in {"live", "orphan", "gone"}
          /\ calls[s].answer \in {"none", "ok", "refused", "unauthorized", "lost"}

\* The inbox only takes a list that was asked for with the filters it now has: an
\* answer for earlier filters, however late, is dropped (Inbox.tsx, live).
ListIsForFilters ==
    [][inbox'.cases # inbox.cases /\ inbox'.cases # None => inbox'.askedFor = inbox'.filters]_vars

\* A button is refused by the server only to a view that was stale: the case had
\* moved since it was read, or another case was shown under this path
\* (CaseDetail.tsx: the table of actions is aligned with validTransitions).
RefusedMeansStale ==
    [][\A s \in Slot :
          calls[s] # None /\ calls'[s] # None /\ calls[s].kind = "status"
             /\ calls[s].answer = "none" /\ calls'[s].answer = "refused"
          => calls[s].basis # <<calls[s].id, status[calls[s].id]>>]_vars

HasValidToken == token # None /\ tokens[token] = "valid"

\* A tab that stays on the inbox, or on the approval queue, with a valid token
\* comes to show what the server has, in spite of answers that come out of
\* order, and keeps showing it when nothing moves any more.
PagesConverge ==
    /\ <>[](page = "inbox" /\ HasValidToken)
          => <>[](inbox.cases = ListCases(inbox.filters))
    /\ <>[](page = "approvals" /\ HasValidToken)
          => <>[](queue.list = Pending)

\* Who stays on a page that polls when the token has expired is led back to the
\* login page (api.ts: 401 always leads back to login).
ExpiredLeadsToLogin ==
    page \in {"inbox", "approvals", "pipeline"} /\ ~HasValidToken
        ~> page \notin {"inbox", "approvals", "pipeline"}
================================================================================

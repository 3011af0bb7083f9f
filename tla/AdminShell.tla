------------------------------- MODULE AdminShell -------------------------------
(***************************************************************************)
(* The shell of the admin application (admin/src/App.tsx), the roles it    *)
(* cuts its data by (admin/src/lib/roles.ts) and the pages and drawers it  *)
(* draws, in several tabs of one browser.                                  *)
(*                                                                         *)
(* The tabs share localStorage: the login (token and backend role) and the *)
(* role last chosen.  Everything else is memory of one tab, and a tab      *)
(* learns of another tab's login or logout only when it draws itself       *)
(* again, which is at the end of each of its own handlers.  An action is   *)
(* one handler together with the drawing it causes: React runs both, and   *)
(* the effect that corrects the role, before the next event.               *)
(***************************************************************************)
EXTENDS AdminRoles

CONSTANTS
    Tab,            \* the tabs of one browser
    Views,          \* the pages the users of this instance go to
    NoAccount, NoDrawer

ASSUME ViewsAssumption == Views \subseteq Titles

VARIABLES
    session,        \* localStorage: whose token is kept, NoAccount without one
    savedRole,      \* localStorage: wacity_admin_role, "" before the first
    roleId,         \* roleId of roles.ts, per tab
    page,           \* what the tab shows
    openId,         \* openId of db.ts: the case or store in the drawer
    answers,        \* whose questions and answers the AI page was mounted with
    drawn           \* history: the login the tab last drew itself for

storageVars == <<session, savedRole>>
tabVars == <<roleId, page, openId, answers, drawn>>
vars == <<storageVars, tabVars>>

(***************************************************************************)
(* The pages: the cases and the stores a page is drawn from, those among   *)
(* them that a click opens in the drawer, and the tenants whose ready-made *)
(* figures and texts (AGG, DB.regions, DB.insights, ...) it shows besides. *)
(***************************************************************************)
Group == "group"

Content(cases, stores, opens, texts) ==
    [cases |-> cases, stores |-> stores, opens |-> opens, texts |-> texts]

Listing(cases)  == Content(cases, {}, cases, {})
Counting(cases) == Content(cases, {}, {}, {})

\* Counts over the scoped cases, the ranking of the scoped stores; the trends,
\* the regions and the anomalies are those of the group.
Dashboard(r) == Content(ScopedCases(r), ScopedStores(r), ScopedStores(r), {Group})

StoreBoard == Listing({c \in Case : CaseStore[c] = FirstStore})

\* The lists before the user's filters, and what is counted over them.
Reviews(r) == Listing(ScopedCases(r))
Cases(r)   == Listing(ScopedCases(r))
Causes(r)  == Counting(ScopedCases(r))
Voice(r)   == Counting(ScopedCases(r))

\* The active cases that are or will soon be late, and the stores' rates.
SlaMonitor(r) == Content(ScopedCases(r), ScopedStores(r), ScopedCases(r), {})

Stores(r) == Content({}, ScopedStores(r), ScopedStores(r), {})

\* Only the tasks of brands that have a case in scope.
Tasks(r) == Counting(ScopedCases(r))

\* A case's notification follows the case; the others are for the whole group.
NotificationsPage(r) ==
    Content(ScopedCases(r), {}, ScopedCases(r), IF r \in {"hq", "cs"} THEN {Group} ELSE {})

TenantTexts(r) == IF Brand(r) # NoBrand THEN Brand(r) ELSE Group

\* The answers are those of the role the page was mounted with.
AiInsights(r, qa) == Content({}, {}, {}, {TenantTexts(r), qa})
Improve(r) == Content({}, ScopedStores(r), {}, {TenantTexts(r)})

\* Both refuse a role without the right to the rules.
Org(r)       == Content({}, {}, {}, IF Rules(r) THEN {Group} ELSE {})
RulesPage(r) == Content({}, {}, {}, IF Rules(r) THEN {Group} ELSE {})

Reports == Content({}, {}, {}, {Group})
Sources == Content({}, {}, {}, {Group})

\* The pages of the real API show nothing of db.json.
Nothing == Content({}, {}, {}, {})

Draws(p, r, qa) ==
    CASE p = "dashboard" -> Dashboard(r)   [] p = "store" -> StoreBoard
      [] p = "reviews" -> Reviews(r)       [] p = "cases" -> Cases(r)
      [] p = "sla" -> SlaMonitor(r)        [] p = "stores" -> Stores(r)
      [] p = "causes" -> Causes(r)         [] p = "voice" -> Voice(r)
      [] p = "tasks" -> Tasks(r)           [] p = "notifications" -> NotificationsPage(r)
      [] p = "ai" -> AiInsights(r, qa)     [] p = "improve" -> Improve(r)
      [] p = "org" -> Org(r)               [] p = "rules" -> RulesPage(r)
      [] p = "reports" -> Reports          [] p = "sources" -> Sources
      [] OTHER -> Nothing

\* The drawer is not cut to the role: any case, and every case of a store.
CaseDrawer(c) == Counting({c})
StoreDrawer(s) ==
    LET own == {c \in Case : CaseStore[c] = s} IN Content(own, {s}, own, {})

DrawerHost(o) == IF o \in Case THEN CaseDrawer(o)
                 ELSE IF o \in Store THEN StoreDrawer(o) ELSE Nothing

(***************************************************************************)
(* Drawing.                                                                *)
(***************************************************************************)
\* The shell's guard: the boards of a store and the cases are for every role.
\* The menu is the one of the role in memory, the home that of the role drawn.
Passes(r, cur, p) ==
    \/ p \in {"store", "cases"} \cup MenuRole(r)
    \/ p = "dashboard" /\ Home(cur) = "store"

\* Mutant: the role is only tested when it is chosen.
ClampNothing(r, a) == r

\* The role the shell draws for: never outside the login's tenant.
Clamp(r, a) == IF r \in AllowedRoleIds(a) THEN r ELSE LoginRoleId(a)

\* Mutant: the page of the address is drawn for every role.
DrawAnyPage(t, r, s, p, mount) ==
    IF session' = NoAccount
    THEN /\ page' = [page EXCEPT ![t] = IF mount THEN "login" ELSE "blank"]
         /\ roleId' = [roleId EXCEPT ![t] = r]
         /\ savedRole' = s
         /\ answers' = [answers EXCEPT ![t] = Group]
         /\ UNCHANGED drawn
    ELSE /\ page' = [page EXCEPT ![t] = p]
         /\ roleId' = [roleId EXCEPT ![t] = Clamp(r, session')]
         /\ savedRole' = Clamp(r, session')
         /\ answers' = [answers EXCEPT ![t] = Group]
         /\ drawn' = [drawn EXCEPT ![t] = session']

\* Mutant: the role that was put right is not saved.
DrawUnsaved(t, r, s, p, mount) ==
    IF session' = NoAccount
    THEN /\ page' = [page EXCEPT ![t] = IF mount THEN "login" ELSE "blank"]
         /\ roleId' = [roleId EXCEPT ![t] = r]
         /\ savedRole' = s
         /\ answers' = [answers EXCEPT ![t] = Group]
         /\ UNCHANGED drawn
    ELSE LET cur == Clamp(r, session')
             to == IF Passes(r, cur, p) /\ Passes(cur, cur, p) THEN p ELSE Home(cur)
         IN /\ page' = [page EXCEPT ![t] = to]
            /\ roleId' = [roleId EXCEPT ![t] = cur]
            /\ savedRole' = s
            /\ answers' = [answers EXCEPT ![t] = Group]
            /\ drawn' = [drawn EXCEPT ![t] = session']

\* Tab t draws page p with role r in memory and role s in storage.  mount: the
\* shell is not on the screen yet.  Without a token a shell that is mounted
\* returns before its effect hook, which React refuses: the tab goes blank.
Draw(t, r, s, p, mount) ==
    IF session' = NoAccount
    THEN /\ page' = [page EXCEPT ![t] = IF mount THEN "login" ELSE "blank"]
         /\ roleId' = [roleId EXCEPT ![t] = r]
         /\ savedRole' = s
         /\ answers' = [answers EXCEPT ![t] = Group]
         /\ UNCHANGED drawn
    ELSE LET cur == Clamp(r, session')
             to == IF Passes(r, cur, p) /\ Passes(cur, cur, p) THEN p ELSE Home(cur)
         IN /\ page' = [page EXCEPT ![t] = to]
            /\ roleId' = [roleId EXCEPT ![t] = cur]
            /\ savedRole' = IF cur # r THEN cur ELSE s
            /\ answers' = [answers EXCEPT ![t] =
                              IF to # "ai" THEN Group
                              ELSE IF page[t] = "ai" /\ ~mount THEN @
                              ELSE TenantTexts(r)]
            /\ drawn' = [drawn EXCEPT ![t] = session']

InShell(t) == page[t] \in Titles

\* A handler that leaves the role and the page alone draws the shell again.
Redraw(t) == Draw(t, roleId[t], savedRole, page[t], FALSE)

Open(t, o) ==
    /\ openId' = [openId EXCEPT ![t] = o]
    /\ UNCHANGED session
    /\ Redraw(t)

(***************************************************************************)
(* The handlers.                                                           *)
(***************************************************************************)
\* A login the server accepts: the token, the account's role, its home.
Login(t, a) ==
    LET r == LoginRoleId(a)
    IN /\ page[t] = "login"
       /\ session' = a
       /\ Draw(t, r, r, Home(r), TRUE)
       /\ UNCHANGED openId

\* The logout button; neither the role nor the drawer is reset.
Logout(t) ==
    /\ InShell(t)
    /\ session' = NoAccount
    /\ page' = [page EXCEPT ![t] = "login"]
    /\ UNCHANGED <<savedRole, roleId, openId, answers, drawn>>

\* The role selector offers the roles of the login it was drawn for.
SwitchRole(t, r) ==
    /\ InShell(t)
    /\ r \in AllowedRoleIds(drawn[t])
    /\ UNCHANGED <<session, openId>>
    /\ Draw(t, r, r, Home(r), FALSE)

\* The menu, the bell, a page's buttons, the browser's Back and Forward.
Navigate(t, p) ==
    /\ InShell(t) \/ page[t] = "login"
    /\ UNCHANGED <<session, openId>>
    /\ Draw(t, roleId[t], savedRole, p, ~InShell(t))

\* openCase and openStore: a row of the page or of the store in the drawer.
OpenDrawer(t, o) ==
    /\ InShell(t)
    /\ o \in Draws(page[t], roleId[t], answers[t]).opens \cup DrawerHost(openId[t]).opens
    /\ Open(t, o)

CloseDrawer(t) ==
    /\ InShell(t)
    /\ openId[t] # NoDrawer
    /\ Open(t, NoDrawer)

\* A page load at p, or at / for the home: memory starts from localStorage.
Load(t, p) ==
    LET r == IF savedRole \in RoleId THEN savedRole ELSE "hq"
    IN /\ openId' = [openId EXCEPT ![t] = NoDrawer]
       /\ UNCHANGED session
       /\ Draw(t, r, savedRole, p, TRUE)

\* The server refuses a call of one of the pages that ask it: the login is
\* forgotten, whoever's it is by now, and the login page loaded.
Unauthorized(t) ==
    LET r == IF savedRole \in RoleId THEN savedRole ELSE "hq"
    IN /\ page[t] \in ApiPages
       /\ session' = NoAccount
       /\ openId' = [openId EXCEPT ![t] = NoDrawer]
       /\ Draw(t, r, savedRole, page[t], TRUE)

Init ==
    /\ session = NoAccount
    /\ savedRole = ""
    /\ roleId = [t \in Tab |-> "hq"]
    /\ page = [t \in Tab |-> "login"]
    /\ openId = [t \in Tab |-> NoDrawer]
    /\ answers = [t \in Tab |-> Group]
    /\ drawn = [t \in Tab |-> NoAccount]

Next ==
    \E t \in Tab :
        \/ \E a \in Account : Login(t, a)
        \/ Logout(t)
        \/ \E r \in RoleId : SwitchRole(t, r)
        \/ \E p \in Views : Navigate(t, p) \/ Load(t, p)
        \/ \E o \in Case \cup Store : OpenDrawer(t, o)
        \/ CloseDrawer(t)
        \/ Unauthorized(t)

Spec == Init /\ [][Next]_vars

(***************************************************************************)
(* Properties.                                                             *)
(***************************************************************************)
\* Every variable holds a value of its kind.
TypeOK ==
    /\ session \in Account \cup {NoAccount}
    /\ savedRole \in RoleId \cup {""}
    /\ roleId \in [Tab -> RoleId]
    /\ page \in [Tab -> Titles \cup {"login", "blank"}]
    /\ openId \in [Tab -> Case \cup Store \cup {NoDrawer}]
    /\ answers \in [Tab -> {Group, Tsann}]
    /\ drawn \in [Tab -> Account \cup {NoAccount}]

Tenant(a) == Brand(LoginRoleId(a))

InTenant(s, a) == IF Tenant(a) = NoBrand THEN StoreBrand[s] \notin EXTERNAL_BRANDS
                                         ELSE StoreBrand[s] = Tenant(a)

\* Whatever the other tabs do to the login and the saved role, what a tab shows
\* on a page cut by role (App.tsx:41, roles.ts:122-184) comes from stores of the
\* tenant it was drawn for.  The store board is not cut by role.
PagesStayInTenant ==
    \A t \in Tab : InShell(t) /\ page[t] # "store" =>
        LET shown == Draws(page[t], roleId[t], answers[t])
        IN /\ \A c \in shown.cases : InTenant(CaseStore[c], drawn[t])
           /\ \A s \in shown.stores : InTenant(s, drawn[t])

\* No tab rests on a page that its present role's menu does not have
\* (App.tsx:47-53), though the role may change under the page.
PageFitsRole ==
    \A t \in Tab : InShell(t) => Passes(roleId[t], roleId[t], page[t])

\* A tab that is loaded while somebody is logged in starts in a role of that
\* login's tenant: no tab leaves the role of another tenant in storage.
SavedRoleFitsLogin ==
    session # NoAccount => savedRole \in AllowedRoleIds(session)
===============================================================================

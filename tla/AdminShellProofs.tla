--------------------------- MODULE AdminShellProofs ---------------------------
(***************************************************************************)
(* Theorems about AdminShell, for any tabs, accounts, stores, cases and    *)
(* pages: type correctness, and that what the tabs do to each other        *)
(* through localStorage never shows a role's page to another tenant, and   *)
(* that a tab shows the present login unless other tabs change it.         *)
(***************************************************************************)
EXTENDS AdminShell, TLAPS

-------------------------------------------------------------------------------
(* Roles *)

LEMMA LoginRoleType ==
    ASSUME NEW a
    PROVE  LoginRoleId(a) \in RoleId
BY DEF LoginRoleId, RoleId

\* The role the shell draws for is one of the login's tenant.
LEMMA ClampAllowed ==
    ASSUME NEW a, NEW r
    PROVE  Clamp(r, a) \in AllowedRoleIds(a)
BY LoginRoleType DEF Clamp, AllowedRoleIds

LEMMA AllowedIsRole ==
    ASSUME NEW a
    PROVE  AllowedRoleIds(a) \subseteq RoleId
BY DEF AllowedRoleIds

\* Every role may rest on its own home.
LEMMA HomePasses ==
    ASSUME NEW r \in RoleId
    PROVE  Passes(r, r, Home(r)) /\ Home(r) \in Titles
<1>1. Home(r) \in {"store", "cases", "reviews", "dashboard"}
  BY DEF Home, RoleId
<1>2. CASE r = "store"
  BY <1>2 DEF Home, Passes, Titles, ApiPages
<1>3. CASE r = "cs"
  BY <1>3 DEF Home, Passes, Titles, ApiPages
<1>4. CASE r = "pr"
  BY <1>4 DEF Home, Passes, MenuRole, Titles, ApiPages
<1>5. CASE r = "hq"
  BY <1>5 DEF Home, Passes, MenuRole, Titles, ApiPages
<1>6. CASE r \in {"region", "tk"}
  BY <1>6 DEF Home, Passes, MenuRole, Titles, ApiPages
<1>7. QED
  BY <1>2, <1>3, <1>4, <1>5, <1>6 DEF RoleId

-------------------------------------------------------------------------------
(* Drawing: the one place where the role and the page are put right. *)

\* A tab that shows a page has a role of the login it was drawn for, and the
\* page is one that this role's menu has.
Fits(t) ==
    InShell(t) => /\ roleId[t] \in AllowedRoleIds(drawn[t])
                  /\ Passes(roleId[t], roleId[t], page[t])

ShellInv == TypeOK /\ SavedRoleFitsLogin /\ \A t \in Tab : Fits(t)

LEMMA TenantTextsType ==
    ASSUME NEW r
    PROVE  TenantTexts(r) \in {Group, Tsann}
BY DEF TenantTexts, Brand, NoBrand, Group, Tsann

LEMMA DrawPreserves ==
    ASSUME ShellInv, NEW t \in Tab, NEW r \in RoleId, NEW s \in RoleId \cup {""},
           NEW p \in Titles, NEW mount,
           session' \in Account \cup {NoAccount},
           openId' \in [Tab -> Case \cup Store \cup {NoDrawer}],
           session' # NoAccount => s \in AllowedRoleIds(session') \/ Clamp(r, session') # r,
           Draw(t, r, s, p, mount)
    PROVE  ShellInv'
<1> DEFINE cur == Clamp(r, session')
           to == IF Passes(r, cur, p) /\ Passes(cur, cur, p) THEN p ELSE Home(cur)
<1>t. /\ roleId \in [Tab -> RoleId]
      /\ page \in [Tab -> Titles \cup {"login", "blank"}]
      /\ answers \in [Tab -> {Group, Tsann}]
      /\ drawn \in [Tab -> Account \cup {NoAccount}]
  BY DEF ShellInv, TypeOK
<1>f. \A u \in Tab : Fits(u)
  BY DEF ShellInv
<1>l. "login" \notin Titles /\ "blank" \notin Titles
  BY DEF Titles, ApiPages
<1>1. CASE session' = NoAccount
  <2>1. /\ page' = [page EXCEPT ![t] = IF mount THEN "login" ELSE "blank"]
        /\ roleId' = [roleId EXCEPT ![t] = r]
        /\ savedRole' = s
        /\ answers' = [answers EXCEPT ![t] = Group]
        /\ drawn' = drawn
    BY <1>1 DEF Draw
  <2>2. TypeOK'
    BY <1>t, <2>1 DEF TypeOK
  <2>3. SavedRoleFitsLogin'
    BY <1>1 DEF SavedRoleFitsLogin
  <2>4. ASSUME NEW u \in Tab PROVE Fits(u)'
    <3>1. CASE u = t
      BY <1>t, <1>l, <2>1, <3>1 DEF Fits, InShell
    <3>2. CASE u # t
      BY <1>t, <1>f, <2>1, <3>2 DEF Fits, InShell
    <3>3. QED
      BY <3>1, <3>2
  <2>5. QED
    BY <2>2, <2>3, <2>4 DEF ShellInv
<1>2. CASE session' # NoAccount
  <2>1. /\ page' = [page EXCEPT ![t] = to]
        /\ roleId' = [roleId EXCEPT ![t] = cur]
        /\ savedRole' = IF cur # r THEN cur ELSE s
        /\ answers' = [answers EXCEPT ![t] =
                          IF to # "ai" THEN Group
                          ELSE IF page[t] = "ai" /\ ~mount THEN @
                          ELSE TenantTexts(r)]
        /\ drawn' = [drawn EXCEPT ![t] = session']
    BY <1>2 DEF Draw
  <2>2. cur \in AllowedRoleIds(session') /\ cur \in RoleId
    BY ClampAllowed, AllowedIsRole
  <2>3. Passes(cur, cur, to) /\ to \in Titles \cup {"login", "blank"}
    BY <2>2, HomePasses
  <2>4. TypeOK'
    <3>1. page' \in [Tab -> Titles \cup {"login", "blank"}] /\ roleId' \in [Tab -> RoleId]
      BY <1>t, <2>1, <2>2, <2>3
    <3>2. answers' \in [Tab -> {Group, Tsann}]
      BY <1>t, <2>1, TenantTextsType
    <3>3. savedRole' \in RoleId \cup {""} /\ drawn' \in [Tab -> Account \cup {NoAccount}]
      BY <1>t, <2>1, <2>2
    <3>4. QED
      BY <3>1, <3>2, <3>3 DEF TypeOK
  <2>5. SavedRoleFitsLogin'
    BY <1>2, <2>1, <2>2 DEF SavedRoleFitsLogin, AllowedRoleIds, LoginRoleId
  <2>6. ASSUME NEW u \in Tab PROVE Fits(u)'
    <3>1. CASE u = t
      <4>1. roleId'[u] = cur /\ page'[u] = to /\ drawn'[u] = session'
        BY <1>t, <2>1, <3>1
      <4>2. QED
        BY <2>2, <2>3, <4>1 DEF Fits, AllowedRoleIds, LoginRoleId, Passes
    <3>2. CASE u # t
      <4>1. roleId'[u] = roleId[u] /\ page'[u] = page[u] /\ drawn'[u] = drawn[u]
        BY <1>t, <2>1, <3>2
      <4>2. QED
        BY <1>f, <4>1 DEF Fits, InShell
    <3>3. QED
      BY <3>1, <3>2
  <2>7. QED
    BY <2>4, <2>5, <2>6 DEF ShellInv
<1>3. QED
  BY <1>1, <1>2

-------------------------------------------------------------------------------
(* The handlers *)

LEMMA InitShell == Init => ShellInv
<1> SUFFICES ASSUME Init PROVE ShellInv
  OBVIOUS
<1>1. TypeOK
  BY DEF Init, TypeOK, RoleId, Group
<1>2. SavedRoleFitsLogin
  BY DEF Init, SavedRoleFitsLogin
<1>3. \A t \in Tab : Fits(t)
  BY DEF Init, Fits, InShell, Titles, ApiPages
<1>4. QED
  BY <1>1, <1>2, <1>3 DEF ShellInv

\* A handler that leaves the login alone draws with the role in memory and the
\* one saved, whatever page it goes to.
LEMMA KeepsSaved ==
    ASSUME ShellInv, UNCHANGED session
    PROVE  session' # NoAccount => savedRole \in AllowedRoleIds(session')
BY DEF ShellInv, SavedRoleFitsLogin

LEMMA RedrawPreserves ==
    ASSUME ShellInv, NEW t \in Tab, InShell(t), UNCHANGED session, Redraw(t),
           openId' \in [Tab -> Case \cup Store \cup {NoDrawer}]
    PROVE  ShellInv'
<1>1. /\ roleId[t] \in RoleId /\ savedRole \in RoleId \cup {""} /\ page[t] \in Titles
      /\ session' \in Account \cup {NoAccount}
  BY DEF ShellInv, TypeOK, InShell
<1>2. Draw(t, roleId[t], savedRole, page[t], FALSE)
  BY DEF Redraw
<1>3. QED
  BY <1>1, <1>2, KeepsSaved, DrawPreserves

LEMMA NextShell == ShellInv /\ [Next]_vars => ShellInv'
<1> SUFFICES ASSUME ShellInv, [Next]_vars PROVE ShellInv'
  OBVIOUS
<1>t. TypeOK
  BY DEF ShellInv
<1>1. ASSUME NEW t \in Tab, NEW a \in Account, Login(t, a) PROVE ShellInv'
  <2>1. LoginRoleId(a) \in RoleId /\ LoginRoleId(a) \in AllowedRoleIds(a)
    BY LoginRoleType DEF AllowedRoleIds
  <2>2. /\ session' \in Account \cup {NoAccount}
        /\ openId' \in [Tab -> Case \cup Store \cup {NoDrawer}]
    BY <1>1, <1>t DEF Login, TypeOK
  <2>3. session' # NoAccount => LoginRoleId(a) \in AllowedRoleIds(session')
    BY <1>1, <2>1 DEF Login
  <2>4. Draw(t, LoginRoleId(a), LoginRoleId(a), Home(LoginRoleId(a)), TRUE)
    BY <1>1 DEF Login
  <2>5. Home(LoginRoleId(a)) \in Titles
    BY <2>1, HomePasses
  <2>6. QED
    BY <2>1, <2>2, <2>3, <2>4, <2>5, DrawPreserves
<1>2. ASSUME NEW t \in Tab, Logout(t) PROVE ShellInv'
  <2>1. TypeOK'
    BY <1>2, <1>t DEF Logout, TypeOK
  <2>2. SavedRoleFitsLogin'
    BY <1>2 DEF Logout, SavedRoleFitsLogin
  <2>3. ASSUME NEW u \in Tab PROVE Fits(u)'
    <3>1. u = t => page'[u] = "login"
      BY <1>2, <1>t DEF Logout, TypeOK
    <3>2. u # t => page'[u] = page[u]
      BY <1>2, <1>t DEF Logout, TypeOK
    <3>3. roleId' = roleId /\ drawn' = drawn
      BY <1>2 DEF Logout
    <3>4. "login" \notin Titles
      BY DEF Titles, ApiPages
    <3>5. QED
      BY <3>1, <3>2, <3>3, <3>4 DEF ShellInv, Fits, InShell
  <2>4. QED
    BY <2>1, <2>2, <2>3 DEF ShellInv
<1>3. ASSUME NEW t \in Tab, NEW r \in RoleId, SwitchRole(t, r) PROVE ShellInv'
  <2>1. /\ session' \in Account \cup {NoAccount}
        /\ openId' \in [Tab -> Case \cup Store \cup {NoDrawer}]
    BY <1>3, <1>t DEF SwitchRole, TypeOK
  <2>2. r \in AllowedRoleIds(session') \/ Clamp(r, session') # r
    BY ClampAllowed
  <2>3. Draw(t, r, r, Home(r), FALSE) /\ Home(r) \in Titles
    BY <1>3, HomePasses DEF SwitchRole
  <2>4. QED
    BY <2>1, <2>2, <2>3, DrawPreserves
<1>4. ASSUME NEW t \in Tab, NEW p \in Views, Navigate(t, p) PROVE ShellInv'
  <2>1. /\ session' \in Account \cup {NoAccount} /\ session' = session
        /\ openId' \in [Tab -> Case \cup Store \cup {NoDrawer}]
        /\ roleId[t] \in RoleId /\ savedRole \in RoleId \cup {""}
    BY <1>4, <1>t DEF Navigate, TypeOK
  <2>2. Draw(t, roleId[t], savedRole, p, ~InShell(t)) /\ p \in Titles
    BY <1>4, ViewsAssumption DEF Navigate
  <2>3. QED
    BY <2>1, <2>2, KeepsSaved, DrawPreserves
<1>5. ASSUME NEW t \in Tab, NEW o \in Case \cup Store, OpenDrawer(t, o) PROVE ShellInv'
  <2>1. /\ openId' \in [Tab -> Case \cup Store \cup {NoDrawer}]
        /\ InShell(t) /\ UNCHANGED session /\ Redraw(t)
    BY <1>5, <1>t DEF OpenDrawer, Open, TypeOK
  <2>2. QED
    BY <2>1, RedrawPreserves
<1>6. ASSUME NEW t \in Tab, CloseDrawer(t) PROVE ShellInv'
  <2>1. /\ openId' \in [Tab -> Case \cup Store \cup {NoDrawer}]
        /\ InShell(t) /\ UNCHANGED session /\ Redraw(t)
    BY <1>6, <1>t DEF CloseDrawer, Open, TypeOK
  <2>2. QED
    BY <2>1, RedrawPreserves
<1>7. ASSUME NEW t \in Tab, NEW p \in Views, Load(t, p) PROVE ShellInv'
  <2> DEFINE r == IF savedRole \in RoleId THEN savedRole ELSE "hq"
  <2>1. /\ session' \in Account \cup {NoAccount} /\ session' = session
        /\ openId' \in [Tab -> Case \cup Store \cup {NoDrawer}]
        /\ savedRole \in RoleId \cup {""}
    BY <1>7, <1>t DEF Load, TypeOK
  <2>2. r \in RoleId
    BY DEF RoleId
  <2>3. Draw(t, r, savedRole, p, TRUE) /\ p \in Titles
    BY <1>7, ViewsAssumption DEF Load
  <2> HIDE DEF r
  <2>4. QED
    BY <2>1, <2>2, <2>3, KeepsSaved, DrawPreserves
<1>8. ASSUME NEW t \in Tab, Unauthorized(t) PROVE ShellInv'
  <2> DEFINE r == IF savedRole \in RoleId THEN savedRole ELSE "hq"
  <2>1. /\ session' \in Account \cup {NoAccount} /\ session' = NoAccount
        /\ openId' \in [Tab -> Case \cup Store \cup {NoDrawer}]
        /\ savedRole \in RoleId \cup {""}
    BY <1>8, <1>t DEF Unauthorized, TypeOK
  <2>2. r \in RoleId
    BY DEF RoleId
  <2>3. Draw(t, r, savedRole, page[t], TRUE) /\ page[t] \in Titles
    BY <1>8 DEF Unauthorized, Titles
  <2> HIDE DEF r
  <2>4. QED
    BY <2>1, <2>2, <2>3, DrawPreserves
<1>9. ASSUME UNCHANGED vars PROVE ShellInv'
  BY <1>9 DEF vars, storageVars, tabVars, ShellInv, TypeOK, SavedRoleFitsLogin,
              AllowedRoleIds, LoginRoleId, Fits, InShell, Passes
<1>10. QED
  BY <1>1, <1>2, <1>3, <1>4, <1>5, <1>6, <1>7, <1>8, <1>9 DEF Next

-------------------------------------------------------------------------------
(* The theorems *)

THEOREM ShellInvariant == Spec => []ShellInv
BY InitShell, NextShell, PTL DEF Spec

\* Every variable of the shell keeps its type, whatever the tabs, the accounts
\* and the data bundled with the application are.
THEOREM TypeCorrect == Spec => []TypeOK
<1>1. ShellInv => TypeOK
  BY DEF ShellInv
<1>2. QED
  BY <1>1, ShellInvariant, PTL

\* No tab leaves the role of another tenant in localStorage (App.tsx:41-44).
THEOREM SavedRoleIsFit == Spec => []SavedRoleFitsLogin
<1>1. ShellInv => SavedRoleFitsLogin
  BY DEF ShellInv
<1>2. QED
  BY <1>1, ShellInvariant, PTL

\* The page of a tab is one of its role's menu (App.tsx:47-53), though another
\* tab may change the login and the saved role.
THEOREM PageIsFit == Spec => []PageFitsRole
<1>1. ShellInv => PageFitsRole
  BY DEF ShellInv, Fits, PageFitsRole
<1>2. QED
  BY <1>1, ShellInvariant, PTL

\* What a role of a login's tenant lists comes from stores of that tenant.
LEMMA ScopeInTenant ==
    ASSUME NEW a, NEW r \in AllowedRoleIds(a), NEW s, InScope(r, s)
    PROVE  InTenant(s, a)
<1>1. Brand(r) = Tenant(a)
  BY DEF AllowedRoleIds, Tenant
<1>2. QED
  BY <1>1 DEF InScope, InTenant

LEMMA DrawsScoped ==
    ASSUME NEW p \in Titles \ {"store"}, NEW r, NEW qa
    PROVE  /\ Draws(p, r, qa).cases \subseteq ScopedCases(r)
           /\ Draws(p, r, qa).stores \subseteq ScopedStores(r)
<1> USE DEF Draws, Content
<1>1. CASE p = "dashboard"
  BY <1>1 DEF Dashboard
<1>2. CASE p \in {"reviews", "cases"}
  BY <1>2 DEF Reviews, Cases, Listing
<1>3. CASE p \in {"causes", "voice", "tasks"}
  BY <1>3 DEF Causes, Voice, Tasks, Counting
<1>4. CASE p \in {"sla", "stores"}
  BY <1>4 DEF SlaMonitor, Stores
<1>5. CASE p = "notifications"
  BY <1>5 DEF NotificationsPage
<1>6. CASE p \in {"ai", "improve"}
  BY <1>6 DEF AiInsights, Improve
<1>7. CASE p \in {"org", "rules", "reports", "sources"}
  BY <1>7 DEF Org, RulesPage, Reports, Sources
<1>8. CASE p \in ApiPages
  BY <1>8 DEF ApiPages, Nothing
<1>9. QED
  BY <1>1, <1>2, <1>3, <1>4, <1>5, <1>6, <1>7, <1>8 DEF Titles

\* The pages cut by role show only stores and cases of the tenant they were
\* drawn for (App.tsx:41, roles.ts:122-184), on all pages.
THEOREM TenantsOnPages == Spec => []PagesStayInTenant
<1>1. ASSUME ShellInv, NEW t \in Tab, InShell(t), page[t] # "store"
      PROVE  LET shown == Draws(page[t], roleId[t], answers[t])
             IN /\ \A c \in shown.cases : InTenant(CaseStore[c], drawn[t])
                /\ \A s \in shown.stores : InTenant(s, drawn[t])
  <2> DEFINE shown == Draws(page[t], roleId[t], answers[t])
  <2>1. roleId[t] \in AllowedRoleIds(drawn[t]) /\ page[t] \in Titles \ {"store"}
    BY <1>1 DEF ShellInv, Fits, InShell
  <2>2. shown.cases \subseteq ScopedCases(roleId[t]) /\ shown.stores \subseteq ScopedStores(roleId[t])
    BY <2>1, DrawsScoped
  <2> HIDE DEF shown
  <2>3. ASSUME NEW c \in shown.cases PROVE InTenant(CaseStore[c], drawn[t])
    BY <2>1, <2>2, ScopeInTenant DEF ScopedCases
  <2>4. ASSUME NEW s \in shown.stores PROVE InTenant(s, drawn[t])
    BY <2>1, <2>2, ScopeInTenant DEF ScopedStores
  <2>5. QED
    BY <2>3, <2>4 DEF shown
<1>2. ShellInv => PagesStayInTenant
  BY <1>1 DEF PagesStayInTenant
<1>3. QED
  BY <1>2, ShellInvariant, PTL

-------------------------------------------------------------------------------
(* What one tab does to another *)

\* Tab u writes or forgets the login in localStorage.
Signs(u) == Logout(u) \/ Unauthorized(u) \/ \E a \in Account : Login(u, a)

\* No tab but t does.
SignsAlone(t) == \A u \in Tab \ {t} : ~Signs(u)

\* What the tab shows is of the login that is kept, and it is not blank.
ShowsItsLogin(t) ==
    /\ page[t] # "blank"
    /\ InShell(t) => session # NoAccount /\ drawn[t] = session

\* The drawing of a shell goes blank only if it was on the screen already, and
\* without a login; what it draws is of the login.
LEMMA DrawnForLogin ==
    ASSUME TypeOK, NEW t \in Tab, NEW r, NEW s, NEW p \in Titles, NEW mount,
           mount \/ session' # NoAccount, Clamp(r, session') \in RoleId,
           Draw(t, r, s, p, mount)
    PROVE  ShowsItsLogin(t)'
<1> DEFINE cur == Clamp(r, session')
           to == IF Passes(r, cur, p) /\ Passes(cur, cur, p) THEN p ELSE Home(cur)
<1>t. page \in [Tab -> Titles \cup {"login", "blank"}] /\ drawn \in [Tab -> Account \cup {NoAccount}]
  BY DEF TypeOK
<1>l. "login" \notin Titles /\ "blank" \notin Titles
  BY DEF Titles, ApiPages
<1>1. CASE session' = NoAccount
  <2>1. page' = [page EXCEPT ![t] = "login"]
    BY <1>1 DEF Draw
  <2>2. QED
    BY <1>t, <1>l, <2>1 DEF ShowsItsLogin, InShell
<1>2. CASE session' # NoAccount
  <2>1. page' = [page EXCEPT ![t] = to] /\ drawn' = [drawn EXCEPT ![t] = session']
    BY <1>2 DEF Draw
  <2>2. to \in Titles
    BY HomePasses
  <2> HIDE DEF to
  <2>3. page'[t] = to /\ drawn'[t] = session'
    BY <1>t, <2>1
  <2>4. QED
    BY <1>2, <1>l, <2>2, <2>3 DEF ShowsItsLogin, InShell
<1>3. QED
  BY <1>1, <1>2

\* A drawing of another tab leaves the tab as it is.
LEMMA DrawnElsewhere ==
    ASSUME TypeOK, NEW t \in Tab, NEW u \in Tab, t # u, UNCHANGED session,
           NEW r, NEW s, NEW p, NEW mount, Draw(u, r, s, p, mount)
    PROVE  ShowsItsLogin(t) => ShowsItsLogin(t)'
<1>1. page'[t] = page[t] /\ drawn'[t] = drawn[t]
  BY DEF Draw, TypeOK
<1>2. QED
  BY <1>1 DEF ShowsItsLogin, InShell

LEMMA ShowsStep ==
    ASSUME ShellInv, NEW t \in Tab, ShowsItsLogin(t), [Next /\ SignsAlone(t)]_vars
    PROVE  ShowsItsLogin(t)'
<1>t. TypeOK
  BY DEF ShellInv
<1>c. \A r : Clamp(r, session') \in RoleId
  BY ClampAllowed, AllowedIsRole
<1>1. ASSUME NEW u \in Tab, SignsAlone(t), Signs(u) PROVE ShowsItsLogin(t)'
  <2>1. u = t
    BY <1>1 DEF SignsAlone
  <2>2. CASE Logout(t)
    <3>1. page'[t] = "login" /\ "login" \notin Titles
      BY <1>t, <2>2 DEF Logout, TypeOK, Titles, ApiPages
    <3>2. QED
      BY <3>1 DEF ShowsItsLogin, InShell
  <2>3. CASE Unauthorized(t)
    <3>1. page[t] \in Titles
      BY <2>3 DEF Unauthorized, Titles
    <3>2. QED
      BY <1>t, <1>c, <2>3, <3>1, DrawnForLogin DEF Unauthorized
  <2>4. ASSUME NEW a \in Account, Login(t, a) PROVE ShowsItsLogin(t)'
    <3>1. Home(LoginRoleId(a)) \in Titles
      BY LoginRoleType, HomePasses
    <3>2. QED
      BY <1>t, <1>c, <2>4, <3>1, DrawnForLogin DEF Login
  <2>5. QED
    BY <1>1, <2>1, <2>2, <2>3, <2>4 DEF Signs
<1>2. ASSUME NEW u \in Tab, UNCHANGED session, NEW r, NEW s, NEW p \in Titles, NEW mount,
             mount \/ InShell(u), Draw(u, r, s, p, mount)
      PROVE  ShowsItsLogin(t)'
  <2>1. CASE u = t
    BY <1>2, <1>t, <1>c, <2>1, DrawnForLogin DEF ShowsItsLogin
  <2>2. CASE u # t
    BY <1>2, <1>t, <2>2, DrawnElsewhere
  <2>3. QED
    BY <2>1, <2>2
<1>3. ASSUME NEW u \in Tab, NEW r \in RoleId, SwitchRole(u, r) PROVE ShowsItsLogin(t)'
  <2>1. UNCHANGED session /\ InShell(u) /\ Draw(u, r, r, Home(r), FALSE) /\ Home(r) \in Titles
    BY <1>3, HomePasses DEF SwitchRole
  <2>2. QED
    BY <1>2, <2>1
<1>4. ASSUME NEW u \in Tab, NEW p \in Views, Navigate(u, p) PROVE ShowsItsLogin(t)'
  <2>1. /\ UNCHANGED session /\ p \in Titles
        /\ Draw(u, roleId[u], savedRole, p, ~InShell(u))
    BY <1>4, ViewsAssumption DEF Navigate
  <2>2. QED
    BY <1>2, <2>1
<1>5. ASSUME NEW u \in Tab, NEW p \in Views, Load(u, p) PROVE ShowsItsLogin(t)'
  <2> DEFINE r == IF savedRole \in RoleId THEN savedRole ELSE "hq"
  <2>1. UNCHANGED session /\ p \in Titles /\ Draw(u, r, savedRole, p, TRUE)
    BY <1>5, ViewsAssumption DEF Load
  <2> HIDE DEF r
  <2>2. QED
    BY <1>2, <2>1
<1>6. ASSUME NEW u \in Tab, InShell(u), NEW o, Open(u, o) PROVE ShowsItsLogin(t)'
  <2>1. UNCHANGED session /\ Draw(u, roleId[u], savedRole, page[u], FALSE) /\ page[u] \in Titles
    BY <1>6 DEF Open, Redraw, InShell
  <2>2. QED
    BY <1>2, <1>6, <2>1
<1>7. ASSUME UNCHANGED vars PROVE ShowsItsLogin(t)'
  BY <1>7 DEF vars, storageVars, tabVars, ShowsItsLogin, InShell
<1>8. ASSUME Next, SignsAlone(t) PROVE ShowsItsLogin(t)'
  <2>1. PICK u \in Tab :
           \/ Signs(u)
           \/ \E r \in RoleId : SwitchRole(u, r)
           \/ \E p \in Views : Navigate(u, p) \/ Load(u, p)
           \/ \E o \in Case \cup Store : OpenDrawer(u, o)
           \/ CloseDrawer(u)
    BY <1>8 DEF Next, Signs
  <2>2. CASE \E o \in Case \cup Store : OpenDrawer(u, o)
    BY <1>6, <2>2 DEF OpenDrawer
  <2>3. CASE CloseDrawer(u)
    BY <1>6, <2>3 DEF CloseDrawer
  <2>4. QED
    BY <1>1, <1>3, <1>4, <1>5, <1>8, <2>1, <2>2, <2>3
<1>9. QED
  BY <1>7, <1>8

\* A shell goes blank, or stays on the screen under another login than the one
\* kept, only through other tabs: as long as these neither log in nor out, nor
\* have the login refused, every page of a tab is of the present login
\* (App.tsx:39, api.ts:30-33), however it is loaded and navigated.
THEOREM OtherTabsLogOut ==
    ASSUME NEW t \in Tab
    PROVE  Spec /\ [][SignsAlone(t)]_vars => []ShowsItsLogin(t)
<1>1. Init => ShowsItsLogin(t)
  BY DEF Init, ShowsItsLogin, InShell, Titles, ApiPages
<1>2. ShellInv /\ ShowsItsLogin(t) /\ [Next]_vars /\ [SignsAlone(t)]_vars => ShowsItsLogin(t)'
  BY ShowsStep
<1>3. QED
  BY <1>1, <1>2, ShellInvariant, PTL DEF Spec
===============================================================================

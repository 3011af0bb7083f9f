------------------------------- MODULE AdminRoles -------------------------------
(***************************************************************************)
(* The roles of the admin application and what each may see, of            *)
(* admin/src/lib/roles.ts.  Everything here is a pure function of the role *)
(* and of the data bundled with the application (db.json).                 *)
(***************************************************************************)
EXTENDS Naturals, FiniteSets

CONSTANTS
    Account,        \* the accounts that log in
    BackendRole,    \* users.role of every account
    Store,          \* DB.stores
    FirstStore,     \* DB.stores[0], the store of the store manager's role
    StoreBrand,     \* brand_short of every store
    StoreRegion,    \* region of every store
    Case,           \* DB.cases
    CaseStore,      \* the store of every case, which has its brand and region
    CaseRisk        \* risk_level of every case

Risk == {"high", "medium", "low"}

ASSUME DataAssumption ==
    /\ FirstStore \in Store
    /\ CaseStore \in [Case -> Store]
    /\ CaseRisk \in [Case -> Risk]

(***************************************************************************)
(* Roles and tenants (roles.ts).                                           *)
(***************************************************************************)
RoleId == {"hq", "region", "store", "cs", "pr", "tk"}

\* The brand of the external tenant and the brands the group's roles never see.
Tsann == "tsann"
EXTERNAL_BRANDS == {Tsann}
NoBrand == "none"

Brand(r)    == IF r = "tk" THEN Tsann ELSE NoBrand
Region(r)   == IF r = "region" THEN "north1" ELSE "none"
HasStore(r) == r = "store"
RiskOnly(r) == r = "pr"
Rules(r)    == r = "hq"
Home(r)     == CASE r = "store" -> "store"
                 [] r = "cs"    -> "cases"
                 [] r = "pr"    -> "reviews"
                 [] OTHER       -> "dashboard"

\* Titles of the pages: the local ones and the three that ask the real API.
ApiPages == {"inbox", "pipeline", "approvals"}
Titles == {"dashboard", "store", "reviews", "cases", "sla", "stores", "causes",
           "voice", "ai", "tasks", "improve", "notifications", "reports",
           "rules", "org", "sources"} \cup ApiPages

MenuRole(r) ==
    LET base == {"dashboard", "reviews", "cases", "sla", "notifications"}
    IN CASE r = "hq" -> Titles
         [] r \in {"store", "cs"} -> base \cup {"tasks"}
         [] r = "pr" -> base
         [] OTHER ->          \* region, tk
              base \cup {"stores", "causes", "voice", "ai", "tasks", "improve", "reports"}

\* Mutant: the backend's name of the role is taken for the application's.
LoginRoleAsIs(a) == BackendRole[a]

\* loginRoleId: an unknown backend role falls back to hq.
LoginRoleId(a) ==
    LET b == BackendRole[a]
    IN CASE b = "tsannkuen"        -> "tk"
         [] b = "hq_service"       -> "cs"
         [] b = "pr_legal"         -> "pr"
         [] b = "store_manager"    -> "store"
         [] b = "district_manager" -> "region"
         [] OTHER                  -> "hq"

\* The roles one may switch to: those of the login's own tenant.
AllowedRoleIds(a) == {r \in RoleId : Brand(r) = Brand(LoginRoleId(a))}

CaseBrand(c) == StoreBrand[CaseStore[c]]

\* Whether a role's brand, store or region lets it see the data of a store.
InScope(r, s) ==
    /\ IF Brand(r) # NoBrand THEN StoreBrand[s] = Brand(r)
                             ELSE StoreBrand[s] \notin EXTERNAL_BRANDS
    /\ HasStore(r) => s = FirstStore
    /\ r = "region" => StoreRegion[s] = Region(r)

ScopedStores(r) == {s \in Store : InScope(r, s)}

ScopedCases(r) ==
    {c \in Case : InScope(r, CaseStore[c]) /\ (RiskOnly(r) => CaseRisk[c] = "high")}
================================================================================

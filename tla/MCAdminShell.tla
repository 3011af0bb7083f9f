------------------------------ MODULE MCAdminShell ------------------------------
(* Small instances of AdminShell for TLC. *)
EXTENDS AdminShell, TLC

CONSTANTS t1, t2, admin, tsannkuen, s1, s2, s3, c1, c2, c3

MCBackendRole == (admin :> "admin") @@ (tsannkuen :> "tsannkuen")

\* s1: the group's first store, s2: one of the region, s3: of the other tenant.
MCStoreBrand  == [s \in Store |-> IF s = s3 THEN Tsann ELSE "thai"]
MCStoreRegion == [s \in Store |-> IF s = s1 THEN "north3" ELSE "north1"]
MCCaseStore   == [c \in Case |-> CASE c = c1 -> s1 [] c = c2 -> s2 [] c = c3 -> s3]
MCCaseRisk    == [c \in Case |-> IF c = c1 THEN "low" ELSE "high"]

Symmetry == Permutations({t1, t2})
===============================================================================

------------------------------ MODULE MCAdminCases ------------------------------
(* Small instances of AdminCases for TLC. *)
EXTENDS AdminCases, TLC

CONSTANTS t1, t2, s1, s3, c1, c2, c3, n1, n2, n3

\* No accounts: the roles are chosen directly.
MCBackendRole == [a \in Account |-> "admin"]

MCStoreBrand  == [s \in Store |-> IF s = s3 THEN Tsann ELSE "thai"]
MCStoreRegion == [s \in Store |-> "north1"]
MCCaseStore   == [c \in Case |-> IF c = c3 THEN s3 ELSE s1]
MCCaseRisk    == [c \in Case |-> IF c = c1 THEN "high" ELSE "low"]
MCSeed        == [c \in Case |-> IF c = c1 THEN "in_progress" ELSE "done"]
MCSentiment   == [c \in Case |-> IF c = c2 THEN "positive" ELSE "negative"]
MCCats        == [c \in Case |-> IF c = c1 THEN {"hygiene"} ELSE {}]
MCWords       == [c \in Case |-> IF c = c2 THEN {"tasty"} ELSE {}]

\* One notification of a case, one collective.
MCNoteCase == [n \in Note |-> IF n = n1 THEN c1 ELSE NoCase]
===============================================================================

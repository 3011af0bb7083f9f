----------------------------- MODULE MCCaseRouting -----------------------------
(* Small instances of CaseRouting for TLC. *)
EXTENDS CaseRouting, TLC

CONSTANTS hq, legal, district, store, w1, w2, k1

\* The seeded rules (migration 000005).
MCRolesOf == [r \in Risk |-> CASE r = "high"   -> {hq, legal}
                               [] r = "medium" -> {district, store}
                               [] r = "low"    -> {store}]

\* One role that every rule names, where the roles do not matter.
MCOneRole == [r \in Risk |-> {hq}]

\* Two deliveries of the same kind are interchangeable.
Symmetry == Permutations({w1, w2})
===============================================================================

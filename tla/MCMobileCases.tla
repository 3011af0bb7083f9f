------------------------------ MODULE MCMobileCases ------------------------------
(* A closed case of high risk in the first northern region and an open one. *)
EXTENDS MobileCases, TLC

CONSTANTS c1, c2

MCCaseRisk == [c \in Case |-> IF c = c1 THEN "high" ELSE "low"]
MCStartStatus == [c \in Case |-> IF c = c1 THEN "closed" ELSE "open"]
MCSymmetry == Permutations(Mutation)
================================================================================

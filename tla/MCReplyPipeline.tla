---------------------------- MODULE MCReplyPipeline ----------------------------
(* Small instances of ReplyPipeline for TLC. *)
EXTENDS ReplyPipeline, TLC

CONSTANTS r1, m1, m2, w1, w2, k1

\* Which reply the message in each slot names.
OneCopy   == m1 :> r1
TwoCopies == (m1 :> r1) @@ (m2 :> r1)

\* Workers are interchangeable, and so are the copies of a reply's message.
Symmetry == Permutations({w1, w2}) \cup Permutations({m1, m2})
===============================================================================

--------------------------- MODULE MCReviewPipeline ---------------------------
(* Small instances of ReviewPipeline for TLC. *)
EXTENDS ReviewPipeline, TLC

CONSTANTS a1, a2, b1, x1, cA, cB, w1, w2, k1, n1, n2

\* a1 and a2 differ only in what the customer did not write (the merchant's
\* answer, updateTime); x1 is not valid JSON of its source.
MCContentOf == [p \in Payload |-> CASE p = x1 -> BadPayload
                                   [] p = b1 -> cB
                                   [] OTHER  -> cA]

\* The analyst processes are interchangeable.
Symmetry == Permutations({n1, n2})
===============================================================================

------------------------------ MODULE MCAdminClient ------------------------------
(* Two cases, of which the second came from a webhook and is of high risk. *)
EXTENDS AdminClient

CONSTANTS c1, c2, google, web

MCSourceOf == [c \in Case |-> IF c = c1 THEN google ELSE web]
MCRatingOf == [c \in Case |-> IF c = c1 THEN "5" ELSE ""]
MCIsHigh == Case \ {c1}
================================================================================

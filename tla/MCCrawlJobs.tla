------------------------------ MODULE MCCrawlJobs ------------------------------
(* Small instances of CrawlJobs for TLC. *)
EXTENDS CrawlJobs, TLC

CONSTANTS j1, j2, w1, w2, s1, s2, r1, r2, r3

\* Workers are interchangeable, and so are reviews, rows and schedulers.
Symmetry == Permutations({w1, w2}) \cup Permutations({r1, r2, r3})
            \cup Permutations({j1, j2}) \cup Permutations({s1, s2})
===============================================================================

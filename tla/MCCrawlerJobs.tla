---------------------------- MODULE MCCrawlerJobs ----------------------------
EXTENDS CrawlerJobs, TLC

(* What the jobs are: only crawls, or crawls and then one bruteforce. *)
AllCrawls == [j \in 1 .. MaxJob |-> "active"]
Mixed == [j \in 1 .. MaxJob |-> IF j = MaxJob THEN "bruteforce" ELSE "active"]

(* The stop requests are interchangeable. *)
Symmetry == Permutations(Stops)
=============================================================================

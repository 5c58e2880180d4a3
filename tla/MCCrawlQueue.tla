---- MODULE MCCrawlQueue ----
(* Instances of CrawlQueue for TLC. *)
EXTENDS CrawlQueue, TLC

CONSTANT m1

(* The first message names every address, the others none: a message without *)
(* addresses has a job too.                                                  *)
MCUrlsOf(j) == IF j = m1 THEN Urls ELSE {}

Symmetry == Permutations(Contents)
====

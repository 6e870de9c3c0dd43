---------------------------- MODULE MCScheduler -----------------------------
(***************************************************************************)
(* Instances of Scheduler for TLC.  Feeds are interchangeable, and so are  *)
(* crawls: the order of the due query is the sequence due, not the key.    *)
(***************************************************************************)
EXTENDS Scheduler, TLC

KeySymmetry == Permutations(Feeds) \cup Permutations(Crawls)
=============================================================================

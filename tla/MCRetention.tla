---------------------------- MODULE MCRetention -----------------------------
(***************************************************************************)
(* Instances of Retention for TLC: a window of two days, batches of one    *)
(* row.  SetToSeq gives created rows their rids in one order, so           *)
(* identities are not symmetric.                                           *)
(***************************************************************************)
EXTENDS Retention
=============================================================================

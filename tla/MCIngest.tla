------------------------------ MODULE MCIngest -------------------------------
(***************************************************************************)
(* Instances of Ingest for TLC: two endpoints that list items of their     *)
(* own, or endpoints that all list the same.                               *)
(***************************************************************************)
EXTENDS Ingest

CONSTANTS i1, i2

ListsApart == <<{i1}, {i2}>>
ListsShared == [e \in Endpoint |-> Identities]
=============================================================================

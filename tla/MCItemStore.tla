---------------------------- MODULE MCItemStore -----------------------------
(***************************************************************************)
(* Instances of ItemStore for TLC: two items, in feeds that list them in   *)
(* either order and with one or two contents.                              *)
(***************************************************************************)
EXTENDS ItemStore, TLC

CONSTANTS i1, i2, c1, c2

Lists(i, c) == [item |-> i, content |-> c]

\* One item at a time with changing content, and a feed of both.
ChangingBatches == {<<Lists(i1, c1)>>, <<Lists(i1, c2)>>, <<Lists(i2, c1), Lists(i1, c1)>>}

\* Content that never changes, both feed orders.
SteadyBatches == {<<Lists(i1, c1), Lists(i2, c1)>>, <<Lists(i2, c1), Lists(i1, c1)>>}

WriterSymmetry == Permutations(Writers)
=============================================================================

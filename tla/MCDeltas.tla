------------------------------ MODULE MCDeltas ------------------------------
(* Instances of Deltas for TLC. *)
EXTENDS Deltas

CONSTANTS i, j

\* A part with a row that cannot be kept and an item listed twice, one that is longer than
\* any budget, an empty one.
DeltaRows == << <<i, Malformed, j, i>>, <<j, i>>, <<>>, <<i, j, Malformed>> >>
=============================================================================

------------------------------ MODULE MCPolite ------------------------------
(* Instances of Polite for TLC. *)
EXTENDS Polite

CONSTANTS r1, r2, h1, h2

Root == [paths |-> {"a", "b"}, length |-> 1]
Deep == [paths |-> {"b"}, length |-> 2]

\* A delay for us, a path that is closed and one that is not; "unavailable" has no delay.
PoliteTexts == { << Agent("else"), Rule(FALSE, Deep), Agent("ours"), Delay(2), Rule(FALSE, Root), Rule(TRUE, Deep) >> }

PoliteUrls == {[host |-> h1, path |-> "a"], [host |-> h2, path |-> "b"]}
PoliteTargets == {[host |-> h1, path |-> "a"]}
PoliteIntervals == (r1 :> 0) @@ (r2 :> 2)

\* Any of these lines may follow any other.
PoliteLines == {Agent("ours"), Agent("*"), Agent("else"), Rule(FALSE, Root), Rule(TRUE, Root), Rule(FALSE, Deep), Other}
=============================================================================

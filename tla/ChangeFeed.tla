----------------------------- MODULE ChangeFeed -----------------------------
(***************************************************************************)
(* What GET /api/v1/items?after= promises a consumer that copies what it   *)
(* reads and comes back with next_after: every committed change is either  *)
(* in its copy already or still ahead of it.  ItemStore shows that the     *)
(* cursor kept as a change_seq keeps this promise.                         *)
(***************************************************************************)
CONSTANTS
    Items,
    Views,      \* what a page shows of an item
    NoView      \* nothing: the item does not exist yet

VARIABLES
    shown,      \* what a consumer asking now would be shown of each item
    copy,       \* what the consumer has copied
    ahead       \* the items whose newest change is after the consumer's cursor

vars == <<shown, copy, ahead>>

Init ==
    /\ shown = [i \in Items |-> NoView]
    /\ copy = [i \in Items |-> NoView]
    /\ ahead = {}

\* A transaction commits changes of some items: they are ahead of the consumer.
Commit ==
    /\ shown' \in [Items -> Views]
    /\ ahead' \in SUBSET Items
    /\ ahead \subseteq ahead'
    /\ \A i \in Items : shown'[i] # shown[i] => i \in ahead'
    /\ UNCHANGED copy

\* A page: some of what is ahead is copied as it is now.
Deliver(page) ==
    /\ page \subseteq ahead
    /\ copy' = [i \in Items |-> IF i \in page THEN shown[i] ELSE copy[i]]
    /\ ahead' = ahead \ page
    /\ UNCHANGED shown

Next == Commit \/ \E page \in SUBSET Items : Deliver(page)

Spec == Init /\ [][Next]_vars

\* What is not ahead of the consumer is in its copy as it is in the store
\* (README, API: "resume from next_after").
NothingMissed == \A i \in Items : i \notin ahead => copy[i] = shown[i]
=============================================================================

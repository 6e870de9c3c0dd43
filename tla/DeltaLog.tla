------------------------------ MODULE DeltaLog ------------------------------
(***************************************************************************)
(* What reading a delta index promises (adapters/off-delta.js:2-12): the   *)
(* parts are one log that a site adds to and cuts off at the front, and a  *)
(* reader that only goes forward in it has stored what it has left behind. *)
(***************************************************************************)
EXTENDS Integers, Sequences

CONSTANTS
    Ids,        \* the identities that rows state
    LastPart,   \* bound: parts are 1..LastPart, by the end of their time range
    Rows        \* the rows of each part

VARIABLES
    published,  \* the newest part the site has listed
    listed,     \* the parts its index lists
    at,         \* the last row that was left behind
    store       \* the row that each item is of

log == <<published, listed, at, store>>

None == <<0, 0>>
Positions == {None} \cup UNION {{<<n, k>> : k \in 0..Len(Rows[n])} : n \in 1..LastPart}
Before(p, q) == p[1] < q[1] \/ (p[1] = q[1] /\ p[2] < q[2])
RowsOf(parts) == UNION {{<<n, k>> : k \in DOMAIN Rows[n]} : n \in parts}
Unread(parts, p) == {r \in RowsOf(parts) : Before(p, r)}
States(r, i) == Rows[r[1]][r[2]] = i

Init == published = 1 /\ listed = {1} /\ at = None /\ store = [i \in Ids |-> None]

Publish ==
    /\ published < LastPart
    /\ published' = published + 1
    /\ listed' = listed \cup {published + 1}
    /\ UNCHANGED <<at, store>>

\* The index keeps its newest parts only.
Rotate ==
    /\ \E n \in listed : (\A m \in listed : n <= m) /\ n # published /\ listed' = listed \ {n}
    /\ UNCHANGED <<published, at, store>>

\* Rows are taken in order, of all parts but those that the index has dropped; an item
\* becomes what the last of the taken parts that lists it says.
Newest(taken, i) ==
    {r \in taken : States(r, i) /\ \A q \in taken : States(q, i) => q[1] <= r[1]}

Advance ==
    /\ \E to \in Positions : at' = to
    /\ \E readable \in SUBSET (1..published) :
         LET taken == Unread(readable, at) \ Unread(readable, at') IN
         /\ listed \subseteq readable
         /\ Unread(readable, at') \subseteq Unread(readable, at)
         /\ store' \in [Ids -> RowsOf(1..published) \cup {None}]
         /\ \A i \in Ids : IF Newest(taken, i) = {} THEN store'[i] = store[i]
                           ELSE store'[i] \in Newest(taken, i)
    /\ UNCHANGED <<published, listed>>

Spec == Init /\ [][Publish \/ Rotate \/ Advance]_log
=============================================================================

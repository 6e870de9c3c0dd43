----------------------------- MODULE Retention ------------------------------
(***************************************************************************)
(* The daily prune of one category (server/retention.js, started by        *)
(* server/jobs/retention.js), next to the polls, removals and consumers    *)
(* whose rows it deletes (ingest.js, items.js).                            *)
(*                                                                         *)
(* Time is counted in days and only relatively: every row carries the days *)
(* since it was retrieved and since it was removed, no further than one    *)
(* past the category's window, so no clock bounds the behaviours.  A       *)
(* DELETE is two actions: PostgreSQL chooses the rids under the            *)
(* statement's snapshot and then takes the rows one by one, and a poll     *)
(* may commit in between; the rids are not chosen again.                   *)
(*                                                                         *)
(* The source has one endpoint.  Content is left out: a row is created,    *)
(* seen or removed.  Housing's keepLatest rule is left out too, because    *)
(* UNIQUE (source_key, identity) leaves it nothing to delete.              *)
(***************************************************************************)
EXTENDS Integers, Sequences, FiniteSets, SequencesExt

CONSTANTS
    Identities,     \* what the site can list
    Window,         \* RULES[category].days
    RetireAfter,    \* retire_after_sec in days, 0 for null
    BatchSize,      \* BATCH_SIZE, rows of one DELETE
    MaxBatches,     \* MAX_BATCHES of one run
    PullEvery,      \* days a consumer lets pass between two pulls, at most
    Ops             \* what happens in the instance besides polls and prunes

ASSUME ConstantsAssumption ==
    /\ Window \in Nat \ {0} /\ RetireAfter \in Nat /\ PullEvery \in Nat \ {0}
    /\ BatchSize \in Nat \ {0} /\ MaxBatches \in Nat \ {0}
    /\ Ops \subseteq {"takedown", "restart", "dberror"}

\* A board retires after hours or days, its category keeps rows longer.
ASSUME RetireAssumption == RetireAfter <= Window

VARIABLES
    items,          \* items rows of the category, by identity
    order,          \* their identities by rid, oldest first
    body,           \* what the site lists now
    validators,     \* endpoint_state: the body the stored ETag names, if there is one
    job,            \* the prune run of this process
    timer,          \* the job's timer has fired and the run has not begun
    unread,         \* rows whose change_seq is past the consumer's cursor
    copy,           \* the items the consumer keeps and shows
    sincePull,      \* days since the consumer's last pull
    unlisted,       \* observer: days since the site last confirmed an identity
    withdrawn       \* observer: identities that were removed and not created since

vars == <<items, order, body, validators, job, timer, unread, copy, sincePull,
          unlisted, withdrawn>>
consumer == <<copy, sincePull>>

Days == 0..(Window + 1)

ItemRow == [state : {"absent", "live", "removed"}, retrieved : Days, removed : Days]
Job == [pc : {"idle", "choose", "delete"}, left : 0..MaxBatches, rids : SUBSET Identities]

TypeOK ==
    /\ items \in [Identities -> ItemRow]
    /\ IsInjective(order) /\ ToSet(order) = {i \in Identities : items[i].state # "absent"}
    /\ body \subseteq Identities
    /\ validators \subseteq SUBSET Identities /\ Cardinality(validators) <= 1
    /\ job \in Job
    /\ timer \in BOOLEAN
    /\ unread \subseteq ToSet(order)
    /\ copy \subseteq Identities
    /\ sincePull \in 0..PullEvery
    /\ unlisted \in [Identities -> Days]
    /\ withdrawn \subseteq Identities

Absent == [state |-> "absent", retrieved |-> 0, removed |-> 0]
Fresh == [state |-> "live", retrieved |-> 0, removed |-> 0]
Removed(row) == [row EXCEPT !.state = "removed", !.removed = 0]
NoJob == [pc |-> "idle", left |-> 0, rids |-> {}]
Live(table) == {i \in Identities : table[i].state = "live"}
Gone(table) == {i \in Identities : table[i].state = "removed"}

Init ==
    /\ items = [i \in Identities |-> Absent]
    /\ order = <<>>
    /\ body = {}
    /\ validators = {}
    /\ job = NoJob
    /\ timer = FALSE
    /\ unread = {}
    /\ copy = {}
    /\ sincePull = 0
    /\ unlisted = [i \in Identities |-> Window + 1]
    /\ withdrawn = {}

------------------------------------------------------------------------------
(* Polls and removals *)

\* The site lists something else from now on.
Publish(listing) ==
    /\ body' = listing
    /\ UNCHANGED <<items, order, validators, job, timer, unread, consumer, unlisted, withdrawn>>

\* items.ingest: what is listed is created or seen; a removed row is skipped.
Ingested ==
    [i \in Identities |->
        IF i \in body /\ items[i].state # "removed" THEN [items[i] EXCEPT !.state = "live", !.retrieved = 0]
        ELSE items[i]]

\* items.seenAgain, for sources that retire: the live rows of the newest ok run.
SeenAgainNever ==       \* mutant: a 304 refreshes nothing
    items
SeenAgain ==
    [i \in Identities |->
        IF RetireAfter > 0 /\ i \in UNION validators /\ items[i].state = "live"
        THEN [items[i] EXCEPT !.retrieved = 0]
        ELSE items[i]]

\* items.retireUnseen on the rows the run has left.
Retired(table) ==
    [i \in Identities |->
        IF RetireAfter > 0 /\ table[i].state = "live" /\ table[i].retrieved > RetireAfter
        THEN Removed(table[i])
        ELSE table[i]]

\* The listed identities that have no row yet (UNIQUE (source_key, identity)).
Created(seen) == Live(seen) \ ToSet(order)

\* What a run that ended well leaves: its rows, and their place in the change feed.
RunEnds(seen) ==
    LET created == Created(seen)
        retired == Gone(Retired(seen)) \ Gone(seen)
    IN
    /\ items' = Retired(seen)
    /\ order' = order \o SetToSeq(created)
    /\ unread' = unread \cup created \cup retired
    /\ unlisted' = [i \in Identities |-> IF i \in body THEN 0 ELSE unlisted[i]]
    /\ withdrawn' = (withdrawn \ created) \cup retired

\* A 200 that parses, with or without an ETag to store.
Ok(etag) ==
    /\ RunEnds(Ingested)
    /\ validators' = IF etag THEN {body} ELSE {}
    /\ UNCHANGED <<body, job, timer, consumer>>

\* A 304: the site lists what it listed when the ETag was stored.
NotModified ==
    /\ validators = {body}
    /\ RunEnds(SeenAgain)
    /\ UNCHANGED <<body, validators, job, timer, consumer>>

\* DELETE /items/:id with a reason.
Takedown(i) ==
    /\ "takedown" \in Ops
    /\ items[i].state = "live"
    /\ items' = [items EXCEPT ![i] = Removed(@)]
    /\ unread' = unread \cup {i}
    /\ withdrawn' = withdrawn \cup {i}
    /\ UNCHANGED <<order, body, validators, job, timer, consumer, unlisted>>

------------------------------------------------------------------------------
(* The prune *)

OlderByFetch(row) ==    \* mutant: a removed row ages from its last fetch
    row.state # "absent" /\ row.retrieved > Window
Older(row) ==
    \/ row.state = "live" /\ row.retrieved > Window
    \/ row.state = "removed" /\ row.removed > Window

\* The timer's run begins; a run in progress is shared, so there is never a second.
StartJob ==
    /\ timer
    /\ job.pc = "idle"
    /\ timer' = FALSE
    /\ job' = [pc |-> "choose", left |-> MaxBatches, rids |-> {}]
    /\ UNCHANGED <<items, order, body, validators, unread, consumer, unlisted, withdrawn>>

CandidatesLive ==        \* mutant: removed rows are never chosen
    {i \in ToSet(order) : items[i].state = "live" /\ Older(items[i])}

\* SELECT rid ... ORDER BY rid LIMIT batchSize: of the rows past their window, the first by rid.
OldRows == {i \in Identities : Older(items[i])}
Before(i, j) == \E m, n \in DOMAIN order : order[m] = i /\ order[n] = j /\ m < n
Candidates == {i \in OldRows : Cardinality({j \in OldRows : Before(j, i)}) < BatchSize}

Choose ==
    /\ job.pc = "choose"
    /\ job' = [job EXCEPT !.pc = "delete", !.rids = Candidates]
    /\ UNCHANGED <<items, order, body, validators, timer, unread, consumer, unlisted, withdrawn>>

\* A full batch may leave more behind, up to MaxBatches of them.
AfterBatch ==
    IF Cardinality(job.rids) < BatchSize \/ job.left = 1
    THEN NoJob
    ELSE [pc |-> "choose", left |-> job.left - 1, rids |-> {}]

\* DELETE ... RETURNING id, then the revisions, in one transaction.
Delete ==
    /\ job.pc = "delete"
    /\ items' = [i \in Identities |-> IF i \in job.rids THEN Absent ELSE items[i]]
    /\ order' = SelectSeq(order, LAMBDA i : i \notin job.rids)
    /\ unread' = unread \ job.rids
    /\ job' = AfterBatch
    /\ UNCHANGED <<body, validators, timer, consumer, unlisted, withdrawn>>

\* A failed run is logged; the rest waits for the next timer.
JobFails ==
    /\ "dberror" \in Ops
    /\ job.pc # "idle"
    /\ job' = NoJob
    /\ UNCHANGED <<items, order, body, validators, timer, unread, consumer, unlisted, withdrawn>>

\* A new process: the first run comes five minutes after boot.
Restart ==
    /\ "restart" \in Ops
    /\ job' = NoJob
    /\ timer' = TRUE
    /\ UNCHANGED <<items, order, body, validators, unread, consumer, unlisted, withdrawn>>

------------------------------------------------------------------------------
(* The consumer and time *)

\* GET /items?include_removed=1 from the cursor on, all its pages (paging is ItemStore's).
Pull ==
    /\ copy' = (copy \cup (unread \cap Live(items))) \ (unread \cap Gone(items))
    /\ unread' = {}
    /\ sincePull' = 0
    /\ UNCHANGED <<items, order, body, validators, job, timer, unlisted, withdrawn>>

Later(d) == IF d > Window THEN d ELSE d + 1

\* A day passes.  A prune takes minutes, and a consumer pulls every PullEvery days.
Tick ==
    /\ job.pc = "idle"
    /\ sincePull < PullEvery
    /\ sincePull' = sincePull + 1
    /\ items' = [i \in Identities |->
           CASE items[i].state = "absent" -> Absent
             [] items[i].state = "live" -> [items[i] EXCEPT !.retrieved = Later(@)]
             [] OTHER -> [items[i] EXCEPT !.retrieved = Later(@), !.removed = Later(@)]]
    /\ unlisted' = [i \in Identities |-> Later(unlisted[i])]
    /\ timer' = TRUE
    /\ UNCHANGED <<order, body, validators, job, unread, copy, withdrawn>>

------------------------------------------------------------------------------

Site == \E listing \in SUBSET Identities : Publish(listing)
Poll == NotModified \/ \E etag \in BOOLEAN : Ok(etag)
Batch == Choose \/ Delete
Prune == StartJob \/ Batch \/ JobFails

Next == Site \/ Poll \/ (\E i \in Identities : Takedown(i)) \/ Prune \/ Restart \/ Pull \/ Tick

Spec == Init /\ [][Next]_vars

\* Days pass, the consumer pulls, the timer's run begins, and the database does
\* not fail every night.
FairSpec == Spec /\ WF_vars(Tick) /\ WF_vars(Pull) /\ SF_vars(StartJob) /\ SF_vars(Choose) /\ SF_vars(Delete)

------------------------------------------------------------------------------
(* Properties *)

\* What a batch chooses and is still live, the site has not confirmed for the
\* whole window, neither by listing it nor by a 304 (retention.js:8-11, 81-86
\* with items.js:253-257), when the source retires.
ChoosesOnlyUnlisted ==
    [][Choose => \A i \in job'.rids : items[i].state = "live" => unlisted[i] > Window]_vars

\* What a batch chooses and is removed, a consumer that pulls at least once in a
\* window has read as removed (retention.js:8-10: the window after the removal "is
\* what lets a consumer that was down catch up").
ChoosesOnlyRead ==
    [][Choose => \A i \in job'.rids : items[i].state = "removed" => i \notin unread]_vars

\* Such a consumer is never left with an item that was removed: as long as it shows
\* one, the removal is ahead of its cursor (the same lines, for the DELETE itself).
RemovalReachesConsumer ==
    \A i \in copy \cap withdrawn : i \in unread /\ items[i].state = "removed"

\* The backlog clears: a row past its window does not stay so for ever, however
\* small the batches and with runs that fail or are cut off (retention.js:61-62,
\* jobs/retention.js:5-7).
BacklogClears == \A i \in Identities : Older(items[i]) ~> ~Older(items[i])

\* No prune deletes a live row whose identity the site confirmed within the window
\* (README: "since a source that keeps listing a job or a price keeps it current").
DeletesOnlyUnlisted ==
    [][Delete => \A i \in job.rids : items[i].state = "live" => unlisted[i] > Window]_vars

\* Removal is sticky: what was removed is not live again (items.js:10-11).
StaysRemoved == [][\A i \in withdrawn : items'[i].state # "live"]_vars

\* A 304 leaves nothing out: what the body of the stored validators lists is in the table
\* (ingest.js:16-18).
NotModifiedBacked == \A i \in UNION validators : items[i].state # "absent"
=============================================================================

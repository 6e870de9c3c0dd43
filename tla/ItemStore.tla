----------------------------- MODULE ItemStore ------------------------------
(***************************************************************************)
(* The items of one source and the transactions that write them            *)
(* (server/items.js over db.js), statement by statement.  Transactions run *)
(* under READ COMMITTED: a statement sees what was committed when it       *)
(* starts, waits for a row another transaction has written, and then works *)
(* on that row's new version.  Two rows matter: the item's and the counter *)
(* row nextSeq() increments, which stays locked until the commit.          *)
(*                                                                         *)
(* A fetch is one batch of items in one transaction; a manual entry is a   *)
(* batch of one; takedown, retirement and a crawled page that is gone      *)
(* remove rows they have read.  A revision row, an item event and (for a   *)
(* source visible in Search) an index event are written together, so they  *)
(* are one entry of the item's history; the event type says what Search    *)
(* does: created and updated upsert the document, removed deletes it.      *)
(***************************************************************************)
EXTENDS Integers, Sequences, FiniteSets

CONSTANTS
    Items,          \* identities of the source
    Contents,       \* content hashes
    NoContent,
    Writers,        \* database connections
    Batches,        \* what a fetch or a manual entry can list: sequences of entries
    Ops,            \* which transactions this instance has
    PageSize,       \* limit of GET /api/v1/items
    MaxSeq          \* bound: no transaction opens once the counter is here

Entry == [item : Items, content : Contents]

ASSUME StoreAssumption ==
    /\ IsFiniteSet(Items)
    /\ NoContent \notin Contents
    /\ Batches \subseteq Seq(Entry)
    /\ Ops \subseteq {"ingest", "takedown", "retire"}
    /\ PageSize \in Nat \ {0}
    /\ MaxSeq \in Nat

VARIABLES
    rows,           \* committed items rows
    counter,        \* committed value of counters('items')
    history,        \* committed item_revisions and outbox rows, by item
    tx,             \* the transaction of each connection
    cursor,         \* the consumer's next_after
    copy            \* what the consumer copied

vars == <<rows, counter, history, tx, cursor, copy>>
store == <<rows, counter, history>>
consumer == <<cursor, copy>>

Row == [state : {"absent", "live", "removed"}, content : Contents \cup {NoContent},
        revision : Nat, seq : Nat]
NoRow == [state |-> "absent", content |-> NoContent, revision |-> 0, seq |-> 0]
Change == [type : {"created", "updated", "removed"}, revision : Nat \ {0}, content : Contents]
Work == [op : {"ingest", "remove"}, item : Items, content : Contents \cup {NoContent}]

\* One transaction: what is left to do, the write in hand, and what it wrote so far.
Tx == [pc : {"idle", "next", "seq", "write"}, work : Seq(Work),
       todo : {"insert", "update", "seen", "remove"}, seq : Nat, locks : SUBSET Items,
       mine : [Items -> Row], out : [Items -> Seq(Change)]]
NoTx == [pc |-> "idle", work |-> <<>>, todo |-> "seen", seq |-> 0, locks |-> {},
         mine |-> [i \in Items |-> NoRow], out |-> [i \in Items |-> <<>>]]

\* What a page shows of a row.
Shown(row) == [state |-> row.state, content |-> row.content, revision |-> row.revision]
View == [state : {"absent", "live", "removed"}, content : Contents \cup {NoContent}, revision : Nat]

TypeOK ==
    /\ rows \in [Items -> Row]
    /\ counter \in Nat
    /\ history \in [Items -> Seq(Change)]
    /\ tx \in [Writers -> Tx]
    /\ cursor \in Nat
    /\ copy \in [Items -> View]

Init ==
    /\ rows = [i \in Items |-> NoRow]
    /\ counter = 0
    /\ history = [i \in Items |-> <<>>]
    /\ tx = [w \in Writers |-> NoTx]
    /\ cursor = 0
    /\ copy = [i \in Items |-> Shown(NoRow)]

------------------------------------------------------------------------------
(* Opening a transaction *)

Open(w, work) ==
    /\ tx[w].pc = "idle"
    /\ counter < MaxSeq
    /\ tx' = [tx EXCEPT ![w] = [NoTx EXCEPT !.pc = "next", !.work = work]]
    /\ UNCHANGED <<store, consumer>>

\* items.ingest: a fetch's items in the order the adapter lists them, or one manual item.
Ingest(w, batch) ==
    /\ "ingest" \in Ops
    /\ Open(w, [n \in DOMAIN batch |->
                  [op |-> "ingest", item |-> batch[n].item, content |-> batch[n].content]])

Removal(i) == [op |-> "remove", item |-> i, content |-> NoContent]

\* items.remove: the row is read first; one already removed is answered as it is.
Takedown(w, i) ==
    /\ "takedown" \in Ops
    /\ rows[i].state = "live"
    /\ Open(w, <<Removal(i)>>)

\* retireUnseen and retireRun: some live rows, read at once, removed one after the other.
Retire(w, order) ==
    /\ "retire" \in Ops
    /\ \A n \in DOMAIN order : rows[order[n]].state = "live"
    /\ Open(w, [n \in DOMAIN order |-> Removal(order[n])])

------------------------------------------------------------------------------
(* Inside a transaction *)

\* A transaction sees its own writes.
Seen(w, i) == IF i \in tx[w].locks THEN tx[w].mine[i] ELSE rows[i]

Doing(w) == Head(tx[w].work)

\* mutant: a removed item is not passed over but left at the head of the list
SkipRemovedStuck(w) ==
    /\ Doing(w).op = "ingest"
    /\ Seen(w, Doing(w).item).state = "removed"
    /\ UNCHANGED tx

SkipRemoved(w) ==
    /\ Doing(w).op = "ingest"
    /\ Seen(w, Doing(w).item).state = "removed"
    /\ tx' = [tx EXCEPT ![w] = [@ EXCEPT !.work = Tail(tx[w].work)]]

\* A row that does not exist, one with another content, and one to remove take a number.
NeedsSeq(w, todo) ==
    LET row == Seen(w, Doing(w).item) IN
    \/ todo = "insert" /\ Doing(w).op = "ingest" /\ row.state = "absent"
    \/ todo = "update" /\ Doing(w).op = "ingest" /\ row.state = "live" /\ row.content # Doing(w).content
    \/ todo = "remove" /\ Doing(w).op = "remove"

\* byIdentity: a plain SELECT, no lock; what to do is decided here and done later.
LookUp(w) ==
    /\ tx[w].pc = "next"
    /\ tx[w].work # <<>>
    /\ \/ SkipRemoved(w)
       \/ \E todo \in {"insert", "update", "remove"} :
             /\ NeedsSeq(w, todo)
             /\ tx' = [tx EXCEPT ![w] = [@ EXCEPT !.pc = "seq", !.todo = todo]]
       \/ /\ Doing(w).op = "ingest"
          /\ Seen(w, Doing(w).item).state = "live"
          /\ Seen(w, Doing(w).item).content = Doing(w).content
          /\ tx' = [tx EXCEPT ![w] = [@ EXCEPT !.pc = "write", !.todo = "seen"]]
    /\ UNCHANGED <<store, consumer>>

CounterUnlocked(w) == TRUE      \* mutant: the counter row is read without a lock
CounterFree(w) == \A u \in Writers \ {w} : tx[u].seq = 0

\* The upsert of the counters row: waits for the transaction that incremented it last.
NextSeq(w) ==
    /\ tx[w].pc = "seq"
    /\ CounterFree(w)
    /\ tx' = [tx EXCEPT ![w] = [@ EXCEPT
                 !.pc = "write", !.seq = (IF tx[w].seq = 0 THEN counter ELSE tx[w].seq) + 1]]
    /\ UNCHANGED <<store, consumer>>

RowFree(w, i) == \A u \in Writers \ {w} : i \notin tx[u].locks

\* mutant: an update keeps the row's old change_seq
WrittenSilent(row, w) ==
    CASE tx[w].todo = "insert" ->
            [state |-> "live", content |-> Doing(w).content, revision |-> 1, seq |-> tx[w].seq]
      [] tx[w].todo = "update" ->
            [row EXCEPT !.content = Doing(w).content, !.revision = row.revision + 1]
      [] tx[w].todo = "remove" ->
            [row EXCEPT !.state = "removed", !.revision = row.revision + 1, !.seq = tx[w].seq]
      [] tx[w].todo = "seen" -> row

\* The row after the write in hand, from the version the statement found.
Written(row, w) ==
    CASE tx[w].todo = "insert" ->
            [state |-> "live", content |-> Doing(w).content, revision |-> 1, seq |-> tx[w].seq]
      [] tx[w].todo = "update" ->
            [row EXCEPT !.content = Doing(w).content, !.revision = row.revision + 1, !.seq = tx[w].seq]
      [] tx[w].todo = "remove" ->
            [row EXCEPT !.state = "removed", !.revision = row.revision + 1, !.seq = tx[w].seq]
      [] tx[w].todo = "seen" -> row

EventType(todo) ==
    CASE todo = "insert" -> "created" [] todo = "update" -> "updated" [] todo = "remove" -> "removed"

\* The revision row and the events of a write; seeing an item again has none.
Recorded(out, row, todo) ==
    IF todo = "seen" THEN out
    ELSE Append(out, [type |-> EventType(todo), revision |-> row.revision, content |-> row.content])

\* INSERT or UPDATE: waits for the row, then writes it and what goes with it.
Write(w) ==
    LET t == tx[w]
        i == Doing(w).item
        row == Written(Seen(w, i), w)
    IN
    /\ tx[w].pc = "write"
    /\ RowFree(w, i)
    /\ tx[w].todo = "insert" => Seen(w, i).state = "absent"
    /\ tx' = [tx EXCEPT ![w] = [t EXCEPT
                 !.pc = "next", !.work = Tail(t.work), !.locks = t.locks \cup {i},
                 !.mine = [t.mine EXCEPT ![i] = row],
                 !.out = [t.out EXCEPT ![i] = Recorded(t.out[i], row, t.todo)]]]
    /\ UNCHANGED <<store, consumer>>

------------------------------------------------------------------------------
(* Ending a transaction *)

Close(w) == tx' = [tx EXCEPT ![w] = NoTx]

Commit(w) ==
    /\ tx[w].pc = "next"
    /\ tx[w].work = <<>>
    /\ rows' = [i \in Items |-> Seen(w, i)]
    /\ counter' = IF tx[w].seq = 0 THEN counter ELSE tx[w].seq
    /\ history' = [i \in Items |-> history[i] \o tx[w].out[i]]
    /\ Close(w)
    /\ UNCHANGED consumer

RolledBackSent(w) ==        \* mutant: events are published as they are emitted
    /\ Close(w)
    /\ history' = [i \in Items |-> history[i] \o tx[w].out[i]]
    /\ UNCHANGED <<rows, counter, consumer>>
RolledBack(w) == Close(w) /\ UNCHANGED <<store, consumer>>

\* The identity was inserted by another transaction meanwhile: UNIQUE (source_key, identity).
UniqueViolation(w) ==
    /\ tx[w].pc = "write"
    /\ tx[w].todo = "insert"
    /\ RowFree(w, Doing(w).item)
    /\ Seen(w, Doing(w).item).state # "absent"
    /\ RolledBack(w)

\* The transaction w waits for.
WaitsFor(w, u) ==
    /\ u # w
    /\ \/ tx[w].pc = "seq" /\ tx[u].seq # 0
       \/ tx[w].pc = "write" /\ Doing(w).item \in tx[u].locks

\* PostgreSQL ends one of the transactions that wait for each other.
DeadlockVictim(w) ==
    /\ \E cycle \in SUBSET Writers :
          /\ w \in cycle
          /\ \A u \in cycle : \E v \in cycle : WaitsFor(u, v)
          /\ \A u \in cycle : \E v \in cycle : WaitsFor(v, u)
    /\ RolledBack(w)

\* An error inside the transaction, a lost connection, a restart of the service.
Fail(w) ==
    /\ tx[w].pc # "idle"
    /\ RolledBack(w)

------------------------------------------------------------------------------
(* The consumer of the change feed *)

Changed == {i \in Items : rows[i].seq > cursor}

\* One page with include_removed=1: the lowest change_seqs after the cursor.
Poll(page) ==
    /\ page # {}
    /\ page \subseteq Changed
    /\ Cardinality(page) <= PageSize
    /\ Cardinality(page) < PageSize => page = Changed
    /\ \A i \in page, j \in Changed \ page : rows[i].seq < rows[j].seq
    /\ cursor' \in {rows[i].seq : i \in page}
    /\ \A i \in page : rows[i].seq <= cursor'
    /\ copy' = [i \in Items |-> IF i \in page THEN Shown(rows[i]) ELSE copy[i]]
    /\ UNCHANGED <<store, tx>>

------------------------------------------------------------------------------

Orders == UNION {[1..n -> Items] : n \in 1..Cardinality(Items)}
Distinct(order) == \A m, n \in DOMAIN order : order[m] = order[n] => m = n

Opens(w) ==
    \/ \E batch \in Batches : Ingest(w, batch)
    \/ \E i \in Items : Takedown(w, i)
    \/ \E order \in Orders : Distinct(order) /\ Retire(w, order)

Ends(w) == Commit(w) \/ UniqueViolation(w) \/ DeadlockVictim(w) \/ Fail(w)

Next ==
    \/ \E w \in Writers : Opens(w) \/ LookUp(w) \/ NextSeq(w) \/ Write(w) \/ Ends(w)
    \/ \E page \in SUBSET Items : Poll(page)

Spec == Init /\ [][Next]_vars

\* Statements end; PostgreSQL grants a lock to its waiters in order and breaks
\* deadlocks.  Failing and opening are nobody's duty.
FairSpec ==
    /\ Spec
    /\ \A w \in Writers :
          /\ WF_vars(LookUp(w) \/ Commit(w))
          /\ SF_vars(NextSeq(w))
          /\ SF_vars(Write(w) \/ UniqueViolation(w))
    /\ WF_vars(\E w \in Writers : DeadlockVictim(w))

------------------------------------------------------------------------------
(* Properties *)

\* A consumer that follows next_after has, of every item whose newest change is
\* not after its cursor, exactly what the store has: no transaction commits a
\* change_seq behind a consumer that has been there already (items.js:273-282,
\* db.js:33-35).
ConsumerInStep == \A i \in Items : rows[i].seq <= cursor => copy[i] = Shown(rows[i])

\* The change feed of module ChangeFeed, with the change_seq cursor as the line
\* between what is copied and what is ahead.
Feed == INSTANCE ChangeFeed WITH
            Views <- View, NoView <- Shown(NoRow),
            shown <- [i \in Items |-> Shown(rows[i])], ahead <- Changed
FeedSpec == Feed!Spec

\* Every revision of an item left exactly one revision row and one event, in
\* revision order, and the newest one describes the row - also when transactions
\* overlap or roll back (items.js:177-191, 201-208).
HistoryComplete ==
    \A i \in Items :
        /\ Len(history[i]) = rows[i].revision
        /\ \A n \in DOMAIN history[i] : history[i][n].revision = n
        /\ history[i] # <<>> => history[i][Len(history[i])].content = rows[i].content

\* Search holds the document of an item whose newest event is not a removal.
Indexed(i) == history[i] # <<>> /\ history[i][Len(history[i])].type # "removed"

\* A removed item is out of Search for good: nothing a fetch does brings it back
\* (items.js:10-11).
RemovedStaysOut == \A i \in Items : rows[i].state = "removed" => ~Indexed(i)

\* Every transaction ends, so nobody waits for the counter or a row forever
\* (the loop at items.js:172, the row locks below it).
TxEnds == \A w \in Writers : tx[w].pc # "idle" ~> tx[w].pc = "idle"
=============================================================================

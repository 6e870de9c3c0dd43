-------------------------- MODULE ItemStoreProofs ---------------------------
(***************************************************************************)
(* Proofs about ItemStore: for any number of items, contents, connections  *)
(* and batches and any page size, a consumer of the change feed misses     *)
(* nothing (the feed implements ChangeFeed) and the history of an item is  *)
(* complete and in order, however transactions overlap, wait or roll back. *)
(***************************************************************************)
EXTENDS ItemStore, FiniteSetTheorems, SequenceTheorems, TLAPS

------------------------------------------------------------------------------
(* The invariant *)

\* A row that exists has a content; one that does not has had no revision.
RowSound(row) == IF row.state = "absent" THEN row.revision = 0 ELSE row.content \in Contents

\* What is behind the counter: every committed number, and the consumer's cursor.
Committed ==
    /\ counter \in Nat
    /\ cursor \in Nat /\ cursor <= counter
    /\ rows \in [Items -> Row]
    /\ \A i \in Items : RowSound(rows[i]) /\ rows[i].seq <= counter

\* What transaction t sees of an item.
SeenBy(t, i) == IF i \in t.locks THEN t.mine[i] ELSE rows[i]

\* What is left to do: a row to remove exists, and a row once found is not lost.
WorkSound(t) ==
    /\ \A n \in DOMAIN t.work :
          IF t.work[n].op = "ingest" THEN t.work[n].content \in Contents
                                     ELSE SeenBy(t, t.work[n].item).state # "absent"
    /\ t.pc \in {"seq", "write"} =>
          /\ t.work # <<>>
          /\ t.todo = "remove" <=> Head(t.work).op = "remove"
          /\ t.todo # "insert" => SeenBy(t, Head(t.work).item).state # "absent"
    /\ t.pc = "write" /\ t.todo # "seen" => t.seq # 0

\* What a transaction wrote: its revisions follow on from the committed row's, and
\* a row it changed has a number nobody has seen yet.
WroteSound(t, i) ==
    IF i \in t.locks
    THEN /\ t.mine[i].state # "absent"
         /\ RowSound(t.mine[i])
         /\ t.mine[i].revision = rows[i].revision + Len(t.out[i])
         /\ \A n \in DOMAIN t.out[i] : t.out[i][n].revision = rows[i].revision + n
         /\ t.out[i] = <<>> => t.mine[i] = rows[i]
         /\ t.out[i] # <<>> =>
               /\ t.out[i][Len(t.out[i])].content = t.mine[i].content
               /\ counter < t.mine[i].seq /\ t.mine[i].seq <= t.seq
    ELSE t.out[i] = <<>>

TxSound(t) ==
    /\ t \in Tx
    /\ WorkSound(t)
    /\ \A i \in Items : WroteSound(t, i)
    /\ t.seq = 0 \/ counter < t.seq

\* The counter row and an item's row are each one transaction's at a time.
Apart(t, u) == t.locks \cap u.locks = {} /\ (t.seq = 0 \/ u.seq = 0)

StoreInv ==
    /\ Committed
    /\ tx \in [Writers -> Tx]
    /\ \A w \in Writers : TxSound(tx[w])
    /\ \A w, u \in Writers : w # u => Apart(tx[w], tx[u])

------------------------------------------------------------------------------
(* Steps of one transaction *)

\* A step that changes one transaction and commits nothing.
LEMMA OneChanges ==
    ASSUME StoreInv, NEW w \in Writers, NEW t, TxSound(t), tx' = [tx EXCEPT ![w] = t],
           \A u \in Writers \ {w} : Apart(t, tx[u]),
           UNCHANGED store, UNCHANGED cursor
    PROVE  StoreInv'
<1>1. t \in Tx
  BY DEF TxSound
<1>2. Committed' /\ tx' \in [Writers -> Tx]
  BY <1>1 DEF StoreInv, Committed, RowSound, store
<1>3. \A u \in Writers : tx'[u] = IF u = w THEN t ELSE tx[u]
  BY DEF StoreInv
<1>4. ASSUME NEW u \in Writers PROVE TxSound(tx[u])' 
  <2> DEFINE s == tx'[u]
  <2>1. TxSound(s)
    BY <1>3 DEF StoreInv
  <2> QED
    BY <2>1 DEF TxSound, WorkSound, SeenBy, WroteSound, RowSound, store
<1>5. ASSUME NEW u \in Writers, NEW v \in Writers, u # v PROVE Apart(tx[u], tx[v])'
  BY <1>3, <1>5 DEF StoreInv, Apart
<1> QED
  BY <1>2, <1>4, <1>5 DEF StoreInv

LEMMA NothingWritten ==
    ASSUME StoreInv
    PROVE  NoTx \in Tx /\ TxSound(NoTx) /\ \A u : NoTx.seq = 0 /\ NoTx.locks = {}
<1>1. NoRow \in Row
  BY DEF NoRow, Row
<1>2. NoTx \in Tx
  BY <1>1 DEF NoTx, Tx
<1> QED
  BY <1>2 DEF TxSound, NoTx, WorkSound, WroteSound

LEMMA WriterStep ==
    ASSUME StoreInv, NEW w \in Writers
    PROVE  /\ tx[w] \in Tx /\ TxSound(tx[w])
           /\ \A u \in Writers \ {w} : Apart(tx[w], tx[u])
BY DEF StoreInv

\* Opening: the list is what ingest is given, or rows read and found live.
LEMMA OpenStep ==
    ASSUME StoreInv, NEW w \in Writers, NEW work \in Seq(Work), Open(w, work),
           \A n \in DOMAIN work : IF work[n].op = "ingest" THEN work[n].content \in Contents
                                                          ELSE rows[work[n].item].state # "absent"
    PROVE  StoreInv'
<1> DEFINE t == [NoTx EXCEPT !.pc = "next", !.work = work]
<1>1. t \in Tx /\ t.locks = {} /\ t.seq = 0
  BY NothingWritten DEF Tx, NoTx
<1>2. t.work = work /\ t.pc = "next" /\ \A i \in Items : t.out[i] = <<>>
  BY NothingWritten DEF Tx, NoTx
<1>3. TxSound(t)
  <2>1. WorkSound(t)
    BY <1>1, <1>2 DEF WorkSound, SeenBy
  <2>2. \A i \in Items : WroteSound(t, i)
    BY <1>1, <1>2 DEF WroteSound
  <2> QED
    BY <1>1, <2>1, <2>2 DEF TxSound
<1>4. \A u \in Writers \ {w} : Apart(t, tx[u])
  BY <1>1 DEF Apart
<1> QED
  BY <1>3, <1>4, OneChanges DEF Open, consumer

LEMMA OpensStep ==
    ASSUME StoreInv, NEW w \in Writers, Opens(w)
    PROVE  StoreInv'
<1>1. ASSUME NEW batch \in Batches, Ingest(w, batch) PROVE StoreInv'
  <2> DEFINE work == [n \in DOMAIN batch |->
                        [op |-> "ingest", item |-> batch[n].item, content |-> batch[n].content]]
  <2>1. PICK m \in Nat : batch \in [1..m -> Entry]
    BY StoreAssumption, SeqDef
  <2>2. work \in Seq(Work) /\ \A n \in DOMAIN work : work[n].op = "ingest" /\ work[n].content \in Contents
    BY <2>1 DEF Entry, Work
  <2> QED
    BY <1>1, <2>2, OpenStep DEF Ingest
<1>2. ASSUME NEW i \in Items, Takedown(w, i) PROVE StoreInv'
  <2> DEFINE work == <<Removal(i)>>
  <2>1. work \in Seq(Work) /\ \A n \in DOMAIN work : work[n].op = "remove" /\ work[n].item = i
    BY DEF Removal, Work
  <2>2. rows[i].state # "absent" /\ Open(w, work)
    BY <1>2 DEF Takedown
  <2> HIDE DEF work
  <2> QED
    BY <2>1, <2>2, OpenStep
<1>3. ASSUME NEW order \in Orders, Retire(w, order) PROVE StoreInv'
  <2> DEFINE work == [n \in DOMAIN order |-> Removal(order[n])]
  <2>1. PICK m \in Nat : order \in [1..m -> Items]
    BY StoreAssumption, FS_CardinalityType DEF Orders
  <2>2. work \in Seq(Work) /\ \A n \in DOMAIN work : work[n].op = "remove" /\ work[n].item = order[n]
    BY <2>1 DEF Removal, Work
  <2> QED
    BY <1>3, <2>1, <2>2, OpenStep DEF Retire
<1> QED
  BY <1>1, <1>2, <1>3 DEF Opens

------------------------------------------------------------------------------
(* Inside a transaction *)

\* Deciding what to do changes no row: the list is as long as it was, or one shorter.
LEMMA LookUpStep ==
    ASSUME StoreInv, NEW w \in Writers, LookUp(w)
    PROVE  StoreInv'
<1> DEFINE t == tx[w]
<1>1. t \in Tx /\ TxSound(t) /\ \A u \in Writers \ {w} : Apart(t, tx[u])
  BY WriterStep
<1>2. t.work # <<>> /\ t.work \in Seq(Work) /\ Head(t.work) = t.work[1] /\ 1 \in DOMAIN t.work
  BY <1>1 DEF LookUp, Tx
<1>3. CASE SkipRemoved(w)
  <2> DEFINE s == [t EXCEPT !.work = Tail(t.work)]
  <2>1. s \in Tx /\ s.work = Tail(t.work) /\ s.pc = "next"
    <3>1. Tail(t.work) \in Seq(Work)
      BY <1>2
    <3> QED
      BY <1>1, <3>1 DEF Tx, LookUp
  <2>2. WorkSound(s)
    BY <1>1, <1>2, <2>1 DEF TxSound, WorkSound, SeenBy, Tx
  <2>3. TxSound(s)
    BY <1>1, <2>1, <2>2 DEF TxSound, WroteSound, Tx
  <2>4. \A u \in Writers \ {w} : Apart(s, tx[u])
    BY <1>1 DEF Apart, Tx
  <2>5. tx' = [tx EXCEPT ![w] = s]
    BY <1>3 DEF SkipRemoved
  <2> QED
    BY <2>3, <2>4, <2>5, OneChanges DEF LookUp, consumer
<1>4. ASSUME NEW todo \in {"insert", "update", "remove"}, NeedsSeq(w, todo),
             tx' = [tx EXCEPT ![w] = [t EXCEPT !.pc = "seq", !.todo = todo]]
      PROVE  StoreInv'
  <2> DEFINE s == [t EXCEPT !.pc = "seq", !.todo = todo]
  <2>1. s \in Tx /\ s.work = t.work /\ s.pc = "seq" /\ s.todo = todo
    BY <1>1 DEF Tx
  <2>2. WorkSound(s)
    BY <1>1, <1>2, <1>4, <2>1 DEF TxSound, WorkSound, SeenBy, Seen, NeedsSeq, Doing, Tx
  <2>3. TxSound(s)
    BY <1>1, <2>1, <2>2 DEF TxSound, WroteSound, Tx
  <2>4. \A u \in Writers \ {w} : Apart(s, tx[u])
    BY <1>1 DEF Apart, Tx
  <2> QED
    BY <1>4, <2>3, <2>4, OneChanges DEF LookUp, consumer
<1>5. ASSUME Doing(w).op = "ingest", Seen(w, Doing(w).item).state = "live",
             tx' = [tx EXCEPT ![w] = [t EXCEPT !.pc = "write", !.todo = "seen"]]
      PROVE  StoreInv'
  <2> DEFINE s == [t EXCEPT !.pc = "write", !.todo = "seen"]
  <2>1. s \in Tx /\ s.work = t.work /\ s.pc = "write" /\ s.todo = "seen"
    BY <1>1 DEF Tx
  <2>2. WorkSound(s)
    BY <1>1, <1>2, <1>5, <2>1 DEF TxSound, WorkSound, SeenBy, Seen, Doing, Tx
  <2>3. TxSound(s)
    BY <1>1, <2>1, <2>2 DEF TxSound, WroteSound, Tx
  <2>4. \A u \in Writers \ {w} : Apart(s, tx[u])
    BY <1>1 DEF Apart, Tx
  <2> QED
    BY <1>5, <2>3, <2>4, OneChanges DEF LookUp, consumer
<1> QED
  BY <1>3, <1>4, <1>5 DEF LookUp

\* The counter row is free, so the number is this transaction's alone.
LEMMA NextSeqStep ==
    ASSUME StoreInv, NEW w \in Writers, NextSeq(w)
    PROVE  StoreInv'
<1> DEFINE t == tx[w]
           n == (IF t.seq = 0 THEN counter ELSE t.seq) + 1
           s == [t EXCEPT !.pc = "write", !.seq = n]
<1>1. t \in Tx /\ TxSound(t) /\ \A u \in Writers \ {w} : Apart(t, tx[u])
  BY WriterStep
<1>2. n \in Nat /\ n > counter /\ n > t.seq /\ n # 0
  BY <1>1 DEF TxSound, Tx, StoreInv, Committed
<1>3. s \in Tx /\ s.work = t.work /\ s.pc = "write" /\ s.seq = n /\ s.todo = t.todo
  BY <1>1, <1>2 DEF Tx
<1>4. WorkSound(s)
  BY <1>1, <1>2, <1>3 DEF TxSound, WorkSound, SeenBy, Tx, NextSeq
<1>5. ASSUME NEW i \in Items PROVE WroteSound(s, i)
  <2>1. t.mine[i] \in Row
    BY <1>1 DEF Tx
  <2> QED
    BY <1>1, <1>2, <1>3, <2>1 DEF TxSound, WroteSound, Tx, Row
<1>6. TxSound(s)
  BY <1>2, <1>3, <1>4, <1>5 DEF TxSound
<1>7. \A u \in Writers \ {w} : Apart(s, tx[u])
  BY <1>1 DEF Apart, Tx, NextSeq, CounterFree
<1> QED
  BY <1>6, <1>7, OneChanges DEF NextSeq, consumer

\* The row a write leaves, from a row that is sound and, unless inserted, exists.
LEMMA WrittenRow ==
    ASSUME NEW w \in Writers, tx[w] \in Tx, NEW row \in Row, RowSound(row),
           Doing(w) \in Work, Doing(w).op = "ingest" => Doing(w).content \in Contents,
           tx[w].todo = "remove" <=> Doing(w).op = "remove",
           IF tx[w].todo = "insert" THEN row.state = "absent" ELSE row.state # "absent",
           tx[w].todo # "seen", NEW new, new = Written(row, w)
    PROVE  /\ new \in Row /\ RowSound(new) /\ new.state # "absent"
           /\ new.revision = row.revision + 1
           /\ new.seq = tx[w].seq
           /\ [type |-> EventType(tx[w].todo), revision |-> new.revision, content |-> new.content] \in Change
<1>1. tx[w].todo \in {"insert", "update", "remove"} /\ tx[w].seq \in Nat
  BY DEF Tx
<1>2. CASE tx[w].todo = "insert"
  BY <1>2, <1>1 DEF Written, EventType, Row, RowSound, Change, Work
<1>3. CASE tx[w].todo = "update"
  <2>1. Written(row, w) = [row EXCEPT !.content = Doing(w).content, !.revision = row.revision + 1, !.seq = tx[w].seq]
    BY <1>3 DEF Written
  <2>2. Doing(w).content \in Contents /\ EventType(tx[w].todo) = "updated"
    BY <1>3 DEF EventType, Work
  <2>3. /\ new \in Row /\ new.state = row.state /\ new.content = Doing(w).content
        /\ new.revision = row.revision + 1 /\ new.seq = tx[w].seq /\ new.revision \in Nat \ {0}
    <3>1. row.revision + 1 \in Nat \ {0}
      BY DEF Row
    <3> QED
      BY <1>1, <2>1, <2>2, <3>1 DEF Row
  <2> QED
    BY <1>3, <2>2, <2>3 DEF RowSound, Change
<1>4. CASE tx[w].todo = "remove"
  <2>1. Written(row, w) = [row EXCEPT !.state = "removed", !.revision = row.revision + 1, !.seq = tx[w].seq]
    BY <1>4 DEF Written
  <2>2. row.content \in Contents /\ EventType(tx[w].todo) = "removed"
    BY <1>4 DEF EventType, RowSound
  <2>3. /\ new \in Row /\ new.state = "removed" /\ new.content = row.content
        /\ new.revision = row.revision + 1 /\ new.seq = tx[w].seq /\ new.revision \in Nat \ {0}
    <3>1. row.revision + 1 \in Nat \ {0}
      BY DEF Row
    <3> QED
      BY <1>1, <2>1, <2>2, <3>1 DEF Row
  <2> QED
    BY <1>4, <2>2, <2>3 DEF RowSound, Change
<1> QED
  BY <1>1, <1>2, <1>3, <1>4

\* The row is free, so what is written follows the newest committed version of it.
LEMMA WriteStep ==
    ASSUME StoreInv, NEW w \in Writers, Write(w)
    PROVE  StoreInv'
<1> DEFINE t == tx[w]
           i == Doing(w).item
           old == Seen(w, i)
           new == Written(old, w)
           out == Recorded(t.out[i], new, t.todo)
           s == [t EXCEPT !.pc = "next", !.work = Tail(t.work), !.locks = t.locks \cup {i},
                          !.mine = [t.mine EXCEPT ![i] = new], !.out = [t.out EXCEPT ![i] = out]]
<1>1. t \in Tx /\ TxSound(t) /\ \A u \in Writers \ {w} : Apart(t, tx[u])
  BY WriterStep
<1>2. /\ t.work # <<>> /\ t.work \in Seq(Work) /\ Head(t.work) = t.work[1] /\ 1 \in DOMAIN t.work
      /\ Doing(w) = t.work[1] /\ Doing(w) \in Work /\ i \in Items /\ Tail(t.work) \in Seq(Work)
  <2>1. t.work # <<>> /\ t.work \in Seq(Work)
    BY <1>1 DEF Write, Tx, TxSound, WorkSound
  <2>2. Head(t.work) = t.work[1] /\ 1 \in DOMAIN t.work /\ t.work[1] \in Work /\ Tail(t.work) \in Seq(Work)
    BY <2>1
  <2> QED
    BY <2>1, <2>2 DEF Doing, Work
<1>3. old \in Row /\ RowSound(old) /\ counter \in Nat
  BY <1>1, <1>2 DEF Seen, Tx, TxSound, WroteSound, StoreInv, Committed
<1>4. /\ Doing(w).op = "ingest" => Doing(w).content \in Contents
      /\ t.todo = "remove" <=> Doing(w).op = "remove"
      /\ IF t.todo = "insert" THEN old.state = "absent" ELSE old.state # "absent"
      /\ t.todo # "seen" => counter < t.seq
  BY <1>1, <1>2 DEF Write, TxSound, WorkSound, SeenBy, Seen, Doing
<1>5. t.out[i] \in Seq(Change) /\ rows[i] \in Row
  BY <1>1, <1>2 DEF Tx, StoreInv, Committed
\* What the transaction had written of the item before.
<1>6. /\ old.revision = rows[i].revision + Len(t.out[i])
      /\ \A n \in DOMAIN t.out[i] : t.out[i][n].revision = rows[i].revision + n
      /\ t.out[i] = <<>> => old = rows[i]
      /\ t.out[i] # <<>> =>
            /\ t.out[i][Len(t.out[i])].content = old.content
            /\ counter < old.seq /\ old.seq <= t.seq
  <2>1. WroteSound(t, i)
    BY <1>1, <1>2 DEF TxSound
  <2>2. CASE i \in t.locks
    BY <2>1, <2>2 DEF WroteSound, Seen
  <2>3. CASE i \notin t.locks
    <3>1. t.out[i] = <<>> /\ old = rows[i] /\ Len(t.out[i]) = 0
      BY <2>1, <2>3 DEF WroteSound, Seen
    <3> QED
      BY <1>5, <3>1 DEF Row
  <2> QED
    BY <2>2, <2>3
<1>7. /\ new \in Row /\ RowSound(new) /\ new.state # "absent" /\ out \in Seq(Change)
      /\ new.revision = rows[i].revision + Len(out)
      /\ \A n \in DOMAIN out : out[n].revision = rows[i].revision + n
      /\ out = <<>> => new = rows[i]
      /\ out # <<>> => out[Len(out)].content = new.content /\ counter < new.seq /\ new.seq <= t.seq
  <2>1. CASE t.todo = "seen"
    <3>1. new = old /\ out = t.out[i]
      BY <2>1 DEF Written, Recorded
    <3> QED
      BY <2>1, <3>1, <1>3, <1>4, <1>5, <1>6
  <2>2. CASE t.todo # "seen"
    <3> DEFINE change == [type |-> EventType(t.todo), revision |-> new.revision, content |-> new.content]
    <3>1. /\ new \in Row /\ RowSound(new) /\ new.state # "absent"
          /\ new.revision = old.revision + 1 /\ new.seq = t.seq
          /\ change \in Change /\ change.revision = new.revision /\ change.content = new.content
      BY <2>2, <1>1, <1>2, <1>3, <1>4, WrittenRow
    <3>2. out = Append(t.out[i], change)
      BY <2>2 DEF Recorded
    <3>3. counter < new.seq /\ new.seq <= t.seq /\ t.seq \in Nat /\ rows[i].revision \in Nat
      BY <2>2, <3>1, <1>1, <1>4, <1>5 DEF Tx, Row
    <3> HIDE DEF new, out, change, old
    <3>4. /\ out \in Seq(Change) /\ out # <<>> /\ Len(out) = Len(t.out[i]) + 1 /\ out[Len(out)] = change
          /\ DOMAIN out = 1..Len(out) /\ \A n \in 1..Len(t.out[i]) : out[n] = t.out[i][n]
      BY <3>1, <3>2, <1>5, AppendProperties
    <3>5. new.revision = rows[i].revision + Len(out)
      <4>1. old.revision \in Nat /\ Len(t.out[i]) \in Nat
        BY <1>3, <1>5 DEF Row
      <4>2. old.revision = rows[i].revision + Len(t.out[i]) /\ Len(out) = Len(t.out[i]) + 1
        BY <1>6, <3>4
      <4>3. new.revision = old.revision + 1 /\ rows[i].revision \in Nat
        BY <3>1, <3>3
      <4> HIDE DEF i, t
      <4> QED
        BY <4>1, <4>2, <4>3
    <3>6. ASSUME NEW n \in DOMAIN out PROVE out[n].revision = rows[i].revision + n
      <4>1. CASE n = Len(out)
        BY <3>1, <3>4, <3>5, <4>1
      <4>2. CASE n # Len(out)
        <5>1. n \in 1..Len(t.out[i])
          BY <3>4, <3>6, <4>2, <1>5
        <5> QED
          BY <5>1, <3>4, <1>5, <1>6
      <4> QED
        BY <4>1, <4>2
    <3>7. out # <<>> /\ out[Len(out)].content = new.content /\ counter < new.seq /\ new.seq <= t.seq
      BY <3>1, <3>3, <3>4
    <3> QED
      BY <3>1, <3>4, <3>5, <3>6, <3>7
  <2> QED
    BY <2>1, <2>2
<1> HIDE DEF new, out, old
<1>8. /\ s \in Tx /\ s.pc = "next" /\ s.work = Tail(t.work) /\ s.locks = t.locks \cup {i} /\ s.seq = t.seq
      /\ s.mine = [t.mine EXCEPT ![i] = new] /\ s.out = [t.out EXCEPT ![i] = out]
  BY <1>1, <1>2, <1>7 DEF Tx
<1>9. /\ \A j \in Items : s.mine[j] = IF j = i THEN new ELSE t.mine[j]
      /\ \A j \in Items : s.out[j] = IF j = i THEN out ELSE t.out[j]
  BY <1>1, <1>2, <1>8 DEF Tx
<1> HIDE DEF s
<1>10. ASSUME NEW j \in Items PROVE WroteSound(s, j)
  <2>1. CASE j = i
    BY <2>1, <1>7, <1>8, <1>9 DEF WroteSound
  <2>2. CASE j # i
    <3>1. WroteSound(t, j) /\ (j \in s.locks <=> j \in t.locks) /\ s.mine[j] = t.mine[j] /\ s.out[j] = t.out[j]
      BY <2>2, <1>1, <1>8, <1>9 DEF TxSound
    <3> QED
      BY <3>1, <1>8 DEF WroteSound
  <2> QED
    BY <2>1, <2>2
<1>11. WorkSound(s)
  <2>1. \A j \in Items : SeenBy(t, j).state # "absent" => SeenBy(s, j).state # "absent"
    BY <1>7, <1>8, <1>9 DEF SeenBy
  <2>2. ASSUME NEW n \in DOMAIN s.work
        PROVE  IF s.work[n].op = "ingest" THEN s.work[n].content \in Contents
                                          ELSE SeenBy(s, s.work[n].item).state # "absent"
    <3>1. n + 1 \in DOMAIN t.work /\ s.work[n] = t.work[n + 1] /\ t.work[n + 1] \in Work
      BY <1>2, <1>8
    <3> QED
      BY <1>1, <2>1, <3>1 DEF TxSound, WorkSound, Work
  <2> QED
    BY <2>2, <1>8 DEF WorkSound
<1>12. TxSound(s)
  BY <1>1, <1>8, <1>10, <1>11 DEF TxSound
<1>13. \A u \in Writers \ {w} : Apart(s, tx[u])
  BY <1>1, <1>8 DEF Apart, Write, RowFree
<1>14. tx' = [tx EXCEPT ![w] = s]
  BY DEF Write, s, new, out, old
<1> QED
  BY <1>12, <1>13, <1>14, OneChanges DEF Write, consumer

------------------------------------------------------------------------------
(* Ending a transaction *)

LEMMA RolledBackStep ==
    ASSUME StoreInv, NEW w \in Writers, RolledBack(w)
    PROVE  StoreInv'
<1>1. \A u \in Writers \ {w} : Apart(NoTx, tx[u])
  BY NothingWritten DEF Apart
<1> QED
  BY <1>1, NothingWritten, OneChanges DEF RolledBack, Close, consumer

\* What a transaction commits of an item: the row as it was, or with a newer number.
LEMMA CommittedRow ==
    ASSUME StoreInv, NEW w \in Writers, Commit(w), NEW i \in Items
    PROVE  /\ rows'[i] \in Row /\ RowSound(rows'[i])
           /\ rows[i].state # "absent" => rows'[i].state # "absent"
           /\ i \notin tx[w].locks => rows'[i] = rows[i]
           /\ rows'[i] = rows[i] \/ (counter < rows'[i].seq /\ rows'[i].seq <= tx[w].seq)
           /\ rows'[i].revision = rows[i].revision + Len(tx[w].out[i])
           /\ tx[w].out[i] \in Seq(Change)
           /\ \A n \in DOMAIN tx[w].out[i] : tx[w].out[i][n].revision = rows[i].revision + n
           /\ tx[w].out[i] = <<>> => rows'[i] = rows[i]
           /\ tx[w].out[i] # <<>> => tx[w].out[i][Len(tx[w].out[i])].content = rows'[i].content
<1> DEFINE t == tx[w]
<1>1. t \in Tx /\ WroteSound(t, i) /\ rows[i] \in Row /\ RowSound(rows[i])
  BY WriterStep DEF TxSound, StoreInv, Committed
<1>2. rows'[i] = IF i \in t.locks THEN t.mine[i] ELSE rows[i]
  BY DEF Commit, Seen
<1>3. t.out[i] \in Seq(Change) /\ t.mine[i] \in Row
  BY <1>1 DEF Tx
<1>4. CASE i \in t.locks
  <2>1. rows'[i] = t.mine[i]
    BY <1>2, <1>4
  <2> HIDE DEF t
  <2>2. /\ t.mine[i].state # "absent" /\ RowSound(t.mine[i])
        /\ t.mine[i].revision = rows[i].revision + Len(t.out[i])
        /\ \A n \in DOMAIN t.out[i] : t.out[i][n].revision = rows[i].revision + n
    BY <1>1, <1>4 DEF WroteSound
  <2>3. t.out[i] = <<>> => t.mine[i] = rows[i]
    BY <1>1, <1>4 DEF WroteSound
  <2>4. t.out[i] # <<>> => /\ t.out[i][Len(t.out[i])].content = t.mine[i].content
                          /\ counter < t.mine[i].seq /\ t.mine[i].seq <= t.seq
    BY <1>1, <1>4 DEF WroteSound
  <2>5. rows'[i] = rows[i] \/ (counter < rows'[i].seq /\ rows'[i].seq <= t.seq)
    BY <2>1, <2>3, <2>4
  <2>6. t.out[i] # <<>> => t.out[i][Len(t.out[i])].content = rows'[i].content
    BY <2>1, <2>4
  <2> QED
    BY <2>1, <2>2, <2>3, <2>5, <2>6, <1>3, <1>4 DEF t
<1>5. CASE i \notin t.locks
  <2>1. rows'[i] = rows[i] /\ t.out[i] = <<>>
    BY <1>1, <1>2, <1>5 DEF WroteSound
  <2>2. Len(t.out[i]) = 0 /\ DOMAIN t.out[i] = {} /\ rows[i].revision \in Nat
    BY <1>1, <2>1 DEF Row
  <2>3. rows'[i].revision = rows[i].revision + Len(t.out[i])
    BY <2>1, <2>2
  <2> QED
    BY <2>1, <2>2, <2>3, <1>1, <1>3, <1>5
<1> QED
  BY <1>4, <1>5

\* The other transactions keep what they wrote: their rows and numbers are theirs alone.
LEMMA CommitStep ==
    ASSUME StoreInv, NEW w \in Writers, Commit(w)
    PROVE  StoreInv'
<1> DEFINE t == tx[w]
<1>1. t \in Tx /\ TxSound(t) /\ \A u \in Writers \ {w} : Apart(t, tx[u])
  BY WriterStep
<1>2. counter \in Nat /\ counter' \in Nat /\ counter <= counter' /\ t.seq \in Nat /\ t.seq <= counter'
      /\ (t.seq = 0 => counter' = counter) /\ cursor' = cursor
  BY <1>1 DEF Commit, Tx, TxSound, StoreInv, Committed, consumer
<1>3. Committed'
  <2>1. rows' \in [Items -> Row]
    BY CommittedRow DEF Commit
  <2>2. ASSUME NEW i \in Items PROVE RowSound(rows'[i]) /\ rows'[i].seq <= counter'
    <3>1. rows[i].seq \in Nat /\ rows[i].seq <= counter /\ rows'[i].seq \in Nat
      BY CommittedRow DEF StoreInv, Committed, Row
    <3> QED
      BY <1>2, <3>1, CommittedRow
  <2>3. cursor' \in Nat /\ cursor' <= counter'
    BY <1>2 DEF StoreInv, Committed
  <2> QED
    BY <1>2, <2>1, <2>2, <2>3 DEF Committed, RowSound
<1>4. tx' \in [Writers -> Tx] /\ \A u \in Writers : tx'[u] = IF u = w THEN NoTx ELSE tx[u]
  BY NothingWritten DEF Commit, Close, StoreInv
<1>5. ASSUME NEW u \in Writers PROVE TxSound(tx[u])'
  <2>1. CASE u = w
    <3>1. tx'[u] = NoTx
      BY <1>4, <2>1
    <3> QED
      BY <3>1, NothingWritten DEF TxSound, NoTx, WorkSound, WroteSound
  <2>2. CASE u # w
    <3> DEFINE s == tx[u]
    <3>1. tx'[u] = s /\ s \in Tx /\ TxSound(s) /\ Apart(t, s)
      BY <1>1, <1>4, <2>2 DEF StoreInv
    <3>2. ASSUME NEW i \in Items, SeenBy(s, i).state # "absent" PROVE SeenBy(s, i)'.state # "absent"
      BY <3>1, <3>2, CommittedRow DEF SeenBy
    <3>3. WorkSound(s)'
      <4>1. s.work \in Seq(Work)
        BY <3>1 DEF Tx
      <4>2. \A n \in DOMAIN s.work : s.work[n] \in Work
        BY <4>1
      <4>3. s.work # <<>> => Head(s.work) \in Work
        BY <4>1
      <4> QED
        BY <3>1, <3>2, <4>1, <4>2, <4>3 DEF TxSound, WorkSound, Work
    <3>4. ASSUME NEW i \in Items PROVE WroteSound(s, i)'
      <4>1. WroteSound(s, i) /\ s.mine[i] \in Row /\ s.seq \in Nat
        BY <3>1 DEF TxSound, Tx
      <4>2. CASE i \in s.locks
        <5>1. rows'[i] = rows[i]
          BY <3>1, <4>2, CommittedRow DEF Apart
        <5>2. s.out[i] # <<>> => counter' < s.mine[i].seq
          BY <3>1, <4>1, <4>2, <1>2 DEF WroteSound, Apart, Row
        <5> QED
          BY <3>1, <4>1, <4>2, <5>1, <5>2 DEF WroteSound, RowSound
      <4>3. CASE i \notin s.locks
        BY <3>1, <4>1, <4>3 DEF WroteSound
      <4> QED
        BY <4>2, <4>3
    <3>5. s.seq = 0 \/ counter' < s.seq
      BY <3>1, <1>2 DEF TxSound, Apart, Tx
    <3> QED
      BY <3>1, <3>3, <3>4, <3>5 DEF TxSound
  <2> QED
    BY <2>1, <2>2
<1>6. ASSUME NEW u \in Writers, NEW v \in Writers, u # v PROVE Apart(tx[u], tx[v])'
  BY <1>4, <1>6, NothingWritten DEF StoreInv, Apart
<1> QED
  BY <1>3, <1>4, <1>5, <1>6 DEF StoreInv

LEMMA EndsStep ==
    ASSUME StoreInv, NEW w \in Writers, Ends(w)
    PROVE  StoreInv'
BY CommitStep, RolledBackStep DEF Ends, UniqueViolation, DeadlockVictim, Fail

------------------------------------------------------------------------------
(* The consumer *)

LEMMA PollStep ==
    ASSUME StoreInv, NEW page \in SUBSET Items, Poll(page)
    PROVE  StoreInv'
<1>1. PICK i \in page : cursor' = rows[i].seq
  BY DEF Poll
<1>2. Committed'
  BY <1>1 DEF StoreInv, Committed, Poll, store, RowSound, Row
<1> QED
  BY <1>2 DEF StoreInv, Poll, store, TxSound, WorkSound, SeenBy, WroteSound, RowSound, Apart

LEMMA StoreInvInit ==
    ASSUME Init
    PROVE  StoreInv
<1>1. NoRow \in Row
  BY DEF NoRow, Row
<1>2. Committed
  BY <1>1 DEF Init, Committed, RowSound, NoRow
<1>3. NoTx \in Tx
  BY <1>1 DEF NoTx, Tx
<1>4. tx \in [Writers -> Tx] /\ \A w \in Writers : tx[w] = NoTx
  BY <1>3 DEF Init
<1>5. TxSound(NoTx)
  BY <1>3 DEF TxSound, NoTx, WorkSound, WroteSound
<1>6. Apart(NoTx, NoTx)
  BY DEF Apart, NoTx
<1> QED
  BY <1>2, <1>4, <1>5, <1>6 DEF StoreInv

LEMMA StoreInvNext ==
    ASSUME StoreInv, [Next]_vars
    PROVE  StoreInv'
<1>1. ASSUME NEW w \in Writers, Opens(w) \/ LookUp(w) \/ NextSeq(w) \/ Write(w) \/ Ends(w) PROVE StoreInv'
  BY <1>1, OpensStep, LookUpStep, NextSeqStep, WriteStep, EndsStep
<1>2. CASE UNCHANGED vars
  BY <1>2 DEF vars, StoreInv, Committed, TxSound, WorkSound, SeenBy, WroteSound, RowSound, Apart
<1> QED
  BY <1>1, <1>2, PollStep DEF Next

LEMMA StoreInvHolds == Spec => []StoreInv
<1>1. Init => StoreInv
  BY StoreInvInit
<1>2. StoreInv /\ [Next]_vars => StoreInv'
  BY StoreInvNext
<1> QED
  BY <1>1, <1>2, PTL DEF Spec

\* What a step of the system changes: a commit the store, a page the consumer.
LEMMA Steps ==
    ASSUME [Next]_vars
    PROVE  \/ \E w \in Writers : Commit(w)
           \/ UNCHANGED store /\ \E page \in SUBSET Items : Poll(page)
           \/ UNCHANGED <<store, consumer>>
<1>1. ASSUME NEW w \in Writers, Opens(w) \/ LookUp(w) \/ NextSeq(w) \/ Write(w)
      PROVE  UNCHANGED <<store, consumer>>
  BY <1>1 DEF Opens, Ingest, Takedown, Retire, Open, LookUp, NextSeq, Write
<1>2. ASSUME NEW w \in Writers, Ends(w), ~Commit(w)
      PROVE  UNCHANGED <<store, consumer>>
  BY <1>2 DEF Ends, UniqueViolation, DeadlockVictim, Fail, RolledBack
<1>3. ASSUME NEW page \in SUBSET Items, Poll(page) PROVE UNCHANGED store
  BY <1>3 DEF Poll
<1>4. CASE UNCHANGED vars
  BY <1>4 DEF vars, store, consumer
<1> QED
  BY <1>1, <1>2, <1>3, <1>4 DEF Next

------------------------------------------------------------------------------
(* The history of an item *)

HistInv ==
    /\ StoreInv
    /\ history \in [Items -> Seq(Change)]
    /\ HistoryComplete

\* What a commit adds to an item's history follows on from what it has.
LEMMA CommitHistory ==
    ASSUME HistInv, NEW w \in Writers, Commit(w)
    PROVE  history' \in [Items -> Seq(Change)] /\ HistoryComplete'
<1>1. ASSUME NEW i \in Items
      PROVE  /\ history'[i] \in Seq(Change)
             /\ Len(history'[i]) = rows'[i].revision
             /\ \A n \in DOMAIN history'[i] : history'[i][n].revision = n
             /\ history'[i] # <<>> => history'[i][Len(history'[i])].content = rows'[i].content
  <2> DEFINE h == history[i]
             o == tx[w].out[i]
  <2>1. history'[i] = h \o o
    BY DEF Commit
  <2>2. h \in Seq(Change) /\ o \in Seq(Change) /\ Len(h) \in Nat /\ Len(o) \in Nat
    BY CommittedRow DEF HistInv
  <2>3. /\ Len(h) = rows[i].revision
        /\ \A n \in 1..Len(h) : h[n].revision = n
        /\ h # <<>> => h[Len(h)].content = rows[i].content
    BY <2>2 DEF HistInv, HistoryComplete
  <2>4. /\ rows'[i].revision = Len(h) + Len(o)
        /\ \A n \in 1..Len(o) : o[n].revision = Len(h) + n
        /\ o = <<>> => rows'[i] = rows[i]
        /\ o # <<>> => o[Len(o)].content = rows'[i].content
    BY <2>2, <2>3, CommittedRow DEF HistInv
  <2> HIDE DEF h, o
  <2>5. /\ h \o o \in Seq(Change) /\ Len(h \o o) = Len(h) + Len(o)
        /\ DOMAIN (h \o o) = 1..(Len(h) + Len(o))
        /\ \A n \in 1..(Len(h) + Len(o)) : (h \o o)[n] = IF n <= Len(h) THEN h[n] ELSE o[n - Len(h)]
    BY <2>2, ConcatProperties
  <2>6. ASSUME NEW n \in DOMAIN (h \o o) PROVE (h \o o)[n].revision = n
    <3>1. CASE n <= Len(h)
      BY <2>2, <2>3, <2>5, <3>1
    <3>2. CASE ~(n <= Len(h))
      <4>1. n - Len(h) \in 1..Len(o) /\ (h \o o)[n] = o[n - Len(h)] /\ n \in Nat
        BY <2>2, <2>5, <3>2
      <4> QED
        BY <2>2, <2>4, <4>1
    <3> QED
      BY <3>1, <3>2
  <2>7. ASSUME h \o o # <<>> PROVE (h \o o)[Len(h \o o)].content = rows'[i].content
    <3>1. CASE o = <<>>
      <4>1. h \o o = h
        BY <2>2, <3>1
      <4> QED
        BY <2>3, <2>4, <2>7, <3>1, <4>1
    <3>2. CASE o # <<>>
      <4>1. Len(o) # 0
        BY <2>2, <3>2
      <4>2. (h \o o)[Len(h) + Len(o)] = o[Len(o)]
        BY <2>2, <2>5, <4>1
      <4> QED
        BY <2>4, <2>5, <3>2, <4>2
    <3> QED
      BY <3>1, <3>2
  <2> QED
    BY <2>1, <2>4, <2>5, <2>6, <2>7
<1>2. history' = [i \in Items |-> history'[i]]
  BY DEF Commit
<1> QED
  BY <1>1, <1>2 DEF HistoryComplete

LEMMA HistoryUntouched ==
    ASSUME HistInv, UNCHANGED <<rows, history>>
    PROVE  history' \in [Items -> Seq(Change)] /\ HistoryComplete'
BY DEF HistInv, HistoryComplete

LEMMA HistoryHolds == Spec => []HistInv
<1>1. Init => HistInv
  <2> SUFFICES ASSUME Init PROVE history \in [Items -> Seq(Change)] /\ HistoryComplete /\ StoreInv
    BY DEF HistInv
  <2>1. StoreInv
    BY StoreInvInit
  <2>2. \A i \in Items : history[i] = <<>> /\ rows[i].revision = 0
    BY DEF Init, NoRow
  <2> QED
    BY <2>1, <2>2 DEF Init, HistoryComplete
<1>2. HistInv /\ [Next]_vars => HistInv'
  <2> SUFFICES ASSUME HistInv, [Next]_vars PROVE HistInv'
    OBVIOUS
  <2>1. StoreInv'
    BY StoreInvNext DEF HistInv
  <2>2. ASSUME NEW w \in Writers, Commit(w) PROVE HistInv'
    BY <2>1, <2>2, CommitHistory DEF HistInv
  <2>3. CASE UNCHANGED <<rows, history>>
    BY <2>1, <2>3, HistoryUntouched DEF HistInv
  <2> QED
    BY <2>2, <2>3, Steps DEF store
<1> QED
  BY <1>1, <1>2, PTL DEF Spec

\* Every revision of an item left exactly one revision row and one event, in
\* revision order, and the newest describes the row, whatever transactions overlap
\* or are rolled back (items.js:177-191, 201-208).
THEOREM HistoryIsComplete == Spec => []HistoryComplete
<1>1. HistInv => HistoryComplete
  BY DEF HistInv
<1> QED
  BY <1>1, HistoryHolds, PTL

\* Rows, events, transactions and what the consumer copied have their shapes: a
\* write finds the row it was decided for, and an event carries a content.
THEOREM TypeCorrect == Spec => []TypeOK
<1> DEFINE CopyOK == copy \in [Items -> View]
<1>1. Init => CopyOK
  BY DEF Init, Shown, NoRow, View
<1>2. StoreInv /\ CopyOK /\ [Next]_vars => CopyOK'
  <2> SUFFICES ASSUME StoreInv, CopyOK, [Next]_vars PROVE CopyOK'
    OBVIOUS
  <2>1. ASSUME NEW page \in SUBSET Items, Poll(page) PROVE CopyOK'
    <3>1. \A i \in Items : Shown(rows[i]) \in View
      BY DEF StoreInv, Committed, Row, Shown, View
    <3> QED
      BY <2>1, <3>1 DEF Poll
  <2> QED
    BY <2>1, Steps DEF Commit, consumer
<1>3. HistInv /\ CopyOK => TypeOK
  BY DEF HistInv, StoreInv, Committed, TypeOK
<1> QED
  BY <1>1, <1>2, <1>3, HistoryHolds, StoreInvHolds, PTL DEF Spec

------------------------------------------------------------------------------
(* The change feed *)

\* Numbers are taken from the counter while its row is locked, so a commit shows
\* its changes after every number a consumer can have seen.
LEMMA CommitIsCommit ==
    ASSUME StoreInv, NEW w \in Writers, Commit(w)
    PROVE  Feed!Commit
<1>1. \A i \in Items : rows'[i] \in Row /\ rows[i] \in Row
  BY CommittedRow DEF StoreInv, Committed
<1>2. ASSUME NEW i \in Items
      PROVE  Shown(rows'[i]) \in View
  BY <1>1 DEF Shown, View, Row
<1>3. cursor \in Nat /\ cursor <= counter /\ counter \in Nat /\ UNCHANGED consumer
  BY DEF StoreInv, Committed, Commit
<1>4. ASSUME NEW i \in Items
      PROVE  rows'[i] = rows[i] \/ cursor' < rows'[i].seq
  BY <1>1, <1>3, CommittedRow DEF Row, consumer
<1>5. Changed \subseteq Changed' /\ Changed' \in SUBSET Items
  BY <1>3, <1>4 DEF Changed, consumer
<1>6. \A i \in Items : Shown(rows'[i]) # Shown(rows[i]) => i \in Changed'
  BY <1>1, <1>3, <1>4 DEF Changed, consumer, Row
<1> QED
  BY <1>2, <1>3, <1>5, <1>6 DEF Feed!Commit, consumer

\* A page delivers what it lists; what it leaves out has a higher number.
LEMMA PollIsDeliver ==
    ASSUME StoreInv, NEW page \in SUBSET Items, Poll(page)
    PROVE  Feed!Deliver(page)
<1>1. \A i \in Items : rows[i].seq \in Nat
  BY DEF StoreInv, Committed, Row
<1>2. PICK k \in page : cursor' = rows[k].seq
  BY DEF Poll
<1>3. cursor \in Nat /\ cursor < cursor' /\ cursor' \in Nat /\ UNCHANGED rows
  BY <1>1, <1>2 DEF StoreInv, Committed, Poll, Changed, store
<1>4. Changed' = Changed \ page
  BY <1>1, <1>2, <1>3 DEF Changed, Poll
<1>5. [i \in Items |-> Shown(rows[i])]' = [i \in Items |-> Shown(rows[i])]
  BY <1>3
<1>6. copy' = [i \in Items |-> IF i \in page THEN [j \in Items |-> Shown(rows[j])][i] ELSE copy[i]]
  BY DEF Poll
<1> QED
  BY <1>4, <1>5, <1>6 DEF Feed!Deliver, Poll

\* The store with its consumer implements the change feed: a commit is Feed!Commit,
\* a page is Feed!Deliver, every other step leaves the feed as it is.  No
\* transaction commits a change behind the consumer's cursor (items.js:273-282,
\* db.js:33-35).
THEOREM StoreImplementsFeed == Spec => FeedSpec
<1>1. Init => Feed!Init
  BY DEF Init, Feed!Init, Changed, NoRow
<1>2. StoreInv /\ [Next]_vars => [Feed!Next]_Feed!vars
  <2> SUFFICES ASSUME StoreInv, [Next]_vars PROVE [Feed!Next]_Feed!vars
    OBVIOUS
  <2>1. ASSUME NEW w \in Writers, Commit(w) PROVE Feed!Next
    BY <2>1, CommitIsCommit DEF Feed!Next
  <2>2. ASSUME NEW page \in SUBSET Items, Poll(page) PROVE Feed!Next
    BY <2>2, PollIsDeliver DEF Feed!Next
  <2>3. CASE UNCHANGED <<rows, cursor, copy>>
    BY <2>3 DEF Feed!vars, Changed
  <2> QED
    BY <2>1, <2>2, <2>3, Steps DEF store, consumer
<1> QED
  BY <1>1, <1>2, StoreInvHolds, PTL DEF Spec, FeedSpec, Feed!Spec

\* Of the abstract feed: what is not ahead of the consumer is in its copy.
LEMMA FeedMissesNothing == FeedSpec => []Feed!NothingMissed
<1>1. Feed!Init => Feed!NothingMissed
  BY DEF Feed!Init, Feed!NothingMissed
<1>2. Feed!NothingMissed /\ [Feed!Next]_Feed!vars => Feed!NothingMissed'
  BY DEF Feed!NothingMissed, Feed!Next, Feed!Commit, Feed!Deliver, Feed!vars
<1> QED
  BY <1>1, <1>2, PTL DEF FeedSpec, Feed!Spec

\* A consumer that follows next_after has, of every item whose newest change is not
\* after its cursor, exactly what the store has: the abstract feed's promise, kept
\* because the store implements it (items.js:273-282).
THEOREM ConsumerStaysInStep == Spec => []ConsumerInStep
<1>1. StoreInv /\ Feed!NothingMissed => ConsumerInStep
  <2> SUFFICES ASSUME StoreInv, Feed!NothingMissed, NEW i \in Items, rows[i].seq <= cursor
               PROVE  copy[i] = Shown(rows[i])
    BY DEF ConsumerInStep
  <2>1. i \notin Changed
    BY DEF Changed, StoreInv, Committed, Row
  <2> QED
    BY <2>1 DEF Feed!NothingMissed
<1> QED
  BY <1>1, StoreInvHolds, StoreImplementsFeed, FeedMissesNothing, PTL
=============================================================================

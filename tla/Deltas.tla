------------------------------- MODULE Deltas -------------------------------
(***************************************************************************)
(* The runs of a bulk source with a delta index (server/ingest.js,         *)
(* fetchOffDeltaEndpoint; adapters/off-delta.js): read the index, read the *)
(* parts that are not finished up to the row limit, and store their items  *)
(* and the cursor in one transaction.                                      *)
(*                                                                         *)
(* One run at a time (Ingest!SingleFlight).  The site lists new parts at   *)
(* the end of its index and drops old ones at any time, between the index  *)
(* and a part's request too.  A part is its place in the order of the ends *)
(* of their time ranges; equal ends, which the names order, do not occur.  *)
(***************************************************************************)
EXTENDS Records

CONSTANTS
    Ids, LastPart, Rows,    \* as in DeltaLog
    Unterminated,   \* the parts whose last line does not end in a newline
    Budgets,        \* what max_rows and max_items leave a run, as they are set at its time
    MaxFaults,      \* bound: failures and crashes
    Longest         \* bound: the rows and the symbols that Offsets and CsvAndLines look at

ASSUME ConstantsAssumption ==
    /\ LastPart \in Nat \ {0} /\ MaxFaults \in Nat /\ Longest \in Nat
    /\ Rows \in [1..LastPart -> Seq(Ids \cup {Malformed})]
    /\ Unterminated \subseteq 1..LastPart
    /\ Budgets \subseteq Nat \ {0} /\ Malformed \notin Ids

VARIABLES
    published, listed,  \* the site, as in DeltaLog
    cursor,     \* source_state 'delta.cursor', as readState reads it
    store,      \* items: the row that each is of
    run,        \* the run under way
    faults

vars == <<published, listed, cursor, store, run, faults>>
site == <<published, listed>>

NoPart == 0
NoRow == <<0, 0>>
Start0 == [seen |-> NoPart, current |-> NoPart, offset |-> 0]
Idle == [pc |-> "idle", queue |-> {}, cursor |-> Start0, remaining |-> 0, collected |-> [i \in Ids |-> NoRow]]

Init ==
    /\ published = 1 /\ listed = {1}
    /\ cursor = Start0
    /\ store = [i \in Ids |-> NoRow]
    /\ run = Idle
    /\ faults = 0

------------------------------------------------------------------------------
(* The site *)

Publish ==
    /\ published < LastPart
    /\ published' = published + 1
    /\ listed' = listed \cup {published + 1}
    /\ UNCHANGED <<cursor, store, run, faults>>

Rotate ==
    /\ Cardinality(listed) > 1
    /\ listed' = listed \ {Min(listed)}
    /\ UNCHANGED <<published, cursor, store, run, faults>>

------------------------------------------------------------------------------
(* A run *)

\* The unfinished part of a cursor counts as long as the index lists it.
Resumed(from, files) == IF from.current \in files THEN from ELSE [from EXCEPT !.current = NoPart, !.offset = 0]

\* nextFiles: every part after the last one finished, to be read oldest first; that is the
\* unfinished one, which is put first and then sorted with the others.
NextFilesAfter(files, from) ==      \* mutant: the unfinished one counts as read
    {n \in files : n > from.seen /\ n > from.current}
NextFiles(files, from) == {n \in files : n > from.seen}

ReadIndex(budget) ==
    LET from == Resumed(cursor, listed) IN
    /\ run.pc = "idle"
    /\ run' = [Idle EXCEPT !.pc = "parts", !.cursor = from, !.queue = NextFiles(listed, from), !.remaining = budget]
    /\ UNCHANGED <<site, cursor, store, faults>>

More == run.pc = "parts" /\ run.queue # {} /\ run.remaining > 0

\* The first row after the offset that states i.
RowOf(n, offset, i) == <<n, Min({k \in DOMAIN Rows[n] : k > offset /\ Rows[n][k] = i})>>

\* A limit that is met by a last line without a newline is met at the end of the stream.
CutOff(n, offset, s) == Stopped(s) /\ ~(n \in Unterminated /\ offset + s.rows = Len(Rows[n]))

\* What the cursor of a run becomes.
Finished(n) == [seen |-> n, current |-> NoPart, offset |-> 0]
UnfinishedAnew(n, offset, s) ==     \* mutant: the rows of this run only
    [run.cursor EXCEPT !.current = n, !.offset = s.rows]
Unfinished(n, offset, s) == [run.cursor EXCEPT !.current = n, !.offset = offset + s.rows]

ReadPart ==
    LET n == Min(run.queue)
        offset == IF run.cursor.current = n THEN run.cursor.offset ELSE 0
        s == Read(Rows[n], offset, run.remaining)
    IN
    /\ More /\ n \in listed
    /\ run' = [run EXCEPT
         !.queue = IF CutOff(n, offset, s) THEN {} ELSE @ \ {n},
         !.cursor = IF CutOff(n, offset, s) THEN Unfinished(n, offset, s) ELSE Finished(n),
         !.remaining = @ - Len(s.items),
         !.collected = [i \in Ids |-> IF i \in ToSet(s.items) THEN RowOf(n, offset, i) ELSE @[i]]]
    /\ UNCHANGED <<site, cursor, store, faults>>

\* Items and cursor in one transaction.
Commit ==
    /\ run.pc = "parts" /\ ~More
    /\ store' = [i \in Ids |-> IF run.collected[i] = NoRow THEN store[i] ELSE run.collected[i]]
    /\ cursor' = run.cursor
    /\ run' = Idle
    /\ UNCHANGED <<site, faults>>

\* A run that fails keeps nothing of what it read.
Discard == run' = Idle /\ UNCHANGED <<site, cursor, store>>

\* The site has dropped the part since it sent the index.
MissingPart ==
    /\ More /\ Min(run.queue) \notin listed
    /\ Discard /\ UNCHANGED faults

Fault == faults < MaxFaults /\ faults' = faults + 1

\* The deadline, the size limit, the connection, a body that is no gzip, a row that cannot
\* be read: the stream fails whatever it has delivered.
StreamFails == More /\ Fault /\ Discard

\* Any other status, robots.txt, a wait the site asks for; a transaction that rolls back; a crash.
RunFails == run.pc = "parts" /\ Fault /\ Discard

RunStep == (\E budget \in Budgets : ReadIndex(budget)) \/ ReadPart \/ Commit \/ MissingPart

Next == Publish \/ Rotate \/ RunStep \/ StreamFails \/ RunFails

Spec == Init /\ [][Next]_vars

\* A source is polled for ever, and every request has a deadline.
FairSpec == Spec /\ WF_vars(RunStep)

------------------------------------------------------------------------------
(* Properties *)

\* The runs only go forward in the log of the parts, and the items and the cursor are never
\* apart, whatever is published, dropped, cut off, repeated or lost (off-delta.js:4-11;
\* ingest.js:420-423): the position is the last row that was left behind.
Position ==
    IF cursor.current # NoPart THEN <<cursor.current, cursor.offset>>
    ELSE IF cursor.seen = NoPart THEN NoRow
    ELSE <<cursor.seen, Len(Rows[cursor.seen])>>
Log == INSTANCE DeltaLog WITH at <- Position
LogSpec == Log!Spec

\* A part that is cut off is taken up again at the row after the last one that was looked
\* at, whatever the limit of a run and the offset that it begins with (off-delta.js:9-11).
\* Looked at once, in the initial state.
Offsets == Init => NothingBetween(Ids, Longest)

\* The two CSV readers, and the lines of pieces.  Looked at once, in the initial state.
CsvAndLines == Init => ReadersAgree(Longest)

\* Every part that the index goes on listing is read to its end, however small the limits
\* and wherever a part was cut off (off-delta.js:4-6).
CatchesUp == <>[](Log!Unread(listed, Position) = {})
=============================================================================

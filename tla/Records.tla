------------------------------ MODULE Records ------------------------------
(***************************************************************************)
(* From the bytes of a body to the records of a run: the readers of CSV    *)
(* (adapters/bulk.js, piece by piece as the bytes arrive; adapters/api.js, *)
(* a whole body) and of lines (bulk.js), and which records become items.   *)
(*                                                                         *)
(* A text is a sequence of the symbols that the readers tell apart.  A row *)
(* is the identity its record states, or Malformed for one that states     *)
(* none.                                                                   *)
(***************************************************************************)
EXTENDS Integers, Sequences, FiniteSets, SequencesExt, FiniteSetsExt

Symbols == {"quote", "comma", "newline", "return", "x"}
Malformed == "malformed"

------------------------------------------------------------------------------
(* CSV *)

Start == [field |-> <<>>, row |-> <<>>, rows |-> <<>>, quoted |-> FALSE, pending |-> FALSE]

CloseField(s) == [s EXCEPT !.row = Append(@, s.field), !.field = <<>>]
CloseRow(s) == [s EXCEPT !.rows = Append(@, Append(s.row, s.field)), !.row = <<>>, !.field = <<>>]
Keep(s, ch) == [s EXCEPT !.field = Append(@, ch)]

Plain(s, ch) ==
    CASE ch = "quote" /\ s.field = <<>> -> [s EXCEPT !.quoted = TRUE]
      [] ch = "comma" -> CloseField(s)
      [] ch = "newline" -> CloseRow(s)
      [] ch = "return" -> s
      [] OTHER -> Keep(s, ch)

\* csvWrite: a quote within quotes waits for what follows it.
CsvWriteEager(s, ch) ==      \* mutant: a quote always ends the quotes
    IF ~s.quoted THEN Plain(s, ch)
    ELSE IF ch = "quote" THEN [s EXCEPT !.quoted = FALSE] ELSE Keep(s, ch)
CsvWrite(s, ch) ==
    IF s.pending
    THEN IF ch = "quote" THEN [Keep(s, ch) EXCEPT !.pending = FALSE]
         ELSE Plain([s EXCEPT !.pending = FALSE, !.quoted = FALSE], ch)
    ELSE IF ~s.quoted THEN Plain(s, ch)
    ELSE IF ch = "quote" THEN [s EXCEPT !.pending = TRUE] ELSE Keep(s, ch)

\* csvFinish: a field whose quotes never end is no row.
CsvFinish(s) ==
    IF s.quoted /\ ~s.pending THEN [s EXCEPT !.row = <<>>, !.field = <<>>]
    ELSE IF s.field = <<>> /\ s.row = <<>> THEN s
    ELSE CloseRow(s)

\* csvRow: a row of one cell of white space is left out; as the first line it leaves no
\* header, and the next row cannot be read.
Blank(row) == Len(row) = 1 /\ ToSet(row[1]) \subseteq {"newline", "return"}
NotBlank(rows) == SelectSeq(rows, LAMBDA row : ~Blank(row))
Broken == "broken"
BulkCsv(text) ==
    LET after[k \in 0..Len(text)] == IF k = 0 THEN Start ELSE CsvWrite(after[k - 1], text[k])
        rows == CsvFinish(after[Len(text)]).rows
    IN  IF rows # <<>> /\ Blank(Head(rows)) /\ NotBlank(rows) # <<>> THEN Broken ELSE NotBlank(rows)

\* parseCsv of api.js looks at the next character instead; a body that ends within
\* quotes is refused whole.
Unreadable == "unreadable"
ApiRead(s, text, k) ==
    LET ch == text[k] IN
    IF s.pending THEN [s EXCEPT !.pending = FALSE]
    ELSE IF ~s.quoted THEN Plain(s, ch)
    ELSE IF ch # "quote" THEN Keep(s, ch)
    ELSE IF k < Len(text) /\ text[k + 1] = "quote" THEN [Keep(s, ch) EXCEPT !.pending = TRUE]
    ELSE [s EXCEPT !.quoted = FALSE]
ApiCsv(text) ==
    LET after[k \in 0..Len(text)] == IF k = 0 THEN Start ELSE ApiRead(after[k - 1], text, k)
        end == after[Len(text)]
    IN  IF end.quoted THEN Unreadable
        ELSE NotBlank(IF end.field = <<>> /\ end.row = <<>> THEN end.rows ELSE CloseRow(end).rows)

------------------------------------------------------------------------------
(* Lines *)

\* text.split('\n')
SplitAt(parts, ch) ==
    IF ch = "newline" THEN Append(parts, <<>>) ELSE [parts EXCEPT ![Len(parts)] = Append(@, ch)]
Split(text) ==
    LET parts[k \in 0..Len(text)] == IF k = 0 THEN << <<>> >> ELSE SplitAt(parts[k - 1], text[k])
    IN  parts[Len(text)]

\* line(): a carriage return at the end is cut off, an empty line is nothing.
LineOf(part) == IF part # <<>> /\ Last(part) = "return" THEN Front(part) ELSE part
Ended(lines, part) == IF LineOf(part) = <<>> THEN lines ELSE Append(lines, LineOf(part))
LinesOf(parts) ==
    LET lines[k \in 0..Len(parts)] == IF k = 0 THEN <<>> ELSE Ended(lines[k - 1], parts[k])
    IN  lines[Len(parts)]

\* lineWrite: the tail of a piece waits for the next one; end() reads it as a line.
LineWrite(s, piece) ==
    LET parts == Split(s.pending \o piece)
    IN  [lines |-> s.lines \o LinesOf(Front(parts)), pending |-> Last(parts)]
LineEnd(s) == s.lines \o LinesOf(<<s.pending>>)

------------------------------------------------------------------------------
(* Which records are kept *)

\* accept() of bulk.js: rows of an earlier run are passed over, and no row is looked at
\* once the items are enough.  The first row of an identity is kept.
AcceptLate(s, row) ==       \* mutant: a row is counted only when it is kept
    IF s.skip > 0 THEN [s EXCEPT !.skip = @ - 1]
    ELSE IF Len(s.items) = s.limit \/ row = Malformed \/ Contains(s.items, row) THEN s
    ELSE [s EXCEPT !.rows = @ + 1, !.items = Append(@, row)]
Accept(s, row) ==
    IF s.skip > 0 THEN [s EXCEPT !.skip = @ - 1]
    ELSE IF Len(s.items) = s.limit THEN s
    ELSE [s EXCEPT !.rows = @ + 1,
                   !.items = IF row = Malformed \/ Contains(@, row) THEN @ ELSE Append(@, row)]

Read(rows, skip, limit) ==
    LET after[k \in 0..Len(rows)] ==
            IF k = 0 THEN [skip |-> skip, limit |-> limit, rows |-> 0, items |-> <<>>]
            ELSE Accept(after[k - 1], rows[k])
    IN  after[Len(rows)]
Stopped(s) == Len(s.items) = s.limit

------------------------------------------------------------------------------
(* Properties, over all bodies up to a length *)

\* bulk.js:15-17, "CSV follows RFC 4180 enough for published dumps": the two CSV readers make
\* the same rows of a body, unless it ends within quotes or its first line is blank; and
\* the lines of a body are the same in one piece and in two.
ReadersAgree(longest) ==
    \A text \in SeqOf(Symbols, longest) :
        /\ ApiCsv(text) # Unreadable /\ BulkCsv(text) # Broken => BulkCsv(text) = ApiCsv(text)
        /\ \A k \in 0..Len(text) :
             LineEnd(LineWrite(LineWrite([lines |-> <<>>, pending |-> <<>>], SubSeq(text, 1, k)),
                               SubSeq(text, k + 1, Len(text)))) = LinesOf(Split(text))

\* off-delta.js:9-11: a run that takes a part up at any offset, with any limit, keeps the
\* identities of exactly the rows between that offset and the one it leaves behind, and stops
\* before the end only at its limit.  So runs that follow each other, each from the offset of
\* the one before, miss no row and read none twice, however many there are.  (Which of the
\* rows of one identity is kept is the matter of each run: its first.)
NothingBetween(identities, longest) ==
    \A rows \in SeqOf(identities \cup {Malformed}, longest) :
        \A offset \in 0..Len(rows), limit \in 1..longest :
            LET read == Read(rows, offset, limit)
                left == offset + read.rows
            IN  /\ left = Len(rows) \/ (left < Len(rows) /\ Stopped(read))
                /\ ToSet(read.items) = ToSet(SubSeq(rows, offset + 1, left)) \ {Malformed}

=============================================================================

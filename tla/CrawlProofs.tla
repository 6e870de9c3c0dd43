---------------------------- MODULE CrawlProofs -----------------------------
(***************************************************************************)
(* Proofs about Crawl, for every number of pages, sitemaps and items, and  *)
(* for every budget, cap and limit, and every behaviour of the site.       *)
(***************************************************************************)
EXTENDS Crawl, FiniteSetTheorems, TLAPS

------------------------------------------------------------------------------
(* The invariant *)

\* Rows and runs have their fields; of what is in most of them no proof depends.
Rows(S) == [state : S, fetched : S, depth : S, missed : S, tag : S, hash : S, of : S]
RunsOf(S) == [pc : S, budget : S, streak : S, done : S, batch : S, wanted : S, barred : S, at : S,
              got : S, same : S]
IsRow(r) == \E S : r \in Rows(S)
IsRun(r) == \E S : r \in RunsOf(S)

FrontierTyped == frontier = [u \in Urls |-> frontier[u]] /\ \A u \in Urls : IsRow(frontier[u])
SiteTyped == site = [u \in Urls |-> site[u]] /\ \A p \in Pages : site[p] \in Bodies[p]
ItemsTyped == items \in [Items -> [state : {"absent", "live", "removed"}, of : Pages \cup {NoUrl}]]

\* A run past its choice has a URL, past the request what that URL answered.
RunTyped ==
    /\ IsRun(run)
    /\ run.pc \notin {"idle", "choose"} => run.at \in Urls
    /\ run.pc \notin {"idle", "choose", "ask"} /\ run.at \in Pages => run.got \in Bodies[run.at]
    /\ run.pc \in {"noindex", "duplicate", "linked"} => run.at \in Pages
    /\ run.pc = "gone" => IsGone(run.got)

\* A row says 404 or 410 only of a page that said so last.
MissedIsLost == \A p \in Pages : frontier[p].missed => p \in lost

\* The page that the one at hand is set aside for is not set aside.
LeadsOn ==
    run.pc = "duplicate" =>
        /\ run.got.canonical # run.at
        /\ run.got.canonical \in Pages => frontier[run.got.canonical].state # "duplicate"

\* What is kept is a body of the page's.
KeptTyped == \A p \in Pages : frontier[p].state = "kept" => frontier[p].hash.items \subseteq Items

Typed == FrontierTyped /\ SiteTyped /\ ItemsTyped /\ RunTyped /\ KeptTyped
IndInv == Typed /\ MissedIsLost /\ LeadsOn /\ KeptBacked /\ DuplicatesEnd

------------------------------------------------------------------------------
(* How rows and items change *)

\* No row becomes kept or a duplicate, and those that stay so keep their body and page.
SameRow(new, old) == new.state = old.state /\ new.hash = old.hash /\ new.of = old.of
Stays(state, new, old) == new.state = state => SameRow(new, old)
Mild(new, old) == Stays("kept", new, old) /\ Stays("duplicate", new, old)
RowsStay(state) == \A p \in Pages : Stays(state, frontier'[p], frontier[p])
FrontierMild == RowsStay("kept") /\ RowsStay("duplicate")
ItemsStay == ItemsTyped' /\ \A i \in Items : items[i].state # "absent" => items'[i].state # "absent"

LEMMA KeptStay ==
    ASSUME IndInv, RowsStay("kept"), ItemsStay
    PROVE  KeptTyped' /\ KeptBacked'
<1>1. KeptTyped'
  BY DEF IndInv, Typed, KeptTyped, RowsStay, Stays, SameRow
<1>2. KeptBacked'
  <2> SUFFICES ASSUME NEW p \in Pages, frontier'[p].state = "kept",
                      NEW i \in frontier'[p].hash.items
               PROVE  items'[i].state # "absent"
    BY DEF KeptBacked
  <2>1. frontier[p].state = "kept" /\ frontier'[p].hash = frontier[p].hash
    BY DEF RowsStay, Stays, SameRow
  <2>2. i \in Items /\ items[i].state # "absent"
    BY <2>1 DEF IndInv, Typed, KeptTyped, KeptBacked
  <2> QED
    BY <2>2 DEF ItemsStay
<1> QED
  BY <1>1, <1>2

LEMMA DuplicatesStay ==
    ASSUME IndInv, RowsStay("duplicate")
    PROVE  DuplicatesEnd'
BY DEF IndInv, DuplicatesEnd, RowsStay, Stays, SameRow

\* Rows that are as they were, but for new ones.
LEMMA InsertMild ==
    ASSUME IndInv, NEW new, NEW touched, NEW depth, Insert(new, touched, depth), UNCHANGED lost
    PROVE  /\ FrontierTyped' /\ FrontierMild /\ MissedIsLost'
<1>1. frontier' = [u \in Urls |-> IF u \in new THEN NewRow(depth) ELSE frontier[u]]
  BY DEF Insert
<1>2. IsRow(NewRow(depth)) /\ NewRow(depth).state = "new" /\ ~NewRow(depth).missed
  <2>1. NewRow(depth) \in Rows({"new", FALSE, depth, NoBody, NoUrl})
    BY DEF NewRow, Rows
  <2> QED
    BY <2>1 DEF IsRow, NewRow
<1>3. \A u \in Urls : frontier'[u] = IF u \in new THEN NewRow(depth) ELSE frontier[u]
  BY <1>1
<1>4. FrontierTyped'
  BY <1>1, <1>2, <1>3 DEF FrontierTyped, IndInv, Typed
<1>5. FrontierMild
  BY <1>2, <1>3 DEF FrontierMild, RowsStay, Stays, SameRow, Urls
<1>6. MissedIsLost'
  BY <1>2, <1>3 DEF IndInv, MissedIsLost, Urls
<1> QED
  BY <1>2, <1>3, <1>4, <1>5, <1>6

\* One row changes.
LEMMA SaveMild ==
    ASSUME IndInv, run.at \in Urls, NEW row, NEW again, Save(row, again), IsRow(row), Mild(row, At),
           run.at \in Pages /\ row.missed => run.at \in lost',
           \A p \in lost : p # run.at => p \in lost'
    PROVE  FrontierTyped' /\ FrontierMild /\ MissedIsLost'
<1>1. frontier' = [frontier EXCEPT ![run.at] = row]
  BY DEF Save
<1>2. \A u \in Urls : frontier'[u] = IF u = run.at THEN row ELSE frontier[u]
  BY <1>1 DEF IndInv, Typed, FrontierTyped
<1>3. FrontierTyped'
  BY <1>1, <1>2 DEF IndInv, Typed, FrontierTyped
<1>4. FrontierMild
  BY <1>2 DEF FrontierMild, RowsStay, Mild, Stays, SameRow, Urls, At
<1>5. MissedIsLost'
  BY <1>2 DEF IndInv, MissedIsLost, Urls
<1> QED
  BY <1>3, <1>4, <1>5

\* What a run is after it has dealt with a URL.
Between(r) == IsRun(r) /\ r.pc \in {"idle", "choose"}

LEMMA Endings ==
    ASSUME IsRun(run)
    PROVE  Answered \/ Unanswered \/ NotRequested \/ Stop => Between(run')
<1> PICK S : run \in RunsOf(S)
  BY DEF IsRun
<1>1. Between(NoRun)
  <2>1. NoRun \in RunsOf({"idle", 0, {}, <<>>, Unread, NoUrl, NoBody, FALSE})
    BY DEF NoRun, RunsOf
  <2> QED
    BY <2>1 DEF Between, IsRun, NoRun
<1>2. Between(Free)
  <2>1. Free \in RunsOf(S \cup {"choose", NoUrl, NoBody, FALSE}) /\ Free.pc = "choose"
    BY DEF Free, RunsOf
  <2> QED
    BY <2>1 DEF Between, IsRun
<1>3. ASSUME NEW n, NEW k PROVE Between([Free EXCEPT !.budget = n, !.streak = k])
  <2> DEFINE r == [Free EXCEPT !.budget = n, !.streak = k]
  <2>1. r \in RunsOf(S \cup {"choose", NoUrl, NoBody, FALSE, n, k}) /\ r.pc = "choose"
    BY DEF Free, RunsOf
  <2> QED
    BY <2>1 DEF Between, IsRun
<1>4. CASE Answered
  BY <1>1, <1>3, <1>4 DEF Answered
<1>5. CASE Unanswered
  BY <1>1, <1>3, <1>5 DEF Unanswered
<1> QED
  BY <1>1, <1>2, <1>4, <1>5 DEF NotRequested, Stop

LEMMA BetweenTyped ==
    ASSUME Between(run')
    PROVE  RunTyped' /\ LeadsOn'
BY DEF Between, RunTyped, LeadsOn

\* The step of a run on one row that leaves the items alone.
LEMMA RowStep ==
    ASSUME IndInv, run.at \in Urls, NEW row, NEW again, Save(row, again), IsRow(row), Mild(row, At),
           run.at \in Pages /\ row.missed => run.at \in lost',
           \A p \in lost : p # run.at => p \in lost',
           UNCHANGED <<site, items>>, Between(run')
    PROVE  IndInv'
<1>1. FrontierTyped' /\ FrontierMild /\ MissedIsLost'
  BY SaveMild
<1>2. ItemsStay /\ SiteTyped'
  BY DEF IndInv, Typed, ItemsStay, ItemsTyped, SiteTyped
<1>3. KeptTyped' /\ KeptBacked' /\ DuplicatesEnd'
  BY <1>1, <1>2, KeptStay, DuplicatesStay DEF FrontierMild
<1>4. RunTyped' /\ LeadsOn'
  BY BetweenTyped
<1> QED
  BY <1>1, <1>2, <1>3, <1>4 DEF IndInv, Typed, ItemsStay

\* All that a step may put into a row is in one set with what is there.
Values == States \cup BOOLEAN \cup {NoBody, NoUrl, Body(run.got), run.got.canonical}

LEMMA AtTyped ==
    ASSUME IndInv, run.at \in Urls
    PROVE  \E S : At \in Rows(S) /\ Values \subseteq S
<1> PICK T : At \in Rows(T)
  BY DEF IndInv, Typed, FrontierTyped, At, IsRow
<1>1. At \in Rows(T \cup Values)
  BY DEF Rows
<1> QED
  BY <1>1

\* A run goes on with the URL at hand.
GoesOn(pc) == IsRun(run') /\ run'.pc = pc /\ run'.at = run.at /\ run'.got = run.got

LEMMA GoingOn ==
    ASSUME IsRun(run), NEW pc, run' = [run EXCEPT !.pc = pc]
    PROVE  GoesOn(pc)
<1> PICK S : run \in RunsOf(S)
  BY DEF IsRun
<1>1. run' \in RunsOf(S \cup {pc})
  BY DEF RunsOf
<1> QED
  BY <1>1 DEF GoesOn, IsRun, RunsOf

\* The same, with the matcher compiled.
LEMMA Matching ==
    ASSUME IsRun(run), NEW pc, NEW barring, run' = [run EXCEPT !.pc = pc, !.barred = barring]
    PROVE  GoesOn(pc) /\ run'.wanted = run.wanted /\ run'.barred = barring
<1> PICK S : run \in RunsOf(S)
  BY DEF IsRun
<1>1. run' \in RunsOf(S \cup {pc, barring})
  BY DEF RunsOf
<1> QED
  BY <1>1 DEF GoesOn, IsRun, RunsOf

\* Rows that are new do not change what the others say.
LEMMA EnqueueMild ==
    ASSUME IndInv, NEW urls, NEW depth, EnqueuePages(urls, depth) \/ EnqueueMaps(urls), UNCHANGED lost
    PROVE  FrontierTyped' /\ FrontierMild /\ MissedIsLost'
BY InsertMild DEF EnqueuePages, EnqueueMaps

LEMMA FrontierStep ==
    ASSUME IndInv, FrontierTyped', FrontierMild, MissedIsLost', SiteTyped', ItemsStay, RunTyped', LeadsOn'
    PROVE  IndInv'
BY KeptStay, DuplicatesStay DEF IndInv, Typed, ItemsStay, FrontierMild

LEMMA NoRowStep ==
    ASSUME IndInv, UNCHANGED <<frontier, lost>>
    PROVE  FrontierTyped' /\ FrontierMild /\ MissedIsLost'
BY DEF IndInv, Typed, FrontierTyped, FrontierMild, RowsStay, Stays, SameRow, MissedIsLost

LEMMA NoItemStep ==
    ASSUME IndInv, UNCHANGED items
    PROVE  ItemsStay
BY DEF IndInv, Typed, ItemsStay, ItemsTyped

------------------------------------------------------------------------------
(* The steps of a run *)

\* Before an answer: rows that keep what they say of 404s.
LEMMA AskIndInv ==
    ASSUME IndInv, AskStep
    PROVE  IndInv'
<1>1. run.pc = "ask" /\ run.at \in Urls /\ IsRun(run)
  BY DEF AskStep, Exclude, HostClosed, Denied, HopRefused, TooLarge, BadRedirect, TimedOut, AskedToWait,
         OtherStatus, Answer, Misfortune, Asked, IndInv, Typed, RunTyped
<1> PICK S : At \in Rows(S) /\ Values \subseteq S
  BY <1>1, AtTyped
<1>2. {"excluded", "denied", "too_large", "failing", TRUE, FALSE} \subseteq S
  BY DEF Values, States
<1>3. run.at \in Pages /\ At.missed => run.at \in lost
  BY DEF IndInv, MissedIsLost, At
<1>4. CASE Exclude
  <2> DEFINE row == [At EXCEPT !.state = "excluded"]
  <2>1. row \in Rows(S) /\ Mild(row, At) /\ row.missed = At.missed
    BY <1>2 DEF Rows, Mild, Stays, SameRow
  <2>2. Save(row, "never") /\ Between(run') /\ UNCHANGED <<site, items, lost>>
    BY <1>1, <1>4, Endings DEF Exclude
  <2> HIDE DEF row
  <2>3. IsRow(row)
    BY <2>1 DEF IsRow
  <2> QED
    BY <1>1, <1>3, <2>1, <2>2, <2>3, RowStep
<1>5. CASE HostClosed
  <2>1. Between(run') /\ UNCHANGED <<site, items, lost, frontier>>
    BY <1>1, <1>5, Endings DEF HostClosed, Misfortune, table
  <2>2. RunTyped' /\ LeadsOn'
    BY <2>1, BetweenTyped
  <2> QED
    BY <2>1, <2>2 DEF IndInv, Typed, FrontierTyped, SiteTyped, ItemsTyped, KeptTyped, MissedIsLost, KeptBacked, DuplicatesEnd
<1>6. CASE Denied
  <2> DEFINE row == [At EXCEPT !.state = "denied"]
  <2>1. row \in Rows(S) /\ Mild(row, At) /\ row.missed = At.missed
    BY <1>2 DEF Rows, Mild, Stays, SameRow
  <2>2. Save(row, "later") /\ Between(run') /\ UNCHANGED <<site, items, lost>>
    BY <1>1, <1>6, Endings DEF Denied
  <2> HIDE DEF row
  <2>3. IsRow(row)
    BY <2>1 DEF IsRow
  <2> QED
    BY <1>1, <1>3, <2>1, <2>2, <2>3, RowStep
<1>7. CASE HopRefused
  <2> DEFINE row == [At EXCEPT !.state = "denied", !.fetched = TRUE]
  <2>1. row \in Rows(S) /\ Mild(row, At) /\ row.missed = At.missed
    BY <1>2 DEF Rows, Mild, Stays, SameRow
  <2>2. Save(row, "later") /\ Between(run') /\ UNCHANGED <<site, items, lost>>
    BY <1>1, <1>7, Endings DEF HopRefused, Misfortune
  <2> HIDE DEF row
  <2>3. IsRow(row)
    BY <2>1 DEF IsRow
  <2> QED
    BY <1>1, <1>3, <2>1, <2>2, <2>3, RowStep
<1>8. CASE TooLarge
  <2> DEFINE row == [At EXCEPT !.state = "too_large", !.fetched = TRUE]
  <2>1. row \in Rows(S) /\ Mild(row, At) /\ row.missed = At.missed
    BY <1>2 DEF Rows, Mild, Stays, SameRow
  <2>2. Save(row, "never") /\ Between(run') /\ UNCHANGED <<site, items, lost>>
    BY <1>1, <1>8, Endings DEF TooLarge, Misfortune
  <2> HIDE DEF row
  <2>3. IsRow(row)
    BY <2>1 DEF IsRow
  <2> QED
    BY <1>1, <1>3, <2>1, <2>2, <2>3, RowStep
<1>9. CASE BadRedirect
  <2> DEFINE row == [At EXCEPT !.state = "failing", !.fetched = TRUE]
  <2>1. row \in Rows(S) /\ Mild(row, At) /\ row.missed = At.missed
    BY <1>2 DEF Rows, Mild, Stays, SameRow
  <2>2. Save(row, "later") /\ Between(run') /\ UNCHANGED <<site, items, lost>>
    BY <1>1, <1>9, Endings DEF BadRedirect, Misfortune
  <2> HIDE DEF row
  <2>3. IsRow(row)
    BY <2>1 DEF IsRow
  <2> QED
    BY <1>1, <1>3, <2>1, <2>2, <2>3, RowStep
<1>10. CASE TimedOut
  <2> DEFINE row == Failing
  <2>1. row \in Rows(S) /\ Mild(row, At) /\ row.missed = At.missed
    BY <1>2 DEF Rows, Mild, Stays, SameRow, Failing
  <2>2. Save(row, "later") /\ Between(run') /\ UNCHANGED <<site, items, lost>>
    BY <1>1, <1>10, Endings DEF TimedOut, Misfortune
  <2> HIDE DEF row
  <2>3. IsRow(row)
    BY <2>1 DEF IsRow
  <2> QED
    BY <1>1, <1>3, <2>1, <2>2, <2>3, RowStep
<1>11. CASE AskedToWait
  <2> DEFINE row == At
  <2>1. row \in Rows(S) /\ Mild(row, At) /\ row.missed = At.missed
    BY <1>2 DEF Rows, Mild, Stays, SameRow
  <2>2. Save(row, "later") /\ Between(run') /\ UNCHANGED <<site, items, lost>>
    BY <1>1, <1>11, Endings DEF AskedToWait, Misfortune
  <2> HIDE DEF row
  <2>3. IsRow(row)
    BY <2>1 DEF IsRow
  <2> QED
    BY <1>1, <1>3, <2>1, <2>2, <2>3, RowStep
<1>12. CASE OtherStatus
  <2> DEFINE row == [Failing EXCEPT !.missed = FALSE]
  <2>1. row \in Rows(S) /\ Mild(row, At) /\ ~row.missed
    BY <1>2 DEF Rows, Mild, Stays, SameRow, Failing
  <2>2. Save(row, "later") /\ Between(run') /\ UNCHANGED <<site, items>> /\ lost' = lost \ {run.at}
    BY <1>1, <1>12, Endings DEF OtherStatus, Misfortune
  <2> HIDE DEF row
  <2>3. IsRow(row)
    BY <2>1 DEF IsRow
  <2> QED
    BY <1>1, <2>1, <2>2, <2>3, RowStep
<1>13. CASE Answer
  <2>1. /\ run'.pc = "answer" /\ run'.at = run.at /\ run'.got = site[run.at] /\ IsRun(run')
        /\ UNCHANGED <<site, items, lost, frontier>>
    <3>1. PICK T : run \in RunsOf(T)
      BY <1>1 DEF IsRun
    <3>2. run' \in RunsOf(T \cup BOOLEAN \cup {"answer", site[run.at]})
      BY <1>13, <3>1 DEF Answer, RunsOf
    <3> QED
      BY <1>13, <3>1, <3>2 DEF Answer, RunsOf, IsRun, table
  <2>2. RunTyped' /\ LeadsOn'
    BY <1>1, <2>1 DEF RunTyped, LeadsOn, IndInv, Typed, SiteTyped
  <2> QED
    BY <2>1, <2>2 DEF IndInv, Typed, FrontierTyped, SiteTyped, ItemsTyped, KeptTyped, MissedIsLost, KeptBacked, DuplicatesEnd
<1> QED
  BY <1>4, <1>5, <1>6, <1>7, <1>8, <1>9, <1>10, <1>11, <1>12, <1>13 DEF AskStep

\* What every step after the answer may use.
LEMMA AnsweredTyped ==
    ASSUME IndInv, run.pc \notin {"idle", "choose", "ask"}
    PROVE  /\ run.at \in Urls /\ IsRun(run)
           /\ run.at \in Pages => run.got \in Bodies[run.at]
BY DEF IndInv, Typed, RunTyped

LEMMA RetireIndInv ==
    ASSUME IndInv, RetireGone \/ RetireNoindex
    PROVE  IndInv'
<1>1. run.pc = "answer"
  BY DEF RetireGone, RetireNoindex, Changed, There
<1>2. run.at \in Urls /\ IsRun(run) /\ (run.at \in Pages => run.got \in Bodies[run.at])
  BY <1>1, AnsweredTyped
<1>3. RetireItems /\ UNCHANGED <<site, frontier, lost>>
  BY DEF RetireGone, RetireNoindex, Retire, table
<1>4. (GoesOn("gone") /\ IsGone(run.got)) \/ (GoesOn("noindex") /\ run.at \in Pages)
  BY <1>2, GoingOn DEF RetireGone, RetireNoindex, Retire, Changed, There
<1>5. ItemsStay
  BY <1>3 DEF RetireItems, ItemsStay, ItemsTyped, IndInv, Typed
<1>6. RunTyped' /\ LeadsOn'
  BY <1>2, <1>4 DEF GoesOn, RunTyped, LeadsOn, IsGone
<1>7. SiteTyped'
  BY <1>3 DEF IndInv, Typed, SiteTyped
<1> QED
  BY <1>3, <1>5, <1>6, <1>7, NoRowStep, FrontierStep

\* A 404 or 410 is what the page said.
LEMMA GoneIndInv ==
    ASSUME IndInv, Missing \/ SaveGone
    PROVE  IndInv'
<1>1. run.pc \notin {"idle", "choose", "ask"} /\ IsGone(run.got)
  BY DEF Missing, SaveGone, IndInv, Typed, RunTyped
<1>2. run.at \in Urls /\ IsRun(run)
  BY <1>1, AnsweredTyped
<1> PICK S : At \in Rows(S) /\ Values \subseteq S
  BY <1>2, AtTyped
<1> PICK state : Save(MissingRow(state), "later") /\ state \in {"missing", "gone"}
  BY DEF Missing, SaveGone
<1>3. MissingRow(state) \in Rows(S) /\ Mild(MissingRow(state), At)
  BY DEF Rows, Mild, Stays, SameRow, MissingRow, Values, States
<1>4. IsRow(MissingRow(state))
  BY <1>3 DEF IsRow
<1>5. Between(run') /\ UNCHANGED <<site, items>> /\ Told
  BY <1>2, Endings DEF Missing, SaveGone
<1>6. lost' = lost \cup (Pages \cap {run.at})
  BY <1>1, <1>5 DEF Told
<1> QED
  BY <1>2, <1>3, <1>4, <1>5, <1>6, RowStep

\* A page that answers, and is not kept or set aside by it.
LEMMA ReadIndInv ==
    ASSUME IndInv, Unchanged \/ NotHtml \/ SaveNoindex \/ Hub \/ Unstructured
    PROVE  IndInv'
<1>1. run.pc \notin {"idle", "choose", "ask"}
  BY DEF Unchanged, NotHtml, SaveNoindex, Hub, Unstructured, There
<1>2. run.at \in Urls /\ IsRun(run)
  BY <1>1, AnsweredTyped
<1> PICK S : At \in Rows(S) /\ Values \subseteq S
  BY <1>2, AtTyped
<1> DEFINE unchanged == [At EXCEPT !.fetched = TRUE, !.missed = FALSE, !.tag = IF run.at \in Tagged THEN Tag ELSE @]
           unread == [At EXCEPT !.state = "not_html", !.fetched = TRUE, !.missed = FALSE]
           Fits(row) == row \in Rows(S) /\ Mild(row, At) /\ ~row.missed
<1>3. Fits(unchanged) /\ Fits(unread)
  BY DEF Rows, Mild, Stays, SameRow, Tag, Values, States
<1>4. ASSUME NEW state \in {"noindex", "hub", "unstructured"} PROVE Fits(ReadRow(state))
  BY DEF Rows, Mild, Stays, SameRow, ReadRow, Tag, Values, States
<1>5. \E row, again : Save(row, again) /\ Fits(row)
  <2>1. CASE Unchanged
    BY <1>3, <2>1 DEF Unchanged
  <2>2. CASE NotHtml
    BY <1>3, <2>2 DEF NotHtml
  <2>3. CASE SaveNoindex
    BY <1>4, <2>3 DEF SaveNoindex
  <2>4. CASE Hub
    BY <1>4, <2>4 DEF Hub
  <2>5. CASE Unstructured
    BY <1>4, <2>5 DEF Unstructured
  <2> QED
    BY <2>1, <2>2, <2>3, <2>4, <2>5
<1> PICK row, again : Save(row, again) /\ Fits(row)
  BY <1>5
<1>6. Between(run') /\ UNCHANGED <<site, items>> /\ Told
  BY <1>2, Endings DEF Unchanged, NotHtml, SaveNoindex, Hub, Unstructured
<1>7. \A p \in lost : p # run.at => p \in lost'
  BY <1>6 DEF Told
<1>8. IsRow(row)
  BY DEF IsRow
<1> QED
  BY <1>2, <1>6, <1>7, <1>8, RowStep

\* The canonical page is found, or links are: new rows.
LEMMA LinksIndInv ==
    ASSUME IndInv, Canonical \/ Links
    PROVE  IndInv'
<1>1. run.pc = "answer" /\ run.at \in Pages
  BY DEF Canonical, Links, Changed, There
<1>2. run.at \in Urls /\ IsRun(run)
  BY <1>1, AnsweredTyped
<1>3. UNCHANGED <<site, items, lost>>
  BY DEF Canonical, Links
<1>4. FrontierTyped' /\ FrontierMild /\ MissedIsLost'
  BY <1>3, EnqueueMild DEF Canonical, Links
<1>5. SiteTyped' /\ ItemsStay
  BY <1>3, NoItemStep DEF IndInv, Typed, SiteTyped
<1>6. CASE Links
  <2>1. GoesOn("linked")
    BY <1>2, <1>6, Matching DEF Links
  <2>2. RunTyped' /\ LeadsOn'
    BY <1>1, <1>2, <2>1 DEF GoesOn, RunTyped, LeadsOn, IndInv, Typed
  <2> QED
    BY <1>4, <1>5, <2>2, FrontierStep
<1>7. CASE Canonical
  <2> DEFINE page == run.got.canonical
  <2>1. GoesOn("duplicate")
    BY <1>2, <1>7, Matching DEF Canonical
  <2>2. page # run.at /\ page \in Known => frontier[page].state # "duplicate"
    BY <1>7 DEF Canonical, ReadElsewhere, CanonicalInReach
  <2>3. page # run.at /\ (page \in Pages => frontier[page].state # "duplicate")
    BY <1>7, <2>2 DEF Canonical, ReadElsewhere, CanonicalInReach, Known, Urls
  <2>4. page \in Pages => frontier'[page].state # "duplicate"
    BY <1>4, <2>3 DEF FrontierMild, RowsStay, Stays, SameRow
  <2>5. RunTyped' /\ LeadsOn'
    BY <1>1, <1>2, <2>1, <2>3, <2>4 DEF GoesOn, RunTyped, LeadsOn, IndInv, Typed
  <2> QED
    BY <1>4, <1>5, <2>5, FrontierStep
<1> QED
  BY <1>6, <1>7

\* The page that is set aside leads to one that is not.
LEMMA DuplicateIndInv ==
    ASSUME IndInv, SaveDuplicate
    PROVE  IndInv'
<1>1. run.pc = "duplicate" /\ run.at \in Pages /\ run.at \in Urls /\ IsRun(run)
  BY AnsweredTyped DEF SaveDuplicate, IndInv, Typed, RunTyped
<1> PICK S : At \in Rows(S) /\ Values \subseteq S
  BY <1>1, AtTyped
<1> DEFINE row == [ReadRow("duplicate") EXCEPT !.of = run.got.canonical]
<1>2. row \in Rows(S) /\ row.state = "duplicate" /\ row.of = run.got.canonical /\ ~row.missed
  BY DEF Rows, ReadRow, Tag, Values, States
<1>3. frontier' = [frontier EXCEPT ![run.at] = row] /\ UNCHANGED <<site, items>> /\ Told /\ Between(run')
  BY <1>1, Endings DEF SaveDuplicate, Save
<1> HIDE DEF row
<1>4. \A u \in Urls : frontier'[u] = IF u = run.at THEN row ELSE frontier[u]
  BY <1>3 DEF IndInv, Typed, FrontierTyped
<1>5. FrontierTyped' /\ MissedIsLost'
  <2>1. IsRow(row)
    BY <1>2 DEF IsRow
  <2>2. \A p \in lost : p # run.at => p \in lost'
    BY <1>3 DEF Told
  <2> QED
    BY <1>2, <1>3, <1>4, <2>1, <2>2 DEF IndInv, Typed, FrontierTyped, MissedIsLost, Urls
<1>6. KeptTyped' /\ KeptBacked' /\ ItemsStay
  <2>1. RowsStay("kept")
    BY <1>2, <1>4 DEF RowsStay, Stays, SameRow, Urls
  <2> QED
    BY <1>3, <2>1, KeptStay, NoItemStep
<1>7. DuplicatesEnd'
  <2> SUFFICES ASSUME NEW group \in SUBSET {p \in Pages : frontier'[p].state = "duplicate"}, group # {}
               PROVE  \E p \in group : frontier'[p].of \notin group
    BY DEF DuplicatesEnd
  <2>1. CASE run.at \in group
    <3>1. run.got.canonical \notin group
      BY <1>1, <1>4 DEF IndInv, LeadsOn, Urls
    <3> QED
      BY <1>1, <1>2, <1>4, <2>1, <3>1
  <2>2. CASE run.at \notin group
    <3>1. \A p \in group : p \in Pages /\ frontier'[p] = frontier[p]
      BY <1>4, <2>2 DEF Urls
    <3>2. group \in SUBSET {p \in Pages : frontier[p].state = "duplicate"}
      BY <3>1
    <3> QED
      BY <3>1, <3>2 DEF IndInv, DuplicatesEnd
  <2> QED
    BY <2>1, <2>2
<1>8. SiteTyped' /\ RunTyped' /\ LeadsOn'
  BY <1>3, BetweenTyped DEF IndInv, Typed, SiteTyped
<1> QED
  BY <1>5, <1>6, <1>7, <1>8 DEF IndInv, Typed, ItemsStay

\* The items of a page and its row, in one step.
LEMMA KeptIndInv ==
    ASSUME IndInv, Kept
    PROVE  IndInv'
<1>1. run.pc = "linked" /\ run.at \in Pages /\ run.at \in Urls /\ IsRun(run) /\ run.got \in Bodies[run.at]
  BY AnsweredTyped DEF Kept, IndInv, Typed, RunTyped
<1> PICK S : At \in Rows(S) /\ Values \subseteq S
  BY <1>1, AtTyped
<1> DEFINE row == ReadRow("kept")
<1>2. row \in Rows(S) /\ row.state = "kept" /\ row.hash = Body(run.got) /\ ~row.missed
  BY DEF Rows, ReadRow, Tag, Values, States
<1>3. /\ frontier' = [frontier EXCEPT ![run.at] = row] /\ items' = Ingested
      /\ UNCHANGED site /\ Told /\ Between(run')
  BY <1>1, Endings DEF Kept, Save
<1> HIDE DEF row
<1>4. \A u \in Urls : frontier'[u] = IF u = run.at THEN row ELSE frontier[u]
  BY <1>3 DEF IndInv, Typed, FrontierTyped
<1>5. FrontierTyped' /\ MissedIsLost'
  <2>1. IsRow(row)
    BY <1>2 DEF IsRow
  <2>2. \A p \in lost : p # run.at => p \in lost'
    BY <1>3 DEF Told
  <2> QED
    BY <1>2, <1>3, <1>4, <2>1, <2>2 DEF IndInv, Typed, FrontierTyped, MissedIsLost, Urls
<1>6. ItemsStay /\ \A i \in run.got.items \cap Items : items'[i].state # "absent"
  BY <1>1, <1>3 DEF Ingested, ItemsStay, ItemsTyped, IndInv, Typed
<1>7. row.hash.items = run.got.items /\ run.got.items \subseteq Items
  BY <1>1, <1>2, BodiesAssumption DEF Body
<1>8. KeptTyped' /\ KeptBacked'
  <2> SUFFICES ASSUME NEW p \in Pages, frontier'[p].state = "kept"
               PROVE  /\ frontier'[p].hash.items \subseteq Items
                      /\ \A i \in frontier'[p].hash.items : items'[i].state # "absent"
    BY DEF KeptTyped, KeptBacked
  <2>1. CASE p = run.at
    BY <1>4, <1>6, <1>7, <2>1 DEF Urls
  <2>2. CASE p # run.at
    <3>1. frontier'[p] = frontier[p]
      BY <1>4, <2>2 DEF Urls
    <3> QED
      BY <1>6, <3>1 DEF IndInv, Typed, KeptTyped, KeptBacked, ItemsStay
  <2> QED
    BY <2>1, <2>2
<1>9. DuplicatesEnd'
  <2>1. RowsStay("duplicate")
    BY <1>2, <1>4 DEF RowsStay, Stays, SameRow, Urls
  <2> QED
    BY <2>1, DuplicatesStay
<1>10. SiteTyped' /\ RunTyped' /\ LeadsOn'
  BY <1>3, BetweenTyped DEF IndInv, Typed, SiteTyped
<1> QED
  BY <1>5, <1>6, <1>8, <1>9, <1>10 DEF IndInv, Typed, ItemsStay

\* A sitemap: its own row, and new ones.
LEMMA MapIndInv ==
    ASSUME IndInv, MapStep
    PROVE  IndInv'
<1>1. run.pc \notin {"idle", "choose", "ask"}
  BY DEF MapStep, MapUnchanged, Unreadable, ReadListing, SaveListing, Listing
<1>2. run.at \in Urls /\ IsRun(run) /\ (run.at \in Pages => run.got \in Bodies[run.at])
  BY <1>1, AnsweredTyped
<1> PICK S : At \in Rows(S) /\ Values \subseteq S
  BY <1>2, AtTyped
<1>3. UNCHANGED <<site, items, lost>>
  BY DEF MapStep, MapUnchanged, Unreadable, ReadListing, SaveListing
<1>4. CASE ReadListing
  <2>1. FrontierTyped' /\ FrontierMild /\ MissedIsLost'
    BY <1>3, <1>4, EnqueueMild DEF ReadListing
  <2>2. SiteTyped' /\ ItemsStay
    BY <1>3, NoItemStep DEF IndInv, Typed, SiteTyped
  <2>3. GoesOn("listed")
    BY <1>2, <1>4, Matching DEF ReadListing
  <2>4. RunTyped' /\ LeadsOn'
    BY <1>2, <2>3 DEF GoesOn, RunTyped, LeadsOn
  <2> QED
    BY <2>1, <2>2, <2>4, FrontierStep
<1>5. CASE MapUnchanged \/ Unreadable \/ SaveListing
  <2> DEFINE same == [At EXCEPT !.state = "read", !.fetched = TRUE, !.missed = FALSE,
                                !.tag = IF run.same THEN @ ELSE Tag]
             failed == [At EXCEPT !.state = "failing", !.fetched = TRUE, !.missed = FALSE]
             Fits(row) == row \in Rows(S) /\ Mild(row, At) /\ ~row.missed
  <2>1. Fits(same) /\ Fits(failed) /\ Fits(ReadRow("read"))
    BY DEF Rows, Mild, Stays, SameRow, ReadRow, Tag, Values, States
  <2>2. \E row : Save(row, "later") /\ Fits(row)
    <3>1. CASE MapUnchanged
      BY <2>1, <3>1 DEF MapUnchanged
    <3>2. CASE Unreadable
      BY <2>1, <3>2 DEF Unreadable
    <3>3. CASE SaveListing
      BY <2>1, <3>3 DEF SaveListing
    <3> QED
      BY <1>5, <3>1, <3>2, <3>3
  <2> PICK row : Save(row, "later") /\ Fits(row)
    BY <2>2
  <2>3. Between(run')
    BY <1>2, <1>5, Endings DEF MapUnchanged, Unreadable, SaveListing
  <2>4. IsRow(row)
    BY DEF IsRow
  <2> QED
    BY <1>2, <1>3, <2>3, <2>4, RowStep
<1> QED
  BY <1>4, <1>5 DEF MapStep

LEMMA InternalErrorIndInv ==
    ASSUME IndInv, InternalError
    PROVE  IndInv'
<1>1. run.at \in Urls /\ IsRun(run)
  BY AnsweredTyped DEF InternalError
<1>2. IsRow(At) /\ Mild(At, At)
  BY <1>1, AtTyped DEF IsRow, Mild, Stays, SameRow
<1>3. Save(At, "later") /\ Between(run') /\ UNCHANGED <<site, items, lost>>
  BY <1>1, Endings DEF InternalError
<1>4. run.at \in Pages /\ At.missed => run.at \in lost'
  BY <1>3 DEF IndInv, MissedIsLost, At
<1> QED
  BY <1>1, <1>2, <1>3, <1>4, RowStep

LEMMA NoMatcherIndInv ==
    ASSUME IndInv, NoMatcher
    PROVE  IndInv'
<1>1. run.pc = "answer" /\ run' = [run EXCEPT !.barred = Urls] /\ UNCHANGED <<site, items, lost, frontier>>
  BY DEF NoMatcher, table
<1> PICK S : run \in RunsOf(S)
  BY DEF IndInv, Typed, RunTyped, IsRun
<1>2. run' \in RunsOf(S \cup {Urls})
  BY <1>1 DEF RunsOf
<1>3. IsRun(run') /\ run'.pc = "answer" /\ run'.at = run.at /\ run'.got = run.got
  BY <1>1, <1>2 DEF RunsOf, IsRun
<1>4. RunTyped' /\ LeadsOn'
  BY <1>1, <1>3 DEF RunTyped, LeadsOn, IndInv, Typed
<1>5. SiteTyped' /\ ItemsStay
  BY <1>1, NoItemStep DEF IndInv, Typed, SiteTyped
<1> QED
  BY <1>1, <1>4, <1>5, NoRowStep, FrontierStep

------------------------------------------------------------------------------
(* Between URLs, and around a run *)

LEMMA BeginIndInv ==
    ASSUME IndInv, Begin
    PROVE  IndInv'
<1>1. UNCHANGED <<site, items, lost>>
  BY DEF Begin
<1>2. FrontierTyped' /\ FrontierMild /\ MissedIsLost'
  BY <1>1, InsertMild DEF Begin
<1>3. SiteTyped' /\ ItemsStay
  BY <1>1, NoItemStep DEF IndInv, Typed, SiteTyped
<1>4. run' \in RunsOf({"choose", PagesPerRun, 0, {}, <<>>, wanted, Unread, NoUrl, NoBody, FALSE}) /\ run'.pc = "choose"
  BY DEF Begin, NoRun, RunsOf
<1>5. Between(run')
  BY <1>4 DEF Between, IsRun
<1> QED
  BY <1>2, <1>3, <1>5, BetweenTyped, FrontierStep

LEMMA TakeIndInv ==
    ASSUME IndInv, NEW u \in Urls, Take(u)
    PROVE  IndInv'
<1>1. UNCHANGED <<site, items, lost, frontier>>
  BY DEF Take, table
<1>2. SiteTyped' /\ ItemsStay
  BY <1>1, NoItemStep DEF IndInv, Typed, SiteTyped
<1> PICK S : run \in RunsOf(S)
  BY DEF IndInv, Typed, RunTyped, IsRun
<1> PICK tail : run' = [run EXCEPT !.pc = "ask", !.at = u, !.batch = tail, !.done = @ \cup {u}]
  BY DEF Take
<1>3. /\ run' \in RunsOf(S \cup {"ask", u, tail, run.done \cup {u}})
      /\ run'.pc = "ask" /\ run'.at = u
  BY DEF RunsOf
<1>4. RunTyped' /\ LeadsOn'
  BY <1>3 DEF RunTyped, LeadsOn, IsRun
<1> QED
  BY <1>1, <1>2, <1>4, NoRowStep, FrontierStep

LEMMA StopIndInv ==
    ASSUME IndInv, NothingDue \/ Cut
    PROVE  IndInv'
<1>1. UNCHANGED <<site, items, lost, frontier>> /\ Stop
  BY DEF NothingDue, Cut, Stop, table
<1>2. SiteTyped' /\ ItemsStay
  BY <1>1, NoItemStep DEF IndInv, Typed, SiteTyped
<1>3. Between(run')
  BY <1>1, Endings DEF IndInv, Typed, RunTyped
<1> QED
  BY <1>1, <1>2, <1>3, BetweenTyped, NoRowStep, FrontierStep

LEMMA OutsideIndInv ==
    ASSUME IndInv, SiteStep \/ (\E u \in Urls : BecomesDue(u)) \/ UNCHANGED vars
    PROVE  IndInv'
<1>1. UNCHANGED <<frontier, items, run, lost>>
  BY DEF SiteStep, Publish, Relist, Patch, Disallow, BecomesDue, vars, table
<1>2. SiteTyped'
  <2>1. CASE UNCHANGED site
    BY <2>1 DEF IndInv, Typed, SiteTyped
  <2>2. ASSUME NEW p \in Pages, NEW answer \in Bodies[p], NEW dated \in BOOLEAN, Publish(p, answer, dated)
        PROVE  SiteTyped'
    <3>1. \A q \in Pages : q \in Urls /\ q \notin Maps
      BY ConstantsAssumption DEF Urls
    <3>2. \A q \in Pages : site'[q] = IF q = p THEN answer ELSE site[q]
      BY <2>2, <3>1 DEF Publish
    <3>3. site' = [u \in Urls |-> site'[u]]
      BY <2>2 DEF Publish
    <3> QED
      BY <3>2, <3>3 DEF IndInv, Typed, SiteTyped
  <2>3. ASSUME NEW m \in Maps, NEW answer \in Bodies[m], Relist(m, answer)
        PROVE  SiteTyped'
    <3>1. PICK listing : site' = [site EXCEPT ![m] = listing]
      BY <2>3 DEF Relist
    <3>2. \A p \in Pages : site'[p] = site[p]
      BY <3>1, ConstantsAssumption DEF IndInv, Typed, SiteTyped, Urls
    <3> QED
      BY <3>1, <3>2 DEF IndInv, Typed, SiteTyped
  <2> QED
    BY <2>1, <2>2, <2>3 DEF SiteStep, Patch, Disallow, BecomesDue, vars
<1>3. ItemsStay /\ RunTyped' /\ LeadsOn'
  BY <1>1, NoItemStep DEF IndInv, Typed, RunTyped, LeadsOn
<1> QED
  BY <1>1, <1>2, <1>3, NoRowStep, FrontierStep

LEMMA InitIndInv == Init => IndInv
<1> SUFFICES ASSUME Init PROVE IndInv
  OBVIOUS
<1>1. FrontierTyped /\ MissedIsLost /\ KeptTyped /\ KeptBacked /\ DuplicatesEnd
  <2> DEFINE row == [NewRow(0) EXCEPT !.state = "unknown"]
  <2>1. row \in Rows({"unknown", FALSE, 0, NoBody, NoUrl}) /\ row.state = "unknown" /\ ~row.missed
    BY DEF NewRow, Rows
  <2>2. frontier = [u \in Urls |-> row]
    BY DEF Init
  <2> HIDE DEF row
  <2>3. IsRow(row)
    BY <2>1 DEF IsRow
  <2>4. \A u \in Urls : frontier[u] = row
    BY <2>2
  <2> QED
    BY <2>1, <2>2, <2>3, <2>4 DEF FrontierTyped, MissedIsLost, KeptTyped, KeptBacked, DuplicatesEnd, Urls
<1>2. SiteTyped /\ ItemsTyped
  BY BodiesAssumption DEF Init, SiteTyped, ItemsTyped
<1>3. RunTyped /\ LeadsOn
  <2>1. run \in RunsOf({"idle", 0, {}, <<>>, Unread, NoUrl, NoBody, FALSE}) /\ run.pc = "idle"
    BY DEF Init, NoRun, RunsOf
  <2> QED
    BY <2>1 DEF RunTyped, LeadsOn, IsRun
<1> QED
  BY <1>1, <1>2, <1>3 DEF IndInv, Typed

LEMMA NextIndInv ==
    ASSUME IndInv, [Next]_vars
    PROVE  IndInv'
<1>1. CASE PageStep
  BY <1>1, RetireIndInv, GoneIndInv, ReadIndInv, LinksIndInv, DuplicateIndInv, KeptIndInv DEF PageStep
<1> QED
  BY <1>1, AskIndInv, MapIndInv, InternalErrorIndInv, NoMatcherIndInv, BeginIndInv, TakeIndInv, StopIndInv, OutsideIndInv
     DEF Next, RunStep

------------------------------------------------------------------------------
(* What sitemaps list *)

\* Backed, of any set of known URLs.
BackedIn(K, urls) ==
    urls \subseteq K \/ IF urls \subseteq Maps THEN Cardinality(K \cap Maps) >= MaxMaps
                                           ELSE Cardinality(K \cap Pages) >= MaxPages

\* What a run has read of a sitemap is in the frontier before its hash is in the row.
SiteLists == \A m \in Maps : Lists(site[m])
Listed == run.at \in Maps /\ BackedIn(Known, run.got.urls \cap ((run.wanted \cup Maps) \ run.barred))
RunLists ==
    /\ run.pc \notin {"idle", "choose", "ask"} /\ run.at \in Maps => Lists(run.got)
    /\ run.pc = "listed" => Listed
RowsBacked ==
    /\ reach = [m \in Maps |-> reach[m]]
    /\ \A m \in Maps : frontier[m].hash # NoBody => BackedIn(Known, frontier[m].hash.urls \cap reach[m])
ListInv == SiteLists /\ RunLists /\ RowsBacked

\* No row is forgotten, and no sitemap's hash becomes another but in SaveListing.
Grows == \A u \in Urls : frontier[u].state # "unknown" => frontier'[u].state # "unknown"
HashesStay == \A m \in Maps : frontier'[m].hash \in {frontier[m].hash, NoBody}

LEMMA KindsAreFinite ==
    /\ \A K \in SUBSET Urls : IsFiniteSet(K)
    /\ Pages \subseteq Urls /\ Maps \subseteq Urls
    /\ MaxPages \in Nat \ {0} /\ MaxMaps \in Nat \ {0}
BY FS_Subset, ConstantsAssumption DEF Urls

\* Rows that come later do not take away what was there, and a cap that is full stays full.
LEMMA BackedGrows ==
    ASSUME NEW K, NEW L, K \subseteq L, L \subseteq Urls, NEW urls, BackedIn(K, urls)
    PROVE  BackedIn(L, urls)
<1>1. ASSUME NEW kind \in SUBSET Urls
      PROVE  /\ Cardinality(K \cap kind) <= Cardinality(L \cap kind)
             /\ Cardinality(K \cap kind) \in Nat /\ Cardinality(L \cap kind) \in Nat
  <2>1. IsFiniteSet(L \cap kind) /\ IsFiniteSet(K \cap kind)
    BY KindsAreFinite
  <2>2. K \cap kind \in SUBSET (L \cap kind)
    OBVIOUS
  <2> QED
    BY <2>1, <2>2, FS_Subset, FS_CardinalityType
<1>2. CASE urls \subseteq Maps
  <2>1. Cardinality(K \cap Maps) >= MaxMaps => Cardinality(L \cap Maps) >= MaxMaps
    BY <1>1, KindsAreFinite
  <2> QED
    BY <1>2, <2>1 DEF BackedIn
<1>3. CASE ~ (urls \subseteq Maps)
  <2>1. Cardinality(K \cap Pages) >= MaxPages => Cardinality(L \cap Pages) >= MaxPages
    BY <1>1, KindsAreFinite
  <2> QED
    BY <1>3, <2>1 DEF BackedIn
<1> QED
  BY <1>2, <1>3

LEMMA MaxAndMin ==
    ASSUME NEW x \in Int, NEW y \in Int
    PROVE  /\ Max({x, y}) = (IF x >= y THEN x ELSE y)
           /\ Min({x, y}) = (IF x <= y THEN x ELSE y)
<1>1. \E z \in {x, y} : \A w \in {x, y} : z >= w
  OBVIOUS
<1>2. \E z \in {x, y} : \A w \in {x, y} : z =< w
  OBVIOUS
<1>3. Max({x, y}) \in {x, y} /\ \A w \in {x, y} : Max({x, y}) >= w
  BY <1>1 DEF Max
<1>4. Min({x, y}) \in {x, y} /\ \A w \in {x, y} : Min({x, y}) =< w
  BY <1>2 DEF Min
<1> QED
  BY <1>3, <1>4

\* All that a list names is known after it is added, or the cap is reached.
LEMMA AddedOrFull ==
    ASSUME NEW kind \in SUBSET Urls, NEW urls \in SUBSET kind, NEW cap \in Nat,
           NEW new \in Admitted(urls, kind, cap)
    PROVE  urls \subseteq Known \cup new \/ Cardinality((Known \cup new) \cap kind) >= cap
<1> DEFINE fresh == urls \ Known
           left == cap - Cardinality(Known \cap kind)
           room == Max({0, left})
<1>1. Known \subseteq Urls /\ IsFiniteSet(Known \cap kind) /\ IsFiniteSet(fresh) /\ IsFiniteSet(Known)
  BY KindsAreFinite DEF Known
<1>2. Cardinality(Known \cap kind) \in Nat /\ Cardinality(fresh) \in Nat /\ left \in Int
  BY <1>1, FS_CardinalityType
<1>3. Max({0, left}) = (IF 0 >= left THEN 0 ELSE left)
  <2> HIDE DEF left
  <2> QED
    BY <1>2, MaxAndMin, SMTT(30)
<1>4. room \in Nat /\ (room = left \/ (room = 0 /\ left <= 0))
  BY <1>2, <1>3
<1>5. new \in SUBSET fresh /\ Cardinality(new) = Min({room, Cardinality(fresh)})
  BY DEF Admitted, kSubset
<1>6. Cardinality(new) = room \/ Cardinality(new) = Cardinality(fresh)
  <2> DEFINE size == Cardinality(fresh)
  <2>1. size \in Int /\ room \in Int
    BY <1>2, <1>4
  <2> HIDE DEF size, room
  <2>2. Min({room, size}) = (IF room <= size THEN room ELSE size)
    BY <2>1, MaxAndMin
  <2> QED
    BY <1>5, <2>2 DEF size, room
<1>7. CASE Cardinality(new) = Cardinality(fresh)
  BY <1>1, <1>5, <1>7, FS_Subset
<1>8. CASE Cardinality(new) = room
  <2>1. (Known \cup new) \cap kind = (Known \cap kind) \cup new /\ (Known \cap kind) \cap new = {}
    BY <1>5
  <2>2. IsFiniteSet(new)
    BY <1>1, <1>5, FS_Subset
  <2>3. Cardinality((Known \cap kind) \cup new)
          = Cardinality(Known \cap kind) + Cardinality(new) - Cardinality((Known \cap kind) \cap new)
    BY <1>1, <2>2, FS_Union
  <2>4. Cardinality((Known \cap kind) \cap new) = 0
    BY <2>1, FS_EmptySet
  <2>5. Cardinality((Known \cup new) \cap kind) = Cardinality((Known \cap kind) \cup new)
    BY <2>1
  <2> DEFINE before == Cardinality(Known \cap kind)
             after == Cardinality((Known \cup new) \cap kind)
  <2>6. before \in Nat /\ left \in Int /\ before + left = cap
    BY <1>2
  <2> HIDE DEF left
  <2>7. room \in Nat /\ (room = left \/ (room = 0 /\ left <= 0))
    BY <1>4
  <2> HIDE DEF room
  <2>8. after = before + room - 0
    BY <1>8, <2>3, <2>4, <2>5
  <2> HIDE DEF before, after
  <2>9. after >= cap
    BY <2>6, <2>7, <2>8
  <2> QED
    BY <2>9 DEF after
<1> QED
  BY <1>6, <1>7, <1>8

LEMMA InsertGrows ==
    ASSUME IndInv, NEW new, NEW touched, NEW depth, Insert(new, touched, depth)
    PROVE  /\ Grows /\ HashesStay
           /\ (new \subseteq Urls => Known' = Known \cup new)
<1>1. \A u \in Urls : frontier'[u] = IF u \in new THEN NewRow(depth) ELSE frontier[u]
  BY DEF Insert
<1>2. NewRow(depth).state = "new" /\ NewRow(depth).hash = NoBody
  BY DEF NewRow
<1>3. Grows
  BY <1>1, <1>2 DEF Grows
<1>4. HashesStay
  BY <1>1, <1>2 DEF HashesStay, Urls
<1>5. ASSUME new \subseteq Urls PROVE Known' = Known \cup new
  BY <1>1, <1>2, <1>5 DEF Known
<1> QED
  BY <1>3, <1>4, <1>5

\* One row changes.
Keeps(row) ==
    /\ row.state = At.state \/ row.state # "unknown"
    /\ run.at \in Maps => row.hash = At.hash

LEMMA SaveGrows ==
    ASSUME IndInv, run.at \in Urls, NEW row, NEW again, Save(row, again)
    PROVE  /\ row.state = At.state \/ row.state # "unknown" => Grows
           /\ Keeps(row) => HashesStay
<1>1. \A u \in Urls : frontier'[u] = IF u = run.at THEN row ELSE frontier[u]
  BY DEF Save, IndInv, Typed, FrontierTyped
<1> QED
  BY <1>1 DEF Grows, HashesStay, Keeps, At, Urls

LEMMA KnownGrows ==
    ASSUME Grows
    PROVE  Known \subseteq Known' /\ Known' \subseteq Urls
BY DEF Grows, Known

LEMMA BackedStays ==
    ASSUME ListInv, Grows, HashesStay, UNCHANGED reach
    PROVE  RowsBacked'
<1>1. reach' = [m \in Maps |-> reach'[m]]
  BY DEF ListInv, RowsBacked
<1>2. ASSUME NEW m \in Maps, frontier'[m].hash # NoBody
      PROVE  BackedIn(Known', frontier'[m].hash.urls \cap reach'[m])
  <2>1. frontier'[m].hash = frontier[m].hash
    BY <1>2 DEF HashesStay
  <2>2. BackedIn(Known, frontier[m].hash.urls \cap reach[m])
    BY <1>2, <2>1 DEF ListInv, RowsBacked
  <2> QED
    BY <2>1, <2>2, KnownGrows, BackedGrows
<1> QED
  BY <1>1, <1>2 DEF RowsBacked

\* A run has dealt with a URL.
Ends == run'.pc \in {"idle", "choose"}

LEMMA Ended ==
    ASSUME IsRun(run), Answered \/ Unanswered \/ NotRequested \/ Stop
    PROVE  Ends
BY Endings DEF Between, Ends

LEMMA EndStep ==
    ASSUME ListInv, RowsBacked', Ends, UNCHANGED site
    PROVE  ListInv'
BY DEF ListInv, SiteLists, RunLists, Ends

\* The step of a run on one row.
LEMMA RowListStep ==
    ASSUME IndInv, ListInv, run.at \in Urls,
           NEW row, NEW again, Save(row, again), Keeps(row),
           Answered \/ Unanswered \/ NotRequested \/ Stop, UNCHANGED <<site, reach>>
    PROVE  ListInv'
<1>1. Grows /\ HashesStay
  BY SaveGrows DEF Keeps
<1>2. Ends
  BY Ended DEF IndInv, Typed, RunTyped
<1> QED
  BY <1>1, <1>2, BackedStays, EndStep

\* A step that leaves the rows alone.
LEMMA NoRowList ==
    ASSUME ListInv, UNCHANGED <<frontier, reach>>
    PROVE  Grows /\ HashesStay /\ RowsBacked' /\ Known' = Known
BY DEF Grows, HashesStay, ListInv, RowsBacked, Known

LEMMA AskList ==
    ASSUME IndInv, ListInv, AskStep
    PROVE  ListInv'
<1>1. run.pc = "ask" /\ run.at \in Urls /\ IsRun(run)
  BY DEF AskStep, Exclude, HostClosed, Denied, HopRefused, TooLarge, BadRedirect, TimedOut, AskedToWait,
         OtherStatus, Answer, Misfortune, Asked, IndInv, Typed, RunTyped
<1>2. UNCHANGED <<site, reach>>
  BY DEF AskStep, Exclude, HostClosed, Denied, HopRefused, TooLarge, BadRedirect, TimedOut, AskedToWait,
         OtherStatus, Answer, Misfortune, Told
<1> PICK S : At \in Rows(S)
  BY <1>1, AtTyped
<1>3. CASE Answer
  <2>1. /\ run'.pc = "answer" /\ run'.at = run.at /\ run'.got = site[run.at]
        /\ UNCHANGED frontier
    <3>1. PICK T : run \in RunsOf(T)
      BY <1>1 DEF IsRun
    <3> QED
      BY <1>3, <3>1 DEF Answer, RunsOf, table
  <2> QED
    BY <1>1, <1>2, <2>1, NoRowList DEF ListInv, SiteLists, RunLists
<1>4. CASE HostClosed
  <2>1. UNCHANGED frontier /\ Ends
    BY <1>1, <1>4, Ended DEF HostClosed, table
  <2> QED
    BY <1>1, <1>2, <2>1, NoRowList, EndStep
<1>5. CASE ~Answer /\ ~HostClosed
  <2>1. \A state \in {"excluded", "denied", "too_large", "failing"}, f \in BOOLEAN :
          /\ Keeps([At EXCEPT !.state = state])
          /\ Keeps([At EXCEPT !.state = state, !.fetched = f])
    BY DEF Keeps, Rows
  <2>2. Keeps(At) /\ Keeps(Failing) /\ Keeps([Failing EXCEPT !.missed = FALSE])
    BY DEF Keeps, Failing, Rows
  <2>3. \E row, again : Save(row, again) /\ Keeps(row)
    BY <1>5, <2>1, <2>2
       DEF AskStep, Exclude, Denied, HopRefused, TooLarge, BadRedirect, TimedOut, AskedToWait, OtherStatus
  <2>4. Answered \/ Unanswered \/ NotRequested \/ Stop
    BY <1>5 DEF AskStep, Exclude, Denied, HopRefused, TooLarge, BadRedirect, TimedOut, AskedToWait, OtherStatus
  <2> QED
    BY <1>1, <1>2, <2>3, <2>4, RowListStep
<1> QED
  BY <1>3, <1>4, <1>5

\* A run that goes on with its URL, and adds rows or none.
LEMMA GoOnList ==
    ASSUME IndInv, ListInv, Grows, HashesStay, UNCHANGED <<site, reach>>,
           NEW pc, GoesOn(pc), run.pc \notin {"idle", "choose", "ask"}, pc = "listed" => Listed'
    PROVE  ListInv'
BY BackedStays DEF GoesOn, ListInv, SiteLists, RunLists

LEMMA PageList ==
    ASSUME IndInv, ListInv, PageStep
    PROVE  ListInv'
<1>1. run.pc \notin {"idle", "choose", "ask"}
  BY DEF PageStep, Missing, RetireGone, SaveGone, Unchanged, NotHtml, RetireNoindex, SaveNoindex,
         Canonical, SaveDuplicate, Links, Hub, Unstructured, Kept, Changed, There
<1>2. run.at \in Urls /\ IsRun(run)
  BY <1>1, AnsweredTyped
<1>3. UNCHANGED <<site, reach>>
  BY DEF PageStep, Missing, RetireGone, SaveGone, Unchanged, NotHtml, RetireNoindex, SaveNoindex,
         Canonical, SaveDuplicate, Links, Hub, Unstructured, Kept, Retire, Told
<1> PICK S : At \in Rows(S)
  BY <1>2, AtTyped
<1>4. CASE RetireGone \/ RetireNoindex
  <2>1. UNCHANGED frontier /\ \E pc \in {"gone", "noindex"} : GoesOn(pc)
    BY <1>2, <1>4, GoingOn DEF RetireGone, RetireNoindex, Retire, table
  <2> QED
    BY <1>1, <1>3, <2>1, NoRowList, GoOnList
<1>5. CASE Canonical \/ Links
  <2>1. Grows /\ HashesStay
    BY <1>5, InsertGrows DEF Canonical, Links, EnqueuePages
  <2>2. \E pc \in {"duplicate", "linked"} : GoesOn(pc)
    BY <1>2, <1>5, Matching DEF Canonical, Links
  <2> QED
    BY <1>1, <1>3, <2>1, <2>2, GoOnList
<1>6. CASE Missing \/ SaveGone
  <2>1. \A state \in {"missing", "gone"} : Keeps(MissingRow(state))
    BY DEF Keeps, MissingRow, Rows
  <2>2. \E row, again : Save(row, again) /\ Keeps(row)
    BY <1>6, <2>1 DEF Missing, SaveGone
  <2> QED
    BY <1>1, <1>2, <1>3, <1>6, <2>2, RowListStep DEF Missing, SaveGone
<1>7. CASE Unchanged \/ NotHtml \/ SaveNoindex \/ SaveDuplicate \/ Hub \/ Unstructured \/ Kept
  <2>1. run.at \notin Maps
    BY <1>7, ConstantsAssumption
       DEF Unchanged, NotHtml, SaveNoindex, SaveDuplicate, Hub, Unstructured, Kept, There, IndInv, Typed, RunTyped
  <2>2. \A state \in {"noindex", "hub", "unstructured", "kept"} : Keeps(ReadRow(state))
    BY <2>1 DEF Keeps, ReadRow, Rows
  <2>3. Keeps([ReadRow("duplicate") EXCEPT !.of = run.got.canonical])
    BY <2>1 DEF Keeps, ReadRow, Rows
  <2>4. Keeps([At EXCEPT !.fetched = TRUE, !.missed = FALSE, !.tag = IF run.at \in Tagged THEN Tag ELSE @])
    BY <2>1 DEF Keeps, Rows
  <2>5. Keeps([At EXCEPT !.state = "not_html", !.fetched = TRUE, !.missed = FALSE])
    BY <2>1 DEF Keeps, Rows
  <2>6. \E row, again : Save(row, again) /\ Keeps(row)
    BY <1>7, <2>2, <2>3, <2>4, <2>5 DEF Unchanged, NotHtml, SaveNoindex, SaveDuplicate, Hub, Unstructured, Kept
  <2>7. Answered
    BY <1>7 DEF Unchanged, NotHtml, SaveNoindex, SaveDuplicate, Hub, Unstructured, Kept
  <2> QED
    BY <1>1, <1>2, <1>3, <2>6, <2>7, RowListStep
<1> QED
  BY <1>4, <1>5, <1>6, <1>7 DEF PageStep

\* The rows are there before the hash: of what the matcher of the run lets through.
LEMMA ReadListingList ==
    ASSUME IndInv, ListInv, ReadListing
    PROVE  ListInv'
<1>1. run.pc = "answer" /\ run.at \in Maps /\ Lists(run.got) /\ IsRun(run)
  BY DEF ReadListing, Listing, ListInv, RunLists, IndInv, Typed, RunTyped
<1> DEFINE urls == run.got.urls
           asked == urls \cap (run.wanted \cup Maps)
           through == urls \cap ((run.wanted \cup Maps) \ Barred)
<1>2. /\ GoesOn("listed") /\ run'.wanted = run.wanted
      /\ run'.barred = (IF asked = {} THEN run.barred ELSE Barred)
  BY <1>1, Matching DEF ReadListing, Compiled
<1>3. \E new, touched, depth :
        new \subseteq Urls /\ Insert(new, touched, depth) /\ BackedIn(Known \cup new, through)
  <2>1. CASE urls \subseteq Maps
    <3>1. PICK new \in Admitted(urls \ Barred, Maps, MaxMaps) : Insert(new, {}, 0)
      BY <2>1 DEF ReadListing, EnqueueMaps
    <3>2. new \in SUBSET Urls /\ urls \ Barred \in SUBSET Maps
      BY <2>1, <3>1, KindsAreFinite DEF Admitted, kSubset
    <3>3. urls \ Barred \subseteq Known \cup new \/ Cardinality((Known \cup new) \cap Maps) >= MaxMaps
      BY <3>1, <3>2, KindsAreFinite, AddedOrFull
    <3>4. through = urls \ Barred
      BY <2>1
    <3>5. BackedIn(Known \cup new, through)
      BY <3>2, <3>3, <3>4 DEF BackedIn
    <3> QED
      BY <3>1, <3>2, <3>5
  <2>2. CASE ~ (urls \subseteq Maps)
    <3> DEFINE list == (urls \cap run.wanted) \ Barred
    <3>1. PICK new \in Admitted(list, Pages, MaxPages) : Insert(new, Touched(list), 0)
      BY <2>2 DEF ReadListing, EnqueuePages
    <3>2. new \in SUBSET Urls /\ list \in SUBSET Pages
      BY <1>1, <2>2, <3>1, KindsAreFinite DEF Admitted, kSubset, Lists
    <3>3. list \subseteq Known \cup new \/ Cardinality((Known \cup new) \cap Pages) >= MaxPages
      BY <3>1, <3>2, KindsAreFinite, AddedOrFull
    <3>4. through = list
      BY <1>1, <2>2, ConstantsAssumption DEF Lists
    <3>5. list \subseteq Maps => list \subseteq Known
      BY <3>2, ConstantsAssumption
    <3>6. BackedIn(Known \cup new, through)
      BY <3>3, <3>4, <3>5 DEF BackedIn
    <3> QED
      BY <3>1, <3>2, <3>6
  <2> QED
    BY <2>1, <2>2
<1> PICK new, touched, depth :
        new \subseteq Urls /\ Insert(new, touched, depth) /\ BackedIn(Known \cup new, through)
  BY <1>3
<1>4. Grows /\ HashesStay /\ Known' = Known \cup new
  BY InsertGrows
<1>5. Listed'
  <2>1. run'.at \in Maps /\ run'.got.urls = urls
    BY <1>1, <1>2 DEF GoesOn
  <2>2. BackedIn(Known', urls \cap ((run.wanted \cup Maps) \ run'.barred))
    <3>1. CASE asked = {}
      <4>1. urls \cap ((run.wanted \cup Maps) \ run'.barred) = {}
        BY <3>1
      <4> QED
        BY <4>1 DEF BackedIn
    <3>2. CASE asked # {}
      BY <1>2, <1>4, <3>2
    <3> QED
      BY <3>1, <3>2
  <2> QED
    BY <1>2, <2>1, <2>2 DEF Listed
<1>6. UNCHANGED <<site, reach>>
  BY DEF ReadListing
<1> QED
  BY <1>1, <1>2, <1>4, <1>5, <1>6, GoOnList

LEMMA SaveListingList ==
    ASSUME IndInv, ListInv, SaveListing
    PROVE  ListInv'
<1> DEFINE through == (run.wanted \cup Maps) \ run.barred
<1>1. run.pc = "listed" /\ run.at \in Maps /\ Lists(run.got) /\ BackedIn(Known, run.got.urls \cap through)
  BY DEF SaveListing, ListInv, RunLists, Listed
<1>2. run.at \in Urls /\ IsRun(run)
  BY <1>1, AnsweredTyped
<1> PICK S : At \in Rows(S)
  BY <1>2, AtTyped
<1> DEFINE row == ReadRow("read")
<1>3. row.state = "read" /\ row.hash = Body(run.got)
  BY DEF ReadRow, Rows
<1>4. Save(row, "later") /\ Ends /\ UNCHANGED site /\ reach' = [reach EXCEPT ![run.at] = through]
  BY <1>2, Ended DEF SaveListing
<1> HIDE DEF row, through
<1>5. Grows
  BY <1>2, <1>3, <1>4, SaveGrows
<1>6. \A u \in Urls : frontier'[u] = IF u = run.at THEN row ELSE frontier[u]
  BY <1>4 DEF Save, IndInv, Typed, FrontierTyped
<1>7. Body(run.got).urls = run.got.urls
  BY <1>1 DEF Lists, Body
<1>8. RowsBacked'
  <2>1. reach' = [m \in Maps |-> reach'[m]] /\ \A m \in Maps : reach'[m] = IF m = run.at THEN through ELSE reach[m]
    BY <1>4 DEF ListInv, RowsBacked
  <2>2. ASSUME NEW m \in Maps, frontier'[m].hash # NoBody
        PROVE  BackedIn(Known', frontier'[m].hash.urls \cap reach'[m])
    <3>1. BackedIn(Known, frontier'[m].hash.urls \cap reach'[m])
      BY <1>1, <1>3, <1>6, <1>7, <2>1, <2>2 DEF ListInv, RowsBacked, Urls
    <3> QED
      BY <1>5, <3>1, KnownGrows, BackedGrows
  <2> QED
    BY <2>1, <2>2 DEF RowsBacked
<1> QED
  BY <1>4, <1>8, EndStep

LEMMA MapList ==
    ASSUME IndInv, ListInv, MapStep
    PROVE  ListInv'
<1>1. CASE MapUnchanged \/ Unreadable
  <2>1. run.at \in Urls /\ IsRun(run) /\ UNCHANGED <<site, reach>> /\ Answered
    BY <1>1, AnsweredTyped DEF MapUnchanged, Unreadable, Listing
  <2> PICK S : At \in Rows(S)
    BY <2>1, AtTyped
  <2>2. /\ Keeps([At EXCEPT !.state = "read", !.fetched = TRUE, !.missed = FALSE,
                            !.tag = IF run.same THEN @ ELSE Tag])
        /\ Keeps([At EXCEPT !.state = "failing", !.fetched = TRUE, !.missed = FALSE])
    BY DEF Keeps, Rows
  <2>3. \E row, again : Save(row, again) /\ Keeps(row)
    BY <1>1, <2>2 DEF MapUnchanged, Unreadable
  <2> QED
    BY <2>1, <2>3, RowListStep
<1> QED
  BY <1>1, ReadListingList, SaveListingList DEF MapStep

LEMMA AroundList ==
    ASSUME IndInv, ListInv,
           Begin \/ (\E u \in Urls : Take(u)) \/ NothingDue \/ InternalError \/ NoMatcher \/ Cut
    PROVE  ListInv'
<1>1. UNCHANGED <<site, reach>>
  BY DEF Begin, Take, NothingDue, InternalError, NoMatcher, Cut
<1>2. CASE Begin
  <2>1. Grows /\ HashesStay
    BY <1>2, InsertGrows DEF Begin
  <2>2. run'.pc = "choose"
    BY <1>2 DEF Begin, NoRun
  <2> QED
    BY <1>1, <2>1, <2>2, BackedStays DEF ListInv, SiteLists, RunLists
<1>3. ASSUME NEW u \in Urls, Take(u) PROVE ListInv'
  <2>1. UNCHANGED frontier
    BY <1>3 DEF Take, table
  <2> PICK S : run \in RunsOf(S)
    BY DEF IndInv, Typed, RunTyped, IsRun
  <2> PICK tail : run' = [run EXCEPT !.pc = "ask", !.at = u, !.batch = tail, !.done = @ \cup {u}]
    BY <1>3 DEF Take
  <2>2. run'.pc = "ask"
    BY DEF RunsOf
  <2> QED
    BY <1>1, <2>1, <2>2, NoRowList DEF ListInv, SiteLists, RunLists
<1>4. CASE NothingDue \/ Cut
  <2>1. UNCHANGED frontier /\ Stop
    BY <1>4 DEF NothingDue, Cut, table, Stop
  <2>2. Ends
    BY <2>1, Ended DEF IndInv, Typed, RunTyped
  <2> QED
    BY <1>1, <2>1, <2>2, NoRowList, EndStep
<1>5. CASE InternalError
  <2>1. run.at \in Urls
    BY <1>5, AnsweredTyped DEF InternalError
  <2>2. Keeps(At)
    BY DEF Keeps
  <2> QED
    BY <1>1, <1>5, <2>1, <2>2, RowListStep DEF InternalError
<1>6. CASE NoMatcher
  <2>1. UNCHANGED frontier /\ run.pc = "answer" /\ run' = [run EXCEPT !.barred = Urls]
    BY <1>6 DEF NoMatcher, table
  <2> PICK S : run \in RunsOf(S)
    BY DEF IndInv, Typed, RunTyped, IsRun
  <2>2. run'.pc = "answer" /\ run'.at = run.at /\ run'.got = run.got
    BY <2>1 DEF RunsOf
  <2> QED
    BY <1>1, <2>1, <2>2, NoRowList DEF ListInv, SiteLists, RunLists
<1> QED
  BY <1>2, <1>3, <1>4, <1>5, <1>6

LEMMA OutsideList ==
    ASSUME IndInv, ListInv, SiteStep \/ (\E u \in Urls : BecomesDue(u)) \/ UNCHANGED vars
    PROVE  ListInv'
<1>1. UNCHANGED <<frontier, run, reach>>
  BY DEF SiteStep, Publish, Relist, Patch, Disallow, BecomesDue, vars, table
<1>2. SiteLists'
  <2>1. CASE UNCHANGED site
    BY <2>1 DEF ListInv, SiteLists
  <2>2. ASSUME NEW p \in Pages, NEW answer \in Bodies[p], NEW dated \in BOOLEAN, Publish(p, answer, dated)
        PROVE  SiteLists'
    <3> SUFFICES ASSUME NEW m \in Maps PROVE Lists(site'[m])
      BY DEF SiteLists
    <3>1. m # p /\ m \in Urls
      BY ConstantsAssumption DEF Urls
    <3>2. site'[m] = site[m] \/ site'[m] = [site[m] EXCEPT !.rev = edits + 1]
      BY <2>2, <3>1 DEF Publish
    <3>3. Lists(site[m])
      BY DEF ListInv, SiteLists
    <3> QED
      BY <3>2, <3>3 DEF Lists
  <2>3. ASSUME NEW k \in Maps, NEW answer \in Bodies[k], Relist(k, answer)
        PROVE  SiteLists'
    <3>1. Lists([answer EXCEPT !.rev = edits + 1])
      <4>1. Lists(answer)
        BY BodiesAssumption
      <4> QED
        BY <4>1 DEF Lists
    <3>2. \A u \in Urls : site'[u] = IF u = k THEN [answer EXCEPT !.rev = edits + 1] ELSE site[u]
      BY <2>3 DEF Relist, IndInv, Typed, SiteTyped
    <3> QED
      BY <3>1, <3>2 DEF ListInv, SiteLists, Urls
  <2> QED
    BY <2>1, <2>2, <2>3 DEF SiteStep, Patch, Disallow, BecomesDue, vars
<1> QED
  BY <1>1, <1>2, NoRowList DEF ListInv, RunLists, Listed

LEMMA InitList == Init => ListInv
<1> SUFFICES ASSUME Init PROVE ListInv
  OBVIOUS
<1>1. SiteLists
  BY BodiesAssumption DEF Init, SiteLists
<1>2. run.pc = "idle"
  BY DEF Init, NoRun
<1>3. \A m \in Maps : frontier[m].hash = NoBody
  BY DEF Init, NewRow, Urls
<1> QED
  BY <1>1, <1>2, <1>3 DEF Init, ListInv, RunLists, RowsBacked

LEMMA NextList ==
    ASSUME IndInv, ListInv, [Next]_vars
    PROVE  ListInv'
BY AskList, PageList, MapList, AroundList, OutsideList DEF Next, RunStep

------------------------------------------------------------------------------
(* Theorems *)

\* A page is skipped as unchanged only when its items are in the store (server/crawl.js).
THEOREM SkippedIsStored == Spec => []KeptBacked
<1>1. IndInv => KeptBacked
  BY DEF IndInv
<1> QED
  BY <1>1, InitIndInv, NextIndInv, PTL DEF Spec

\* A sitemap is skipped as unchanged only when what it lists is in the frontier, or was
\* kept out of it by a cap that is still reached, by the settings, or by robots.txt as the
\* matcher of the run that read it had it.
THEOREM SkippedIsListed == Spec => []ListingBacked
<1>1. IndInv /\ ListInv => ListingBacked
  BY DEF ListInv, RowsBacked, ListingBacked, Backed, Full, BackedIn
<1>2. Init => IndInv /\ ListInv
  BY InitIndInv, InitList
<1>3. IndInv /\ ListInv /\ [Next]_vars => (IndInv /\ ListInv)'
  BY NextIndInv, NextList
<1> QED
  BY <1>1, <1>2, <1>3, PTL DEF Spec

\* Pages that name each other as canonical are never all set aside.
THEOREM SomePageIsRead == Spec => []DuplicatesEnd
<1>1. IndInv => DuplicatesEnd
  BY DEF IndInv
<1> QED
  BY <1>1, InitIndInv, NextIndInv, PTL DEF Spec

\* Items leave with a page that answers 410 or noindex, or 404 when the last status
\* recorded of the page is 404 or 410.
THEOREM OnlyGoneRetires == Spec => RetiresOnlyGone
<1> DEFINE Leaves == \A i \in Items :
             items[i].state = "live" /\ items'[i].state = "removed" =>
                 /\ items[i].of = run.at
                 /\ Noindex(run.got) \/ run.got.status = 410 \/ (run.got.status = 404 /\ run.at \in lost)
<1>1. IndInv /\ [Next]_vars => Leaves
  <2> SUFFICES ASSUME IndInv, [Next]_vars, NEW i \in Items,
                      items[i].state = "live", items'[i].state = "removed"
               PROVE  /\ items[i].of = run.at
                      /\ Noindex(run.got) \/ run.got.status = 410 \/ (run.got.status = 404 /\ run.at \in lost)
    OBVIOUS
  <2>1. CASE UNCHANGED items
    BY <2>1
  <2>2. CASE Kept
    BY <2>2 DEF Kept, Ingested, IndInv, Typed, ItemsTyped
  <2>3. CASE RetireGone \/ RetireNoindex
    <3>1. items[i].of = run.at
      <4> DEFINE live == {j \in Items : items[j] = [state |-> "live", of |-> run.at]}
      <4>1. PICK gone \in SUBSET live :
              items' = [j \in Items |-> IF j \in gone THEN [items[j] EXCEPT !.state = "removed"] ELSE items[j]]
        BY <2>3 DEF RetireGone, RetireNoindex, Retire, RetireItems, kSubset
      <4>2. i \in live
        BY <4>1
      <4> QED
        BY <4>2
    <3>2. run.at \in Pages
      <4>1. run.at \in Urls
        BY <2>3, AnsweredTyped DEF RetireGone, RetireNoindex, Changed, There
      <4> QED
        BY <3>1, <4>1, ConstantsAssumption DEF IndInv, Typed, ItemsTyped
    <3>3. At.missed => run.at \in lost
      BY <3>2 DEF IndInv, MissedIsLost, At
    <3> QED
      BY <2>3, <3>1, <3>3 DEF RetireGone, RetireNoindex, SecondMiss, Changed, IsGone
  <2> QED
    BY <2>1, <2>2, <2>3
       DEF Next, RunStep, AskStep, PageStep, MapStep, SiteStep, vars, Begin, Take, NothingDue, Cut, BecomesDue,
           Publish, Relist, Patch, Disallow, NoMatcher, Exclude, HostClosed, Denied, HopRefused, TooLarge, BadRedirect, TimedOut,
           AskedToWait, OtherStatus, Answer, Misfortune, Missing, SaveGone, Unchanged, NotHtml, SaveNoindex,
           Canonical, SaveDuplicate, Links, Hub, Unstructured, MapUnchanged, Unreadable, ReadListing,
           SaveListing, InternalError
<1> HIDE DEF Leaves
<1>2. Spec => [][Leaves]_vars
  BY <1>1, InitIndInv, NextIndInv, PTL DEF Spec
<1> QED
  BY <1>2 DEF RetiresOnlyGone, Leaves
=============================================================================

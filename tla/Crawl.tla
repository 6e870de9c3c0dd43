------------------------------- MODULE Crawl --------------------------------
(***************************************************************************)
(* One crawl source: its frontier (server/crawl.js), the runs that walk    *)
(* it, the items it keeps (items.ingest, items.retireRun) and the site,    *)
(* which changes meanwhile.                                                *)
(*                                                                         *)
(* Runs of a source exclude each other (Ingest), so there is one run.  It  *)
(* stops between any two of its commits when the process does.  A due time *)
(* is "now", in the order of next_fetch_at, or "later", or never: how long *)
(* later is (recrawl_sec, its growth, back-off, a month for what is gone)  *)
(* is left out, but it is longer than a run (SOURCES_CRAWL_RUN_MS).        *)
(* robots.txt is the module Polite's; here it is the set of the URLs that  *)
(* the policy in the cache refuses, and now and then it is unreachable.    *)
(***************************************************************************)
EXTENDS Integers, Sequences, FiniteSets, SequencesExt, FiniteSetsExt

CONSTANTS
    Pages, Maps,    \* URLs of pages and of sitemaps
    Seeds,          \* the endpoints, and the sitemaps robots.txt names
    Items,
    Bodies,         \* what each URL can answer
    Site,           \* what it answers at first
    Tagged,         \* those that come with an ETag and answer 304 to it
    Scopes,         \* the pages that a setting of include and exclude lets through
    Policies,       \* the URLs that a policy of robots.txt refuses
    FollowLinks, MaxDepth, MaxPages, MaxMaps,
    PagesPerRun,    \* the requests of one run
    MapBatch, PageBatch,    \* rows of one query of due rows: 5 and 50
    StreakLimit,    \* STREAK_LIMIT
    RetireLimit,    \* rows of one retireRun: 500
    MaxEdits, MaxFaults,    \* bounds: changes of the site or the settings, and misfortunes
    NoUrl, NoBody

Urls == Pages \cup Maps

ASSUME ConstantsAssumption ==
    /\ IsFiniteSet(Urls) /\ Pages \cap Maps = {}
    /\ Seeds \subseteq Urls /\ Tagged \subseteq Urls
    /\ \A scope \in Scopes : scope \subseteq Pages
    /\ \A policy \in Policies : policy \subseteq Urls
    /\ FollowLinks \in BOOLEAN /\ MaxDepth \in Nat
    /\ \A n \in {MaxPages, MaxMaps, PagesPerRun, MapBatch, PageBatch, StreakLimit, RetireLimit} :
         n \in Nat \ {0}
    /\ MaxEdits \in Nat /\ MaxFaults \in Nat
    /\ NoUrl \notin Urls

\* A sitemap lists pages, a sitemap index sitemaps.
Lists(b) == "urls" \in DOMAIN b /\ (b.urls \subseteq Maps \/ b.urls \subseteq Pages)

\* What a page and a sitemap answer.
ASSUME BodiesAssumption ==
    /\ Site \in [Urls -> UNION {Bodies[u] : u \in Urls}]
    /\ \A p \in Pages :
         /\ Site[p] \in Bodies[p]
         /\ \A b \in Bodies[p] : "items" \in DOMAIN b /\ b.items \subseteq Items
    /\ \A m \in Maps : Lists(Site[m]) /\ \A b \in Bodies[m] : Lists(b)

VARIABLES
    site,       \* what each URL answers
    newer,      \* pages whose <lastmod> is newer than their last fetch
    wanted,     \* the pages the settings let through
    barred,     \* the URLs the policy in the cache refuses
    frontier,   \* crawl_frontier, by URL
    due,        \* the URLs whose next_fetch_at has come, in its order
    later,      \* those whose next_fetch_at will come
    items,      \* items rows: their state, and the page whose last ok run they carry
    run,        \* the run in this process
    lost,       \* observer: the pages whose last status that a run recorded was 404 or 410
    reach,      \* observer: what the run that saved a sitemap's hash let through
    edits, faults

vars == <<site, newer, wanted, barred, frontier, due, later, items, run, lost, reach, edits, faults>>
table == <<frontier, due, later>>

------------------------------------------------------------------------------
(* Answers and rows *)

\* Neither sha256(res.body) nor, on most servers, the ETag changes with a header.
Body(answer) == [answer EXCEPT !.xrobots = FALSE]
Noindex(answer) == answer.noindex \/ answer.xrobots
IsGone(answer) == answer.status \in {404, 410}

Answers == UNION {Bodies[p] : p \in Pages}
           \cup {[b EXCEPT !.rev = r] : b \in UNION {Bodies[m] : m \in Maps}, r \in 0..MaxEdits}

States == {"unknown", "new", "kept", "hub", "unstructured", "noindex", "duplicate", "not_html",
           "too_large", "excluded", "denied", "missing", "gone", "failing", "read"}

\* last_status is kept as far as a later answer looks at it; `of` is the canonical
\* URL that the run row of a duplicate names.
Row == [state : States, fetched : BOOLEAN, depth : 0..(MaxDepth + 1), missed : BOOLEAN,
        tag : Answers \cup {NoBody}, hash : Answers \cup {NoBody}, of : Pages \cup {NoUrl}]

NewRow(depth) == [state |-> "new", fetched |-> FALSE, depth |-> depth, missed |-> FALSE,
                  tag |-> NoBody, hash |-> NoBody, of |-> NoUrl]
Known == {u \in Urls : frontier[u].state # "unknown"}
At == frontier[run.at]

\* A run has no matcher before the first URL that it asks one about (scopeOf).
Unread == {NoUrl}

Run == [pc : {"idle", "choose", "ask", "answer", "gone", "noindex", "duplicate", "linked", "listed"},
        budget : 0..PagesPerRun, streak : 0..StreakLimit, done : SUBSET Urls,
        batch : Seq(Urls), wanted : SUBSET Pages, barred : Policies \cup {Unread, Urls}, at : Urls \cup {NoUrl},
        got : Answers \cup {NoBody}, same : BOOLEAN]
NoRun == [pc |-> "idle", budget |-> 0, streak |-> 0, done |-> {}, batch |-> <<>>, wanted |-> {},
          barred |-> Unread, at |-> NoUrl, got |-> NoBody, same |-> FALSE]

TypeOK ==
    /\ site \in [Urls -> Answers]
    /\ newer \subseteq Pages /\ wanted \subseteq Pages /\ barred \in Policies
    /\ frontier \in [Urls -> Row]
    /\ IsInjective(due) /\ ToSet(due) \cap later = {} /\ ToSet(due) \cup later \subseteq Known
    /\ items \in [Items -> [state : {"absent", "live", "removed"}, of : Pages \cup {NoUrl}]]
    /\ run \in Run
    /\ lost \subseteq Pages /\ reach \in [Maps -> SUBSET Urls]
    /\ edits \in 0..MaxEdits /\ faults \in 0..MaxFaults

Init ==
    /\ site = Site
    /\ newer = {}
    /\ wanted \in Scopes /\ barred \in Policies
    /\ frontier = [u \in Urls |-> [NewRow(0) EXCEPT !.state = "unknown"]]
    /\ due = <<>> /\ later = {}
    /\ items = [i \in Items |-> [state |-> "absent", of |-> NoUrl]]
    /\ run = NoRun
    /\ lost = {} /\ reach = [u \in Maps |-> Urls]
    /\ edits = 0 /\ faults = 0

------------------------------------------------------------------------------
(* The site, the settings and the clock *)

\* A page changes.  The sitemaps that list it may say so with a newer <lastmod>.
Publish(p, answer, dated) ==
    /\ edits < MaxEdits /\ edits' = edits + 1
    /\ answer # site[p]
    /\ site' = [u \in Urls |->
                  IF u = p THEN answer
                  ELSE IF dated /\ u \in Maps /\ p \in site[u].urls
                       THEN [site[u] EXCEPT !.rev = edits + 1]
                  ELSE site[u]]
    /\ newer' = IF dated THEN newer \cup {p} ELSE newer
    /\ UNCHANGED <<wanted, barred, table, items, run, lost, reach, faults>>

\* A sitemap lists something else.
Relist(m, answer) ==
    /\ edits < MaxEdits /\ edits' = edits + 1
    /\ answer # site[m]
    /\ site' = [site EXCEPT ![m] = [answer EXCEPT !.rev = edits + 1]]
    /\ UNCHANGED <<newer, wanted, barred, table, items, run, lost, reach, faults>>

\* PATCH of include or exclude: the next run reads it.
Patch(scope) ==
    /\ edits < MaxEdits /\ edits' = edits + 1
    /\ scope # wanted /\ wanted' = scope
    /\ UNCHANGED <<site, newer, barred, table, items, run, lost, reach, faults>>

\* robots.txt says something else, and the policy in the cache is loaded again.
Disallow(policy) ==
    /\ edits < MaxEdits /\ edits' = edits + 1
    /\ policy # barred /\ barred' = policy
    /\ UNCHANGED <<site, newer, wanted, table, items, run, lost, reach, faults>>

\* A next_fetch_at comes; those a run has set come after the run.
BecomesDue(u) ==
    /\ u \in later \ run.done
    /\ later' = later \ {u} /\ due' = Append(due, u)
    /\ UNCHANGED <<site, newer, wanted, barred, frontier, items, run, lost, reach, edits, faults>>

------------------------------------------------------------------------------
(* The frontier *)

\* addMany: the rows that fit under the cap, in the order of the list.
Admitted(urls, kind, cap) ==
    LET new == urls \ Known
        room == Max({0, cap - Cardinality(Known \cap kind)})
    IN  kSubset(Min({room, Cardinality(new)}), new)

TouchedScheduled(urls) ==   \* mutant: only a row that has a next_fetch_at
    {p \in urls \cap newer : frontier[p].fetched /\ p \in ToSet(due) \cup later}
\* touchLastmod
Touched(urls) ==
    {p \in urls \cap newer : frontier[p].fetched
                             /\ frontier[p].state \notin {"noindex", "duplicate", "excluded"}}

\* The new rows, and what is due with them from now on.
Insert(new, touched, depth) ==
    LET now == (new \cup touched) \ ToSet(due) IN
    /\ frontier' = [u \in Urls |-> IF u \in new THEN NewRow(depth) ELSE frontier[u]]
    /\ due' = due \o SetToSeq(now)
    /\ later' = later \ now

\* The matcher of the run: once compiled, it is kept to the end.
Barred == IF run.barred = Unread THEN barred ELSE run.barred
Compiled(urls) == IF urls = {} THEN run.barred ELSE Barred

EnqueuePages(urls, depth) ==
    LET list == (urls \cap run.wanted) \ Barred IN
    \E new \in Admitted(list, Pages, MaxPages) : Insert(new, Touched(list), depth)

EnqueueMaps(urls) ==
    \E new \in Admitted(urls \ Barred, Maps, MaxMaps) : Insert(new, {}, 0)

\* save: the row of the URL at hand, and when it is due again.
Save(row, again) ==
    /\ frontier' = [frontier EXCEPT ![run.at] = row]
    /\ due' = SelectSeq(due, LAMBDA u : u # run.at)
    /\ later' = IF again = "later" THEN later \cup {run.at} ELSE later \ {run.at}

\* last_fetch_at is the time of the answer: what changed since is newer still.
Fetched ==
    newer' = IF run.pc = "ask" \/ site[run.at] = run.got THEN newer \ {run.at} ELSE newer

Told ==
    /\ lost' = IF IsGone(run.got) THEN lost \cup (Pages \cap {run.at}) ELSE lost \ {run.at}
    /\ UNCHANGED reach

------------------------------------------------------------------------------
(* A run *)

\* The seeds are known from now on; known rows are left as they are.
Begin ==
    /\ run.pc = "idle"
    /\ run' = [NoRun EXCEPT !.pc = "choose", !.budget = PagesPerRun, !.wanted = wanted]
    /\ Insert(Seeds \ Known, {}, 0)
    /\ UNCHANGED <<site, newer, wanted, barred, items, lost, reach, edits, faults>>

DueRowsNewestFirst(kind, n) ==  \* mutant: ORDER BY next_fetch_at DESC
    LET rows == Reverse(SelectSeq(due, LAMBDA u : u \in kind)) IN
    SelectSeq(SubSeq(rows, 1, Min({n, Len(rows)})), LAMBDA u : u \notin run.done)
\* The due rows of one kind, at most n of them, without those this run had.
DueRows(kind, n) ==
    LET rows == SelectSeq(due, LAMBDA u : u \in kind) IN
    SelectSeq(SubSeq(rows, 1, Min({n, Len(rows)})), LAMBDA u : u \notin run.done)

Batch ==
    IF DueRows(Maps, MapBatch) # <<>> THEN DueRows(Maps, MapBatch)
    ELSE DueRows(Pages, Min({run.budget, PageBatch}))

\* The next row of the batch, or of a new one: sitemaps first, then pages.
Take(u) ==
    LET batch == IF run.batch # <<>> THEN run.batch ELSE Batch IN
    /\ run.pc = "choose" /\ batch # <<>> /\ u = Head(batch)
    /\ run' = [run EXCEPT !.pc = "ask", !.at = u, !.batch = Tail(batch), !.done = @ \cup {u}]
    /\ UNCHANGED <<site, newer, wanted, barred, table, items, lost, reach, edits, faults>>

NothingDue ==
    /\ run.pc = "choose" /\ run.batch = <<>> /\ Batch = <<>>
    /\ run' = NoRun
    /\ UNCHANGED <<site, newer, wanted, barred, table, items, lost, reach, edits, faults>>

\* What the loop of run() does with the result of one URL.
Free == [run EXCEPT !.pc = "choose", !.at = NoUrl, !.got = NoBody, !.same = FALSE]
Answered == run' = IF run.budget = 1 THEN NoRun ELSE [Free EXCEPT !.budget = run.budget - 1, !.streak = 0]
Unanswered ==
    run' = IF run.budget = 1 \/ run.streak + 1 >= StreakLimit THEN NoRun
           ELSE [Free EXCEPT !.budget = run.budget - 1, !.streak = run.streak + 1]
NotRequested == run' = Free
Stop == run' = NoRun

------------------------------------------------------------------------------
(* Before an answer is read *)

\* A seed is fetched whatever the patterns say.
OutOfScope == run.at \in Pages \ (run.wanted \cup Seeds)

Exclude ==
    /\ run.pc = "ask" /\ OutOfScope
    /\ Save([At EXCEPT !.state = "excluded"], "never") /\ NotRequested
    /\ UNCHANGED <<site, newer, wanted, barred, items, lost, reach, edits, faults>>

\* A URL that robots.txt refuses is not requested.
Denied ==
    /\ run.pc = "ask" /\ ~OutOfScope /\ run.at \in barred
    /\ Save([At EXCEPT !.state = "denied"], "later") /\ NotRequested
    /\ UNCHANGED <<site, newer, wanted, barred, items, lost, reach, edits, faults>>

Asked == run.pc = "ask" /\ ~OutOfScope /\ run.at \notin barred

Misfortune ==
    /\ Asked
    /\ faults < MaxFaults /\ faults' = faults + 1
    /\ UNCHANGED <<site, wanted, barred, items, edits>>

Failing == [At EXCEPT !.state = IF @ = "new" THEN "failing" ELSE @, !.fetched = TRUE]

\* robots.txt unreachable, or an address that is refused: nothing is saved.
HostClosed == Misfortune /\ Stop /\ UNCHANGED <<newer, table, lost, reach>>

HopRefused ==
    /\ Misfortune /\ Fetched /\ UNCHANGED <<lost, reach>>
    /\ Save([At EXCEPT !.state = "denied", !.fetched = TRUE], "later") /\ Answered

TooLarge ==
    /\ Misfortune /\ Fetched /\ UNCHANGED <<lost, reach>>
    /\ Save([At EXCEPT !.state = "too_large", !.fetched = TRUE], "never") /\ Answered

\* Too many redirects, or one to no URL.
BadRedirect ==
    /\ Misfortune /\ Fetched /\ UNCHANGED <<lost, reach>>
    /\ Save([At EXCEPT !.state = "failing", !.fetched = TRUE], "later") /\ Answered

TimedOut == Misfortune /\ Fetched /\ UNCHANGED <<lost, reach>> /\ Save(Failing, "later") /\ Unanswered

\* A 429, or a 503 with Retry-After: the run ends, the page is due after the wait.
AskedToWait == Misfortune /\ UNCHANGED <<newer, lost, reach>> /\ Save(At, "later") /\ Stop

OtherStatusForgotten ==     \* mutant: last_status stays
    /\ Misfortune /\ Fetched
    /\ lost' = lost \ {run.at} /\ UNCHANGED reach
    /\ Save(Failing, "later")
    /\ Unanswered \/ Answered
\* A 401, 403 or 5xx is the site's, any other status the page's.
OtherStatus ==
    /\ Misfortune /\ Fetched
    /\ lost' = lost \ {run.at} /\ UNCHANGED reach
    /\ Save([Failing EXCEPT !.missed = FALSE], "later")
    /\ Unanswered \/ Answered

\* The answer, a 304 when the stored validators name the body the site has.
Answer ==
    LET says == site[run.at] IN
    /\ Asked
    /\ run' = [run EXCEPT !.pc = "answer", !.got = says,
                          !.same = ~IsGone(says) /\ At.tag = Body(says)]
    /\ UNCHANGED <<site, newer, wanted, barred, table, items, lost, reach, edits, faults>>

------------------------------------------------------------------------------
(* What both kinds answer alike *)

\* retireRun: the live items that carry the page's last ok run, RETIRE_LIMIT of them.
RetireItems ==
    LET live == {i \in Items : items[i] = [state |-> "live", of |-> run.at]} IN
    \E gone \in kSubset(Min({RetireLimit, Cardinality(live)}), live) :
        items' = [i \in Items |-> IF i \in gone THEN [items[i] EXCEPT !.state = "removed"] ELSE items[i]]

Retire(pc) ==
    /\ RetireItems
    /\ run' = [run EXCEPT !.pc = pc]
    /\ UNCHANGED <<site, newer, wanted, barred, table, lost, reach, edits, faults>>

MissingRow(state) == [At EXCEPT !.state = state, !.fetched = TRUE, !.missed = TRUE, !.tag = NoBody]
SecondMiss == run.got.status = 410 \/ At.missed

Missing ==
    /\ run.pc = "answer" /\ IsGone(run.got) /\ ~SecondMiss
    /\ Fetched /\ Told /\ Save(MissingRow("missing"), "later") /\ Answered
    /\ UNCHANGED <<site, wanted, barred, items, edits, faults>>

RetireGone == run.pc = "answer" /\ IsGone(run.got) /\ SecondMiss /\ Retire("gone")

SaveGone ==
    /\ run.pc = "gone"
    /\ Fetched /\ Told /\ Save(MissingRow("gone"), "later") /\ Answered
    /\ UNCHANGED <<site, wanted, barred, items, edits, faults>>

------------------------------------------------------------------------------
(* A page *)

There == run.pc = "answer" /\ run.at \in Pages /\ ~IsGone(run.got)
SameBody == At.hash = Body(run.got) /\ At.state \in {"kept", "hub"}
Tag == IF run.at \in Tagged THEN Body(run.got) ELSE NoBody

\* The row of a page that was read.
ReadRow(state) ==
    [At EXCEPT !.state = state, !.fetched = TRUE, !.missed = FALSE, !.tag = Tag, !.hash = Body(run.got)]

\* A 304, or the same body again: the row keeps its state.
Unchanged ==
    /\ There
    /\ run.same \/ (run.got.html /\ SameBody)
    /\ Fetched /\ Told /\ Answered
    /\ Save([At EXCEPT !.fetched = TRUE, !.missed = FALSE, !.tag = IF run.at \in Tagged THEN Tag ELSE @], "later")
    /\ UNCHANGED <<site, wanted, barred, items, edits, faults>>

Changed == There /\ ~run.same /\ run.got.html /\ ~SameBody

NotHtml ==
    /\ There /\ ~run.same /\ ~run.got.html
    /\ Fetched /\ Told /\ Answered
    /\ Save([At EXCEPT !.state = "not_html", !.fetched = TRUE, !.missed = FALSE], "never")
    /\ UNCHANGED <<site, wanted, barred, items, edits, faults>>

RetireNoindex == Changed /\ Noindex(run.got) /\ Retire("noindex")

SaveNoindex ==
    /\ run.pc = "noindex"
    /\ Fetched /\ Told /\ Save(ReadRow("noindex"), "later") /\ Answered
    /\ UNCHANGED <<site, wanted, barred, items, edits, faults>>

\* The canonical URL, when it is another page in reach that will be read: known and
\* no duplicate itself, or added now.
CanonicalInReach == run.got.canonical \in run.wanted \ {run.at}
ReadElsewhereAlways ==  \* mutant: whatever the canonical page's own state is
    CanonicalInReach
ReadElsewhere ==
    LET page == run.got.canonical IN
    /\ CanonicalInReach
    /\ IF page \in Known THEN frontier[page].state # "duplicate"
       ELSE page \notin Barred /\ Cardinality(Known \cap Pages) < MaxPages

Canonical ==
    /\ Changed /\ ~Noindex(run.got) /\ ReadElsewhere
    /\ EnqueuePages({run.got.canonical} \ Known, At.depth)
    /\ run' = [run EXCEPT !.pc = "duplicate", !.barred = Compiled({run.got.canonical} \ Known)]
    /\ UNCHANGED <<site, newer, wanted, barred, items, lost, reach, edits, faults>>

SaveDuplicate ==
    /\ run.pc = "duplicate"
    /\ Fetched /\ Told /\ Answered
    /\ Save([ReadRow("duplicate") EXCEPT !.of = run.got.canonical], "never")
    /\ UNCHANGED <<site, wanted, barred, items, edits, faults>>

LinksFollowed == IF FollowLinks /\ At.depth < MaxDepth THEN run.got.links ELSE {}

\* What the matcher is asked about: the links, and before them a canonical that is new.
Consulted == (LinksFollowed \cup ({run.got.canonical} \ (Known \cup {run.at}))) \cap run.wanted

Links ==
    /\ Changed /\ ~Noindex(run.got) /\ ~ReadElsewhere
    /\ EnqueuePages(LinksFollowed, At.depth + 1)
    /\ run' = [run EXCEPT !.pc = "linked", !.barred = Compiled(Consulted)]
    /\ UNCHANGED <<site, newer, wanted, barred, items, lost, reach, edits, faults>>

Hub ==
    /\ run.pc = "linked" /\ run.got.items = {} /\ LinksFollowed # {}
    /\ Fetched /\ Told /\ Save(ReadRow("hub"), "later") /\ Answered
    /\ UNCHANGED <<site, wanted, barred, items, edits, faults>>

\* A page that lost its data is looked at again, one that never had any is dropped.
Unstructured ==
    /\ run.pc = "linked" /\ run.got.items = {} /\ LinksFollowed = {}
    /\ Fetched /\ Told /\ Answered
    /\ Save(ReadRow("unstructured"), IF At.state = "kept" THEN "later" ELSE "never")
    /\ UNCHANGED <<site, wanted, barred, items, edits, faults>>

\* items.ingest of the page's items under its new run: a removed row is skipped, and
\* what carried the page's former run is not the page's any more.
Ingested ==
    [i \in Items |->
        IF i \in run.got.items /\ items[i].state # "removed" THEN [state |-> "live", of |-> run.at]
        ELSE IF items[i].of = run.at THEN [items[i] EXCEPT !.of = NoUrl]
        ELSE items[i]]

KeptRowFirst ==     \* mutant: the row is saved before the transaction of the items
    /\ run.pc = "linked" /\ run.got.items # {}
    /\ Fetched /\ Told /\ Save(ReadRow("kept"), "later")
    /\ \/ items' = Ingested /\ Answered
       \/ items' = items /\ run' = NoRun
    /\ UNCHANGED <<site, wanted, barred, edits, faults>>
\* One transaction: the items and the row.
Kept ==
    /\ run.pc = "linked" /\ run.got.items # {}
    /\ items' = Ingested
    /\ Fetched /\ Told /\ Save(ReadRow("kept"), "later") /\ Answered
    /\ UNCHANGED <<site, wanted, barred, edits, faults>>

------------------------------------------------------------------------------
(* A sitemap *)

Listing == run.pc = "answer" /\ run.at \in Maps /\ ~IsGone(run.got)
SameListing == run.same \/ (At.hash = Body(run.got) /\ At.state = "read")

MapUnchanged ==
    /\ Listing /\ SameListing
    /\ Save([At EXCEPT !.state = "read", !.fetched = TRUE, !.missed = FALSE,
                       !.tag = IF run.same THEN @ ELSE Tag], "later")
    /\ Answered
    /\ UNCHANGED <<site, newer, wanted, barred, items, lost, reach, edits, faults>>

UnreadableStored ==     \* mutant: its validators and its hash are saved
    /\ Listing /\ ~SameListing
    /\ faults < MaxFaults /\ faults' = faults + 1
    /\ Save(ReadRow("read"), "later")
    /\ Answered
    /\ UNCHANGED <<site, newer, wanted, barred, items, lost, reach, edits>>
\* A body that does not parse.
Unreadable ==
    /\ Listing /\ ~SameListing
    /\ faults < MaxFaults /\ faults' = faults + 1
    /\ Save([At EXCEPT !.state = "failing", !.fetched = TRUE, !.missed = FALSE], "later")
    /\ Answered
    /\ UNCHANGED <<site, newer, wanted, barred, items, lost, reach, edits>>

ReadListing ==
    /\ Listing /\ ~SameListing
    /\ IF run.got.urls \subseteq Maps THEN EnqueueMaps(run.got.urls) ELSE EnqueuePages(run.got.urls, 0)
    /\ run' = [run EXCEPT !.pc = "listed", !.barred = Compiled(run.got.urls \cap (run.wanted \cup Maps))]
    /\ UNCHANGED <<site, newer, wanted, barred, items, lost, reach, edits, faults>>

SaveListing ==
    /\ run.pc = "listed"
    /\ Save(ReadRow("read"), "later") /\ Answered
    /\ reach' = [reach EXCEPT ![run.at] = (run.wanted \cup Maps) \ run.barred]
    /\ UNCHANGED <<site, newer, wanted, barred, items, lost, edits, faults>>

------------------------------------------------------------------------------
(* What goes wrong around it *)

\* The catch of run(): whatever was committed stays, the page is due after a back-off.
InternalError ==
    /\ run.pc \notin {"idle", "choose", "ask"}
    /\ faults < MaxFaults /\ faults' = faults + 1
    /\ Save(At, "later") /\ Unanswered
    /\ UNCHANGED <<site, newer, wanted, barred, items, lost, reach, edits>>

\* robots.txt has expired and is unreachable when the run asks for its matcher: it refuses
\* whatever the run finds.
NoMatcher ==
    /\ run.pc = "answer" /\ run.barred = Unread
    /\ faults < MaxFaults /\ faults' = faults + 1
    /\ run' = [run EXCEPT !.barred = Urls]
    /\ UNCHANGED <<site, newer, wanted, barred, table, items, lost, reach, edits>>

\* The deadline or a stop between two URLs, or the end of the process anywhere.
Cut ==
    /\ run.pc # "idle"
    /\ faults < MaxFaults /\ faults' = faults + 1
    /\ run' = NoRun
    /\ UNCHANGED <<site, newer, wanted, barred, table, items, lost, reach, edits>>

------------------------------------------------------------------------------

PageStep == Missing \/ RetireGone \/ SaveGone \/ Unchanged \/ NotHtml \/ RetireNoindex \/ SaveNoindex
            \/ Canonical \/ SaveDuplicate \/ Links \/ Hub \/ Unstructured \/ Kept
MapStep == MapUnchanged \/ Unreadable \/ ReadListing \/ SaveListing
AskStep == Exclude \/ HostClosed \/ Denied \/ HopRefused \/ TooLarge \/ BadRedirect \/ TimedOut
           \/ AskedToWait \/ OtherStatus \/ Answer
RunStep == Begin \/ (\E u \in Urls : Take(u)) \/ NothingDue \/ AskStep \/ PageStep \/ MapStep \/ InternalError \/ NoMatcher

SiteStep ==
    \/ \E p \in Pages : \E answer \in Bodies[p], dated \in BOOLEAN : Publish(p, answer, dated)
    \/ \E m \in Maps : \E answer \in Bodies[m] : Relist(m, answer)
    \/ \E scope \in Scopes : Patch(scope)
    \/ \E policy \in Policies : Disallow(policy)

Next == RunStep \/ Cut \/ SiteStep \/ \E u \in Urls : BecomesDue(u)

Spec == Init /\ [][Next]_vars

\* The scheduler starts the source again and again (Scheduler) and time passes.
FairSpec == Spec /\ WF_vars(RunStep) /\ \A u \in Urls : WF_vars(BecomesDue(u))

------------------------------------------------------------------------------
(* Properties *)

\* Reading an unchanged page is skipped (a 304 of the stored ETag, a body of the stored
\* hash) only when its items are in the store: the validators and the hash of a page that
\* was kept are never ahead of the transaction that stored its items.
KeptBacked ==
    \A p \in Pages :
        frontier[p].state = "kept" =>
            \A i \in frontier[p].hash.items : items[i].state # "absent"

\* Reading an unchanged sitemap is skipped only when what it lists is in the frontier: its
\* hash is never ahead of the rows.  What the settings or robots.txt kept from the run that
\* read it is left out (crawl.js:113-115), and whatever found the frontier full.
Full(kind, cap) == Cardinality(Known \cap kind) >= cap
Backed(urls) ==
    urls \subseteq Known \/ IF urls \subseteq Maps THEN Full(Maps, MaxMaps) ELSE Full(Pages, MaxPages)
ListingBacked ==
    \A m \in Maps : frontier[m].hash # NoBody => Backed(frontier[m].hash.urls \cap reach[m])

\* A page set aside for its canonical leads, through the canonicals it was set aside
\* for, to a page that is not: pages that name each other are never all set aside.
DuplicatesEnd ==
    \A group \in SUBSET {p \in Pages : frontier[p].state = "duplicate"} :
        group # {} => \E p \in group : frontier[p].of \notin group

\* An item leaves only when its page answers noindex, 410, or 404 while the last status
\* recorded of the page is 404 or 410 (crawl.js:234-238).  A wait, a timeout, a refusal or a
\* page too large records none, nor does an answer that a crash or an error kept a run from
\* dealing with; any other answer between two 404s does.
RetiresOnlyGone ==
    [][\A i \in Items :
         items[i].state = "live" /\ items'[i].state = "removed" =>
             /\ items[i].of = run.at
             /\ Noindex(run.got) \/ run.got.status = 410 \/ (run.got.status = 404 /\ run.at \in lost)]_vars

\* What is due is asked for: neither the batches, nor the budget of a run, nor the streak,
\* nor new rows let it wait for ever.  Sitemaps come first and count too (crawl.js:433-453):
\* for the pages, the source must not have as many sitemaps as a run has requests.
DueIsFetched ==
    \A u \in Urls : u \in Maps \/ Cardinality(Maps) < PagesPerRun => (u \in ToSet(due) ~> u \notin ToSet(due))

\* Once the site is left alone, every page that the crawl still visits and robots.txt does
\* not refuse ends as the site has it: a kept page at its newest body, a page that is gone
\* or noindex without items.  A noindex page that answers 304 is not looked at again: its
\* items must go at one visit, RETIRE_LIMIT of them (items.js:241).
Retirable(p) == p \in Tagged => \A body \in Bodies[p] : Cardinality(body.items) <= RetireLimit
Left(p) == {i \in Items : items[i] = [state |-> "live", of |-> p]}
Settled(p) ==
    LET says == site[p]
    IN  CASE IsGone(says)   -> frontier[p].state = "gone" /\ Left(p) = {}
          [] ~says.html     -> TRUE
          [] OTHER          -> /\ frontier[p].hash = Body(says)
                               /\ says.noindex /\ Retirable(p) => Left(p) = {}
Visited == {p \in Pages \ barred : p \in ToSet(due) \cup later \/ frontier[p].state = "gone"}
CatchesUp == <>[](\A p \in Visited : Settled(p))

\* crawl.js:9-10 "a newer <lastmod> makes a known page due again": such a page is read
\* again even when nothing else would make it due, if the run that read the sitemap was
\* let through to it and the sitemap is still visited (once too large, it never is).
Waiting(m, p) ==
    /\ p \in site[m].urls \cap wanted \cap newer
    /\ frontier[p].fetched /\ frontier[p].state \notin {"noindex", "duplicate", "excluded"}
VisitedMaps == {m \in Maps \ barred : m \in ToSet(due) \cup later}
DatedIsRead == <>[](\A m \in VisitedMaps : \A p \in Pages \cap reach[m] : ~Waiting(m, p))

\* crawl.js:20 "A page that says noindex (meta robots, our own token's meta, X-Robots-Tag)
\* is not kept and its items are retired": no page that has just answered noindex is kept.
NoindexHonoured ==
    [][run.pc \in {"answer", "noindex", "linked"} /\ run'.at = NoUrl /\ faults' = faults
       /\ run.at \in Pages /\ ~IsGone(run.got) /\ Noindex(run.got)
         => frontier'[run.at].state # "kept"]_vars

\* crawl.js:22-23 "missing (404 once) | gone (404/410 twice: its items are retired)", and
\* items.js:236, registry.js:225: 410 twice too.
TwiceBeforeRetired ==
    [][\A i \in Items :
         items[i].state = "live" /\ items'[i].state = "removed" => Noindex(run.got) \/ run.at \in lost]_vars

\* crawl.js:12 "each run fetches the sitemaps that are due, then up to pages_per_run due
\* pages": pages have their turn whatever sitemaps are due.
PagesAreFetched == \A p \in Pages : p \in ToSet(due) ~> p \notin ToSet(due)

\* crawl.js:18-20: a noindex page that the crawl visits ends without items, however many.
NoindexClears == <>[](\A p \in Visited : site[p].noindex => Left(p) = {})

\* DatedIsRead of every page that robots.txt lets through in the end.
AllDatedAreRead == <>[](\A m \in VisitedMaps : \A p \in Pages \ barred : ~Waiting(m, p))

==============================================================================

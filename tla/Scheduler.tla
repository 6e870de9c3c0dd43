----------------------------- MODULE Scheduler ------------------------------
(***************************************************************************)
(* The in-process scheduler (server/scheduler.js) and what it needs to     *)
(* know of ingest.run(): that a run holds its key in the inflight set, and *)
(* that a run that ends well gives its source a later next_due_at.         *)
(*                                                                         *)
(* tick() counts its free slots, awaits the due query, and then picks and  *)
(* starts runs without another await.  setInterval does not wait for a     *)
(* tick to end, so ticks may overlap.                                      *)
(***************************************************************************)
EXTENDS Integers, Sequences, FiniteSets, SequencesExt

CONSTANTS
    Feeds,          \* keys of fetched sources that are not crawls
    Crawls,         \* keys of crawl sources
    Ticks,          \* ticks that can be in progress at the same time
    MaxConcurrent,  \* SOURCES_MAX_CONCURRENT
    MaxCrawls,      \* SOURCES_MAX_CONCURRENT_CRAWLS
    Fetched,        \* the keys operators fetch by hand in the instance
    Patched,        \* the keys operators disable and enable in the instance
    Unlucky,        \* the keys whose runs are refused or throw in the instance
    Ops             \* what else happens: "restart", "stop"

Keys == Feeds \cup Crawls

ASSUME SchedulerAssumption ==
    /\ Feeds \cap Crawls = {}
    /\ IsFiniteSet(Keys)
    /\ MaxConcurrent \in Nat \ {0}
    /\ MaxCrawls \in Nat \ {0}
    /\ Fetched \cup Patched \cup Unlucky \subseteq Keys
    /\ Ops \subseteq {"restart", "stop"}

VARIABLES
    due,        \* sources whose next_due_at has passed, in that order
    off,        \* sources an operator has disabled
    running,    \* the scheduler's map of keys it started
    holder,     \* who holds a key in ingest's inflight set
    tick,       \* the ticks in progress
    phase       \* "serving", or "stopping" once stop() has cleared the timer

vars == <<due, off, running, holder, tick, phase>>

NoTick == [pc |-> "idle", free |-> 0, crawls |-> 0, limit |-> 0, queue |-> <<>>, rows |-> {}, missed |-> {}]
TickState == [pc : {"idle", "asked", "answered"}, free : Nat, crawls : Nat, limit : Nat,
              queue : Seq(Keys), rows : SUBSET (Nat \ {0}), missed : SUBSET Feeds]

TypeOK ==
    /\ due \in Seq(Keys)
    /\ IsInjective(due)
    /\ off \subseteq Keys
    /\ running \subseteq Keys
    /\ holder \in [Keys -> {"none", "schedule", "manual"}]
    /\ tick \in [Ticks -> TickState]
    /\ phase \in {"serving", "stopping"}

Init ==
    /\ due = <<>>
    /\ off = {}
    /\ running = {}
    /\ holder = [k \in Keys |-> "none"]
    /\ tick = [t \in Ticks |-> NoTick]
    /\ phase = "serving"

Without(seq, k) ==
    IF k \in ToSet(seq) THEN RemoveAt(seq, CHOOSE n \in DOMAIN seq : seq[n] = k) ELSE seq
IsDue(k) == k \in ToSet(due) /\ k \notin off

\* The first k of a set of positions.
First(S, k) == {n \in S : Cardinality({m \in S : m < n}) < k}

\* The rows of the due query, without its LIMIT: positions in due.
DueRows == {n \in DOMAIN due : due[n] \notin off}

------------------------------------------------------------------------------
(* A tick *)

LimitFree(free) == free     \* mutant: keys already running use up the limit
Limit(free) == free + Cardinality(running) + MaxCrawls

\* The slots are counted before the query is answered.
Ask(t) ==
    LET free == MaxConcurrent - Cardinality(running) IN
    /\ phase = "serving"
    /\ tick[t].pc = "idle"
    /\ free > 0
    /\ tick' = [tick EXCEPT ![t] = [NoTick EXCEPT
                   !.pc = "asked", !.free = free,
                   !.crawls = Cardinality(running \cap Crawls), !.limit = Limit(free)]]
    /\ UNCHANGED <<due, off, running, holder, phase>>

\* The database answers: the first rows of what is due now.
Answer(t) ==
    LET rows == First(DueRows, tick[t].limit) IN
    /\ tick[t].pc = "asked"
    /\ tick' = [tick EXCEPT ![t] = [NoTick EXCEPT
                   !.pc = "answered", !.free = tick[t].free, !.crawls = tick[t].crawls,
                   !.queue = due, !.rows = rows,
                   !.missed = Feeds \cap {due[n] : n \in DueRows \ rows}]]
    /\ UNCHANGED <<due, off, running, holder, phase>>

\* The rows of the answer that are not running yet, those among keys.
Startable(t, keys) == {n \in tick[t].rows : tick[t].queue[n] \in keys \ running}

\* mutant: the crawls already running are not counted
EligibleForgets(t) == Startable(t, Feeds) \cup First(Startable(t, Crawls), MaxCrawls)

\* The rows the loop does not pass over: no key twice, crawls to their cap.
Eligible(t) == Startable(t, Feeds) \cup First(Startable(t, Crawls), MaxCrawls - tick[t].crawls)

\* The loop over the rows: not beyond the free slots.
Pick(t) == {tick[t].queue[n] : n \in First(Eligible(t), tick[t].free)}

\* The continuation of the query: pick and start, all at once.
StartRuns(t) ==
    /\ tick[t].pc = "answered"
    /\ running' = running \cup Pick(t)
    /\ tick' = [tick EXCEPT ![t] = NoTick]
    /\ UNCHANGED <<due, off, holder, phase>>

------------------------------------------------------------------------------
(* Runs *)

SettleNever(k) == UNCHANGED running     \* mutant: a run that ends keeps its slot
Settle(k) == running' = running \ {k}

\* A started run passes ingest's gate, or finds the key in flight.
Gate(k) ==
    /\ k \in running
    /\ holder[k] = "none"
    /\ k \notin off
    /\ holder' = [holder EXCEPT ![k] = "schedule"]
    /\ UNCHANGED <<due, off, running, tick, phase>>

Refused(k) ==
    /\ k \in running
    /\ holder[k] = "manual"
    /\ Settle(k)
    /\ UNCHANGED <<due, off, holder, tick, phase>>

\* The source was disabled after the query: settled without a new next_due_at.
Disabled(k) ==
    /\ k \in running
    /\ holder[k] = "none"
    /\ k \in off
    /\ Settle(k)
    /\ UNCHANGED <<due, off, holder, tick, phase>>

\* rate_limited by min_interval_ms: the same.
NotYet(k) ==
    /\ k \in Unlucky
    /\ k \in running
    /\ holder[k] = "none"
    /\ Settle(k)
    /\ UNCHANGED <<due, off, holder, tick, phase>>

\* The run ends with its UPDATE of next_due_at.
Finish(k) ==
    /\ k \in running
    /\ holder[k] = "schedule"
    /\ due' = Without(due, k)
    /\ holder' = [holder EXCEPT ![k] = "none"]
    /\ Settle(k)
    /\ UNCHANGED <<off, tick, phase>>

\* The run throws: logged, and the source is as due as before.
Throw(k) ==
    /\ k \in Unlucky
    /\ k \in running
    /\ holder[k] = "schedule"
    /\ holder' = [holder EXCEPT ![k] = "none"]
    /\ Settle(k)
    /\ UNCHANGED <<due, off, tick, phase>>

\* POST /api/v1/sources/:key/fetch: a run the scheduler's map does not know of.
ManualBegin(k) ==
    /\ k \in Fetched
    /\ phase = "serving"
    /\ holder[k] = "none"
    /\ k \notin off
    /\ holder' = [holder EXCEPT ![k] = "manual"]
    /\ UNCHANGED <<due, off, running, tick, phase>>

ManualFinish(k) ==
    /\ holder[k] = "manual"
    /\ holder' = [holder EXCEPT ![k] = "none"]
    /\ due' = Without(due, k)
    /\ UNCHANGED <<off, running, tick, phase>>

------------------------------------------------------------------------------
(* Around the runs *)

\* The next poll of a source has come; it is due later than everything already due.
BecomesDue(k) ==
    /\ k \notin ToSet(due)
    /\ k \notin running
    /\ holder[k] = "none"
    /\ due' = Append(due, k)
    /\ UNCHANGED <<off, running, holder, tick, phase>>

\* PATCH {enabled}: the runtime columns, next_due_at among them, stay.
PatchEnabled(k) ==
    /\ k \in Patched
    /\ off' = IF k \in off THEN off \ {k} ELSE off \cup {k}
    /\ UNCHANGED <<due, running, holder, tick, phase>>

\* The process dies and another starts; what is due is in the database.
Restart ==
    /\ "restart" \in Ops
    /\ running' = {}
    /\ holder' = [k \in Keys |-> "none"]
    /\ tick' = [t \in Ticks |-> NoTick]
    /\ phase' = "serving"
    /\ UNCHANGED <<due, off>>

\* stop(): no more ticks begin.  It waits for the map to empty, but not longer than
\* its deadline, so what is under way may go on until the process ends.
Stop ==
    /\ "stop" \in Ops
    /\ phase = "serving"
    /\ phase' = "stopping"
    /\ UNCHANGED <<due, off, running, holder, tick>>

------------------------------------------------------------------------------

TickStep(t) == Ask(t) \/ Answer(t) \/ StartRuns(t)

RunStep(k) == Gate(k) \/ Refused(k) \/ Disabled(k) \/ Finish(k)

Next ==
    \/ \E t \in Ticks : TickStep(t)
    \/ \E k \in Keys : RunStep(k) \/ NotYet(k) \/ Throw(k) \/ ManualBegin(k) \/ ManualFinish(k)
    \/ \E k \in Keys : BecomesDue(k) \/ PatchEnabled(k)
    \/ Restart \/ Stop

Spec == Init /\ [][Next]_vars

\* The timer keeps ticking, queries are answered, runs and manual runs end.  A run
\* can be refused or throw, but not every time; restarts end, and operators stop
\* switching sources off and on.
FairSpec ==
    /\ Spec
    /\ \A t \in Ticks : WF_vars(TickStep(t))
    /\ \A k \in Keys : WF_vars(RunStep(k))
    /\ \A k \in Unlucky : SF_vars(Gate(k)) /\ SF_vars(Finish(k))
    /\ \A k \in Fetched : WF_vars(ManualFinish(k))
    /\ <>[][~Restart /\ \A k \in Keys : ~PatchEnabled(k)]_vars

------------------------------------------------------------------------------
(* Properties *)

\* Never more runs started and not settled than there are slots, nor more
\* crawls than the crawl cap (scheduler.js:3-6; README, Ingestion).
WithinCaps ==
    /\ Cardinality(running) <= MaxConcurrent
    /\ Cardinality(running \cap Crawls) <= MaxCrawls

\* The crawls in flight, whoever started them, stay within their cap (README,
\* Crawl: "at most SOURCES_MAX_CONCURRENT_CRAWLS (2) crawls run at once").
CrawlsWithinCap == Cardinality({k \in Crawls : holder[k] # "none"}) <= MaxCrawls

\* A tick that leaves free slots unused has left no due feed waiting: crawls
\* cannot keep feeds from running (config.js:118-120).
ServesFeeds(t) ==
    \/ Cardinality(Pick(t)) >= tick[t].free
    \/ tick[t].missed \cup (Feeds \cap {tick[t].queue[n] : n \in tick[t].rows}) \subseteq running'
FeedsKeepTheRest == [][\A t \in Ticks : StartRuns(t) => ServesFeeds(t)]_vars

\* Every due source is started or stops being due, as long as the service runs
\* (scheduler.js:9-35).
DueIsServed == \A k \in Keys : IsDue(k) ~> (k \in running \/ ~IsDue(k) \/ phase # "serving")
=============================================================================

------------------------------- MODULE Ingest -------------------------------
(***************************************************************************)
(* Ingestion runs of one fetched source (server/ingest.js with the parts   *)
(* of registry.js, items.js and api/sources.js that share its rows).       *)
(*                                                                         *)
(* A run is a chain of awaits: the source row is read, the gate is passed, *)
(* every endpoint is asked in order, unseen items are retired, the runtime *)
(* columns of the source are written.  Each action below is what happens   *)
(* between two awaits that another run, an operator or a restart can come  *)
(* between.  The transaction of an answer is one action; what happens      *)
(* inside overlapping ones is the subject of module ItemStore.  A PATCH    *)
(* and a DELETE are statements that a run may come between (READ           *)
(* COMMITTED), one such request at a time; Registry has the rows of PATCHes *)
(* that overlap.                                                           *)
(*                                                                         *)
(* Data: a response body is the set of identities it lists, and an ETag    *)
(* names a body.  Content, revisions and events are left to ItemStore.     *)
(***************************************************************************)
EXTENDS Integers

CONSTANTS
    Identities,     \* what the site can list
    Settings,       \* endpoint configurations an operator can choose
    NEndpoints,     \* endpoints 1..NEndpoints, fetched in that order
    Lists,          \* what each endpoint can list
    Triggers,       \* concurrent callers of run(): "schedule", "manual"
    RetireAfter,    \* retire_after_sec, 0 for null
    MinInterval,    \* min_interval_ms
    Poll,           \* poll_interval_sec
    MaxBackoff,     \* SOURCES_MAX_BACKOFF_MS
    Waits,          \* Retry-After values the site can send
    NoValidators,   \* no ETag stored or sent
    Ops,            \* the operator and failure actions of the instance
    MaxSpan,        \* bound: how long a run lasts (each endpoint waits for its host's turn)
    MaxTime,        \* bound: the clock
    MaxRuns,        \* bound: ok rows of fetch_runs
    MaxStreak       \* bound: failing runs in a row

Endpoint == 1..NEndpoints
Never == -1         \* last_request_at IS NULL

ASSUME ConstantsAssumption ==
    /\ NEndpoints \in Nat \ {0}
    /\ RetireAfter \in Nat /\ MinInterval \in Nat /\ Poll \in Nat \ {0}
    /\ MaxBackoff \in Nat /\ MaxSpan \in Nat /\ MaxTime \in Nat /\ MaxRuns \in Nat
    /\ MaxStreak \in Nat
    /\ Waits \subseteq Nat \ {0}
    /\ Ops \subseteq {"patch", "delete", "takedown", "crash", "dberror"}
    /\ Settings # {}

ASSUME ListsAssumption == Lists \in [Endpoint -> SUBSET Identities]

ASSUME NoValidatorsAssumption ==
    NoValidators \notin [listed : SUBSET Identities, settings : Settings]

VARIABLES
    clock,
    src,            \* the sources row: configuration and runtime columns
    items,          \* items rows of the source, by identity
    validators,     \* endpoint_state: ETag of each endpoint's last good parse
    lastOk,         \* fetch_runs: newest ok row of each endpoint
    okRuns,         \* fetch_runs: ids of the ok rows that exist
    lastRun,        \* fetch_runs: newest rid given out
    inflight,       \* the in-memory Set of createIngest, for this key
    credential,     \* config.secrets of this process holds the variable
    run,            \* the local state of each caller of run()
    pending,        \* the PATCH or DELETE in flight, and the run rows a DELETE has taken
    streak,         \* observer: failing runs that ended since a good one
    quiet,          \* observer: until when each endpoint's site asked for silence
    overtaken       \* observer: runs stored after a DELETE had counted the items

vars == <<clock, src, items, validators, lastOk, okRuns, lastRun, inflight,
          credential, run, pending, streak, quiet, overtaken>>
rows == <<src, items, validators, lastOk, okRuns, lastRun>>
observers == <<streak, quiet, overtaken>>

Body == SUBSET Identities
Validator == [listed : Body, settings : Settings]
OkRow == [id : Nat, listed : Body]
NoRun == [id |-> 0, listed |-> {}]

SourceRow == [exists : BOOLEAN, enabled : BOOLEAN, settings : Settings,
              lastRequest : Nat \cup {Never}, failures : Nat,
              notBefore : Nat, nextDue : Nat]
\* What run() keeps of the row it read; until is when the next request is allowed.
Snapshot == [enabled : BOOLEAN, settings : Settings, failures : Nat, until : Nat]
ItemRow == [state : {"absent", "live", "removed"}, seenAt : Nat, run : Nat]
RunState == [pc : {"idle", "gate", "endpoint", "request", "await", "retire", "finish"},
             k : 1..(NEndpoints + 1), row : Snapshot,
             sent : Validator \cup {NoValidators}, began : Nat, notBefore : Nat,
             anyFailure : BOOLEAN, anySuccess : BOOLEAN, allAnswered : BOOLEAN]
Pending == [step : {"none", "reset", "counted", "deleting"}, runs : SUBSET Nat]
NoRequest == [step |-> "none", runs |-> {}]

TypeOK ==
    /\ clock \in Nat
    /\ src \in SourceRow
    /\ items \in [Identities -> ItemRow]
    /\ validators \in [Endpoint -> Validator \cup {NoValidators}]
    /\ lastOk \in [Endpoint -> OkRow]
    /\ okRuns \subseteq Nat
    /\ lastRun \in Nat
    /\ inflight \in BOOLEAN
    /\ credential \in BOOLEAN
    /\ run \in [Triggers -> RunState]
    /\ pending \in Pending
    /\ streak \in Nat
    /\ quiet \in [Endpoint -> Nat]
    /\ overtaken \subseteq Nat

------------------------------------------------------------------------------

NewSource(s) == [exists |-> TRUE, enabled |-> TRUE, settings |-> s,
                 lastRequest |-> Never, failures |-> 0, notBefore |-> 0, nextDue |-> 0]
AnySettings == CHOOSE s \in Settings : TRUE
Idle == [pc |-> "idle", k |-> 1,
         row |-> [enabled |-> TRUE, settings |-> AnySettings, failures |-> 0, until |-> 0],
         sent |-> NoValidators, began |-> 0, notBefore |-> 0,
         anyFailure |-> FALSE, anySuccess |-> FALSE, allAnswered |-> TRUE]
AllIdle == [t \in Triggers |-> Idle]
NoItem == [state |-> "absent", seenAt |-> 0, run |-> 0]

Init ==
    /\ clock = 0
    /\ src = NewSource(AnySettings)
    /\ items = [i \in Identities |-> NoItem]
    /\ validators = [e \in Endpoint |-> NoValidators]
    /\ lastOk = [e \in Endpoint |-> NoRun]
    /\ okRuns = {}
    /\ lastRun = 0
    /\ inflight = FALSE
    /\ credential \in BOOLEAN
    /\ run = AllIdle
    /\ pending = NoRequest
    /\ streak = 0
    /\ quiet = [e \in Endpoint |-> 0]
    /\ overtaken = {}

\* Which callers are past the gate, holding the key in the inflight set.
Active(t) == run[t].pc \notin {"idle", "gate"}

Larger(a, b) == IF a >= b THEN a ELSE b
Smaller(a, b) == IF a <= b THEN a ELSE b

------------------------------------------------------------------------------
(* The gate: everything before the first endpoint *)

\* The scheduler's due query (its races are module Scheduler's).
Due == src.enabled /\ src.nextDue <= clock /\ src.notBefore <= clock

\* When the row allows the next request: Retry-After and min_interval_ms.
Until(row) == IF row.lastRequest = Never
              THEN row.notBefore
              ELSE Larger(row.notBefore, row.lastRequest + MinInterval)

\* run() starts with an await: the row it decides on is a snapshot.
ReadRow(t) ==
    /\ run[t].pc = "idle"
    /\ src.exists
    /\ t = "schedule" => Due
    /\ run' = [run EXCEPT ![t] = [@ EXCEPT
           !.pc = "gate",
           !.row = [enabled |-> src.enabled, settings |-> src.settings,
                    failures |-> src.failures, until |-> Until(src)]]]
    /\ UNCHANGED <<clock, rows, inflight, credential, pending, observers>>

MayRequest(row) == clock >= row.until

\* A run of the key is in flight; leaving run() takes the key out of the set.
NeverBusy == FALSE                          \* mutant: the check is lost
Busy == inflight
ReleaseForgotten == UNCHANGED inflight      \* mutant: no finally
Release == inflight' = FALSE

GoIdle(t) == run' = [run EXCEPT ![t] = Idle]

\* busy, disabled, rate_limited: a run row at most, and no runtime column changes
Refuse(t) ==
    /\ run[t].pc = "gate"
    /\ Busy \/ ~run[t].row.enabled \/ ~MayRequest(run[t].row)
    /\ GoIdle(t)
    /\ UNCHANGED <<clock, rows, inflight, credential, pending, observers>>

\* The bounds of the instance: no run starts that could go past them.
WithinBounds(row) ==
    /\ lastRun + NEndpoints <= MaxRuns
    /\ streak < MaxStreak
    /\ row.failures < MaxStreak

Begin(t) ==
    /\ WithinBounds(run[t].row)
    /\ run[t].pc = "gate"
    /\ ~Busy
    /\ run[t].row.enabled
    /\ MayRequest(run[t].row)
    /\ inflight' = TRUE
    /\ run' = [run EXCEPT ![t] = [@ EXCEPT !.pc = "endpoint", !.began = clock,
                                         !.row = [run[t].row EXCEPT !.until = 0]]]
    /\ UNCHANGED <<clock, rows, credential, pending, observers>>

------------------------------------------------------------------------------
(* One endpoint *)

\* What fetchEndpoint hands back to the loop of fetchEndpoints.
Outcome(failed, success, notBefore, stop) ==
    [failed |-> failed, success |-> success, notBefore |-> notBefore, stop |-> stop]
Answered == Outcome(FALSE, TRUE, 0, FALSE)
Failed(notBefore) == Outcome(TRUE, FALSE, notBefore, FALSE)

\* The loop folds the outcome into the run and goes on, unless the site said stop.
Folded(r, out) ==
    [pc |-> IF out.stop \/ r.k = NEndpoints THEN "retire" ELSE "endpoint",
     k |-> r.k + 1,
     row |-> r.row,
     sent |-> NoValidators,
     began |-> r.began,
     notBefore |-> Larger(r.notBefore, out.notBefore),
     anyFailure |-> r.anyFailure \/ out.failed,
     anySuccess |-> r.anySuccess \/ out.success,
     allAnswered |-> r.allAnswered /\ out.success]
Conclude(t, out) == run' = [run EXCEPT ![t] = Folded(@, out)]

\* No secret in the environment: state disabled, neither a failure nor a success.
CredentialMissing(t) ==
    /\ run[t].pc = "endpoint"
    /\ ~credential
    /\ Conclude(t, Outcome(FALSE, FALSE, 0, FALSE))
    /\ UNCHANGED <<clock, rows, inflight, credential, pending, observers>>

RobotsDenied(t) ==
    /\ run[t].pc = "endpoint"
    /\ credential
    /\ Conclude(t, Failed(0))
    /\ UNCHANGED <<clock, rows, inflight, credential, pending, observers>>

\* robots.txt allows it; the validators are read before the wait for the host's turn.
ReadValidators(t) ==
    /\ run[t].pc = "endpoint"
    /\ credential
    /\ run' = [run EXCEPT ![t] = [@ EXCEPT !.pc = "request", !.sent = validators[run[t].k]]]
    /\ UNCHANGED <<clock, rows, inflight, credential, pending, observers>>

\* A DELETE holds the lock of the sources row from its first statement to its commit.
Locked == pending.step = "deleting"

\* The host's turn has come: last_request_at, then the GET.
Request(t) ==
    /\ run[t].pc = "request" /\ ~Locked
    /\ run' = [run EXCEPT ![t] = [@ EXCEPT !.pc = "await"]]
    /\ src' = IF src.exists THEN [src EXCEPT !.lastRequest = clock] ELSE src
    /\ UNCHANGED <<clock, items, validators, lastOk, okRuns, lastRun, inflight,
                   credential, pending, observers>>

\* A 304 is seeing again what the endpoint's newest ok run saw (retiring sources only).
SeenAgainNever(r) == items  \* mutant: a 304 refreshes nothing
SeenAgain(r) ==
    [i \in Identities |->
        IF RetireAfter > 0 /\ r # 0 /\ items[i].state = "live" /\ items[i].run = r
        THEN [items[i] EXCEPT !.seenAt = clock]
        ELSE items[i]]

NotModified(t) ==
    /\ run[t].pc = "await"
    /\ run[t].sent # NoValidators
    /\ items' = SeenAgain(lastOk[run[t].k].id)
    /\ Conclude(t, Answered)
    /\ UNCHANGED <<clock, src, validators, lastOk, okRuns, lastRun, inflight,
                   credential, pending, observers>>

\* mutant: the Retry-After of a 429 is not handed back
TooManyRequestsForgotten(t, wait) ==
    /\ run[t].pc = "await"
    /\ Conclude(t, Outcome(TRUE, FALSE, 0, TRUE))
    /\ quiet' = [quiet EXCEPT ![run[t].k] = clock + wait]
    /\ UNCHANGED <<clock, rows, inflight, credential, pending, streak, overtaken>>

\* 429: rate_limited, and the endpoints after this one are not asked.
TooManyRequests(t, wait) ==
    /\ run[t].pc = "await"
    /\ Conclude(t, Outcome(TRUE, FALSE, clock + wait, TRUE))
    /\ quiet' = [quiet EXCEPT ![run[t].k] = clock + wait]
    /\ UNCHANGED <<clock, rows, inflight, credential, pending, streak, overtaken>>

\* 503 with Retry-After: the run goes on, the source is left alone afterwards.
Unavailable(t, wait) ==
    /\ run[t].pc = "await"
    /\ Conclude(t, Failed(clock + wait))
    /\ quiet' = [quiet EXCEPT ![run[t].k] = clock + wait]
    /\ UNCHANGED <<clock, rows, inflight, credential, pending, streak, overtaken>>

\* timeout, refused hop or address, another status, an exception in the adapter
FetchFailed(t) ==
    /\ run[t].pc = "await"
    /\ Conclude(t, Failed(0))
    /\ UNCHANGED <<clock, rows, inflight, credential, pending, observers>>

\* mutant: validators are stored before the body is parsed
UnreadableStored(t, body) ==
    /\ run[t].pc = "await"
    /\ body # {} /\ body \subseteq Lists[run[t].k]
    /\ validators' = [validators EXCEPT ![run[t].k] =
                         [listed |-> body, settings |-> run[t].row.settings]]
    /\ Conclude(t, Failed(0))
    /\ UNCHANGED <<clock, src, items, lastOk, okRuns, lastRun, inflight, credential, pending, observers>>

\* A 200 the adapter cannot read, listing whatever it lists: nothing is stored.
Unreadable(t, body) ==
    /\ run[t].pc = "await"
    /\ body # {} /\ body \subseteq Lists[run[t].k]
    /\ Conclude(t, Failed(0))
    /\ UNCHANGED <<clock, rows, inflight, credential, pending, observers>>

IngestedReviving(body, r) ==    \* mutant: removal is not sticky
    [i \in Identities |->
        IF i \in body THEN [state |-> "live", seenAt |-> clock, run |-> r] ELSE items[i]]

\* items.ingest at this level: created, or seen with the run's id; removed stays.
Ingested(body, r) ==
    [i \in Identities |->
        IF i \in body /\ items[i].state # "removed"
        THEN [state |-> "live", seenAt |-> clock, run |-> r]
        ELSE items[i]]

\* A 200 that parses: run row, items and validators in one transaction.
Ok(t, body, etag) ==
    LET k == run[t].k
        r == lastRun + 1
    IN
    /\ run[t].pc = "await"
    /\ body \subseteq Lists[k]
    /\ items' = Ingested(body, r)
    /\ lastRun' = r
    /\ okRuns' = okRuns \cup {r}
    /\ lastOk' = [lastOk EXCEPT ![k] = [id |-> r, listed |-> body]]
    /\ validators' = [validators EXCEPT ![k] =
           IF etag THEN [listed |-> body, settings |-> run[t].row.settings] ELSE NoValidators]
    /\ overtaken' = IF pending.step = "counted" THEN overtaken \cup {r} ELSE overtaken
    /\ Conclude(t, Answered)
    /\ UNCHANGED <<clock, src, inflight, credential, pending, streak, quiet>>

------------------------------------------------------------------------------
(* After the endpoints *)

\* The items a feed stopped showing: live, not seen since the cutoff.
Unseen == {i \in Identities : items[i].state = "live" /\ items[i].seenAt < clock - RetireAfter}

Retire(t) ==
    /\ run[t].pc = "retire"
    /\ items' = IF RetireAfter > 0 /\ run[t].anySuccess /\ run[t].allAnswered /\ ~run[t].anyFailure
                THEN [i \in Identities |->
                         IF i \in Unseen THEN [items[i] EXCEPT !.state = "removed"] ELSE items[i]]
                ELSE items
    /\ run' = [run EXCEPT ![t] = [@ EXCEPT !.pc = "finish"]]
    /\ UNCHANGED <<clock, src, validators, lastOk, okRuns, lastRun, inflight,
                   credential, pending, observers>>

\* 2 ** min(n - 1, 10), for n >= 1
Doublings == <<1, 2, 4, 8, 16, 32, 64, 128, 256, 512, 1024>>
Backoff(n) == Smaller(Poll * Doublings[Smaller(n, 11)], Larger(MaxBackoff, Poll))

NewFailuresKept(s) ==       \* mutant: a good run does not reset the count
    IF s.anyFailure THEN s.row.failures + 1 ELSE s.row.failures
NewFailuresDecay(s) ==      \* mutant: a good run takes one failure back
    IF s.anyFailure THEN s.row.failures + 1 ELSE s.row.failures - 1
NewFailures(s) == IF s.anyFailure THEN s.row.failures + 1 ELSE 0

\* The UPDATE finds no row when the source was deleted meanwhile.
Finish(t) ==
    LET n == NewFailures(run[t])
        wait == IF run[t].anyFailure THEN Backoff(n) ELSE Poll
    IN
    /\ run[t].pc = "finish" /\ ~Locked
    /\ src' = IF src.exists
              THEN [src EXCEPT !.failures = n, !.notBefore = run[t].notBefore,
                               !.nextDue = clock + wait]
              ELSE src
    /\ streak' = IF run[t].anyFailure THEN streak + 1 ELSE 0
    /\ Release
    /\ GoIdle(t)
    /\ UNCHANGED <<clock, items, validators, lastOk, okRuns, lastRun, credential, pending, quiet, overtaken>>

------------------------------------------------------------------------------
(* What happens around a run *)

\* One PATCH or DELETE at a time.
Free == pending = NoRequest
Step(step, ids) == pending' = [step |-> step, runs |-> ids]

\* PATCH {enabled}: registry.patch writes configuration columns only.
PatchEnabled ==
    /\ "patch" \in Ops
    /\ Free /\ src.exists
    /\ src' = [src EXCEPT !.enabled = ~@]
    /\ UNCHANGED <<clock, items, validators, lastOk, okRuns, lastRun, inflight,
                   credential, run, pending, observers>>

\* PATCH {endpoints}: the settings are written, then the stored validators dropped, in
\* statements of their own.
PatchEndpoints(s) ==
    /\ "patch" \in Ops
    /\ Free /\ src.exists
    /\ s # src.settings
    /\ src' = [src EXCEPT !.settings = s]
    /\ Step("reset", {})
    /\ UNCHANGED <<clock, items, validators, lastOk, okRuns, lastRun, inflight, credential, run, observers>>

ResetValidators ==
    /\ pending.step = "reset"
    /\ validators' = [e \in Endpoint |-> NoValidators]
    /\ pending' = NoRequest
    /\ UNCHANGED <<clock, src, items, lastOk, okRuns, lastRun, inflight, credential, run, observers>>

DeleteUncounted ==      \* mutant: the items are not counted
    /\ "delete" \in Ops
    /\ Free /\ src.exists
    /\ Step("counted", {})
    /\ UNCHANGED <<clock, rows, inflight, credential, run, observers>>

\* DELETE, one transaction: the items that are committed are counted, and none may be,
DeleteCount ==
    /\ "delete" \in Ops
    /\ Free /\ src.exists
    /\ \A i \in Identities : items[i].state = "absent"
    /\ Step("counted", {})
    /\ UNCHANGED <<clock, rows, inflight, credential, run, observers>>

\* the row goes, and the run rows that are committed by then,
DeleteRuns ==
    /\ pending.step = "counted"
    /\ Step("deleting", okRuns)
    /\ UNCHANGED <<clock, rows, inflight, credential, run, observers>>

\* the endpoint state goes, and the others see it all.
DeleteCommit ==
    /\ pending.step = "deleting"
    /\ src' = [src EXCEPT !.exists = FALSE]
    /\ validators' = [e \in Endpoint |-> NoValidators]
    /\ lastOk' = [e \in Endpoint |-> IF lastOk[e].id \in pending.runs THEN NoRun ELSE lastOk[e]]
    /\ okRuns' = okRuns \ pending.runs
    /\ pending' = NoRequest
    /\ UNCHANGED <<clock, items, lastRun, inflight, credential, run, observers>>

\* A statement of it fails: what a PATCH has written stays, a DELETE is rolled back.
RequestFails ==
    /\ "dberror" \in Ops
    /\ ~Free /\ pending' = NoRequest
    /\ UNCHANGED <<clock, rows, inflight, credential, run, observers>>

\* POST of the key again, or the seed script: a row with fresh runtime columns.
CreateSource(s) ==
    /\ "delete" \in Ops
    /\ ~src.exists
    /\ src' = NewSource(s)
    /\ streak' = 0
    /\ UNCHANGED <<clock, items, validators, lastOk, okRuns, lastRun, inflight,
                   credential, run, pending, quiet, overtaken>>

\* DELETE /items/:id with a reason.
Takedown(i) ==
    /\ "takedown" \in Ops
    /\ items[i].state = "live"
    /\ items' = [items EXCEPT ![i].state = "removed"]
    /\ UNCHANGED <<clock, src, validators, lastOk, okRuns, lastRun, inflight,
                   credential, run, pending, observers>>

\* A database error outside fetchEndpoint's try: run() rejects, finally frees the key.
RunThrows(t) ==
    /\ "dberror" \in Ops
    /\ Active(t)
    /\ Release
    /\ GoIdle(t)
    /\ UNCHANGED <<clock, rows, credential, pending, observers>>

\* The process dies and another starts, perhaps with another environment.
Restart ==
    /\ "crash" \in Ops
    /\ inflight' = FALSE
    /\ run' = AllIdle
    /\ credential' \in BOOLEAN
    /\ pending' = NoRequest
    /\ UNCHANGED <<clock, rows, observers>>

Tick ==
    /\ clock < MaxTime
    /\ \A t \in Triggers : Active(t) => clock - run[t].began < MaxSpan
    /\ clock' = clock + 1
    /\ UNCHANGED <<rows, inflight, credential, run, pending, observers>>

------------------------------------------------------------------------------

EndpointStep(t) ==
    \/ CredentialMissing(t)
    \/ RobotsDenied(t)
    \/ ReadValidators(t)
    \/ Request(t)
    \/ NotModified(t)
    \/ \E wait \in Waits : TooManyRequests(t, wait) \/ Unavailable(t, wait)
    \/ FetchFailed(t)
    \/ \E body \in Body : Unreadable(t, body)
    \/ \E body \in Body, etag \in BOOLEAN : Ok(t, body, etag)

\* What a run does by itself once it is past the gate.
RunStep(t) == EndpointStep(t) \/ Retire(t) \/ Finish(t)

Caller(t) == ReadRow(t) \/ Refuse(t) \/ Begin(t) \/ RunStep(t) \/ RunThrows(t)

\* The statements that a PATCH or a DELETE still has to make.
Statement == ResetValidators \/ DeleteRuns \/ DeleteCommit

Operator ==
    \/ PatchEnabled
    \/ \E s \in Settings : PatchEndpoints(s) \/ CreateSource(s)
    \/ DeleteCount \/ Statement \/ RequestFails
    \/ \E i \in Identities : Takedown(i)

Next == (\E t \in Triggers : Caller(t)) \/ Operator \/ Restart \/ Tick

Spec == Init /\ [][Next]_vars

\* Every await of a run ends: fetches have a deadline, the spacer grants turns, the
\* statements of a request follow each other, and one that waits for the row's lock is
\* queued for it.
FairSpec ==
    /\ Spec
    /\ \A t \in Triggers : WF_vars(RunStep(t)) /\ SF_vars(Request(t) \/ Finish(t))
    /\ WF_vars(Statement)

------------------------------------------------------------------------------
(* Properties *)

\* Never two runs of the source past the gate, and the inflight set says so
\* exactly: a key left behind would stop the source, a key missing would let
\* a second run in (ingest.js:648-649 and the finally at 687).
SingleFlight ==
    /\ \A t, u \in Triggers : Active(t) /\ Active(u) => t = u
    /\ inflight <=> \E t \in Triggers : Active(t)

\* A stored ETag is worth a 304 only if everything the body listed is in the
\* store: the newest ok run of the endpoint read that very body, and every
\* identity in it has a row, live or removed (ingest.js:16-18, 220-233).
ValidatorsBacked ==
    \A e \in Endpoint : validators[e] # NoValidators =>
        /\ lastOk[e].id \in okRuns
        /\ lastOk[e].listed = validators[e].listed
        /\ \A i \in validators[e].listed : items[i].state # "absent"

\* Every item names an ok row of fetch_runs that still exists (last_fetch_run_id, the
\* provenance every item is served with), unless that run stored it after a DELETE of the
\* source had counted the items and before it took the run rows (api/sources.js:112-119).
ProvenanceUnlessOvertaken ==
    \A i \in Identities : items[i].state # "absent" => items[i].run \in okRuns \cup overtaken

\* The same without the exception: what README and registry.js:348 want of a DELETE
\* ("provenance must stay resolvable").
ProvenanceResolves ==
    \A i \in Identities : items[i].state # "absent" => items[i].run \in okRuns

\* A source that has items still exists (README: "A source with items cannot be
\* deleted - disable it - so provenance stays resolvable").
ItemsHaveSource ==
    (\E i \in Identities : items[i].state # "absent") => src.exists

\* Retirement takes nothing that the newest good parse of some endpoint still
\* listed (ingest.js:20-22: a 304 counts as seeing that parse again).
RetiresOnlyUnlisted ==
    [][\A t \in Triggers : Retire(t) =>
         \A i \in Identities : items[i].state = "live" /\ items'[i].state = "removed" =>
             \A e \in Endpoint : i \notin lastOk[e].listed]_vars

\* The same of the runs that end within retire_after_sec of their beginning: the cutoff is
\* taken from the end of the run, and each endpoint has waited for its host's turn before.
PromptRunsRetireOnlyUnlisted ==
    [][\A t \in Triggers : Retire(t) /\ clock - run[t].began <= RetireAfter =>
         \A i \in Identities : items[i].state = "live" /\ items'[i].state = "removed" =>
             \A e \in Endpoint : i \notin lastOk[e].listed]_vars

\* Removal is sticky: whatever the feed lists and whoever runs, a removed item
\* stays removed (items.js:10-11).
RemovalSticky ==
    [][\A i \in Identities : items[i].state = "removed" => items'[i].state = "removed"]_vars

\* No request to an endpoint before the time its site asked for has come
\* (README, Ingestion step 3; the rate_limited state in ingest.js:12-13).
RetryAfterHonoured ==
    [][\A t \in Triggers : Request(t) => clock >= quiet[run[t].k]]_vars

\* consecutive_failures is the number of failing runs since the last good one,
\* which is what health and backoff are computed from (ingest.js:676-680).
FailuresCounted == src.failures = streak

\* The validators in the store were parsed under the settings in the store, so
\* new settings reach the next fetch (registry.js:338-339).
ValidatorsMatchSettings ==
    pending.step # "reset" =>
        \A e \in Endpoint : validators[e] # NoValidators => validators[e].settings = src.settings

\* A PATCH of the endpoints that is over has dropped the validators of the old ones.
PatchResets ==
    [][pending.step = "reset" /\ pending'.step # "reset" => \A e \in Endpoint : validators'[e] = NoValidators]_vars

\* A key never stays in the inflight set: every run ends (ingest.js:687).
RunEnds == inflight ~> ~inflight
=============================================================================

------------------------------- MODULE Polite -------------------------------
(***************************************************************************)
(* How runs reach a site: robots.txt before every URL and every redirect   *)
(* hop (server/robots.js, its cache and its loads), the hosts' turns       *)
(* (server/spacer.js) and the request itself (server/net/fetcher.js), as   *)
(* ingest.js and crawl.js put them together.                               *)
(*                                                                         *)
(* Runs of different sources share the hosts.  Between the SELECT that     *)
(* finds no fresh policy and what follows, another run may load it.  A     *)
(* turn is taken and its request made in one step: only a short write      *)
(* lies between.                                                           *)
(* Time is counted in ticks and only relatively: since a host's last turn  *)
(* and since a policy was loaded.  An origin is its host.                  *)
(***************************************************************************)
EXTENDS Robots

CONSTANTS
    Runs, Hosts, Urls,  \* a URL is [host, path]
    Targets,        \* the URLs that sources name
    Texts,          \* what a robots.txt can say
    MinInterval,    \* min_interval_ms of each run's source
    Keyed,          \* the runs whose source has a credential, and validators stored
    HostMin,        \* SOURCES_HOST_MIN_INTERVAL_MS
    Ttl, RetryTtl,  \* SOURCES_ROBOTS_TTL_MS, and of one that is unreachable
    MaxGap,         \* the longest gap: a Crawl-delay is cut to an hour
    MaxRedirects,   \* SOURCES_MAX_REDIRECTS
    Spoilt,         \* bound: the origins whose stored row may become unreadable
    Lines, Longest  \* bound: the lines and the length of the files that FilesAgree looks at

ASSUME ConstantsAssumption ==
    /\ Spoilt \subseteq Hosts /\ Targets \subseteq Urls /\ Keyed \subseteq Runs /\ "robots" \notin Runs
    /\ \A url \in Urls : url.host \in Hosts
    /\ MinInterval \in [Runs -> 0..MaxGap]
    /\ HostMin \in 0..MaxGap /\ MaxGap \in Nat
    /\ Ttl \in Nat \ {0} /\ RetryTtl \in 1..Ttl /\ MaxRedirects \in Nat
    /\ Longest \in Nat /\ \A line \in Lines : IsLine(line)
    /\ \A text \in Texts : text \in Seq(ToSet(text)) /\ \A line \in ToSet(text) : IsLine(line)

VARIABLES
    cache,      \* robots_cache, by origin
    age,        \* ticks since a policy was loaded (expires_at)
    load,       \* the load of a policy that is under way (inflight)
    chain,      \* hosts' turns, in the order they were asked for
    gap,        \* what the first of the chain waits for, once the chain has come to it
    since,      \* ticks since the host's last turn, or more than any gap
    delay,      \* crawlDelayMs
    runs        \* what each run's request is doing

vars == <<cache, age, load, chain, gap, since, delay, runs>>
hosts == <<chain, gap, since, delay>>
policies == <<cache, age>>

\* What the site answers for /robots.txt.
Answers == {[outcome |-> "parsed", text |-> text] : text \in Texts}
           \cup {[outcome |-> o, text |-> <<>>] : o \in {"unavailable", "unreachable"}}

\* `text` stands for the answer the rules and the delay were parsed from.  The outcome of
\* a row whose rules can no longer be read is "parsed" too; here it is a name of its own.
NoPolicy == [outcome |-> "none", text |-> <<>>]
Policy == Answers \cup {NoPolicy} \cup {[outcome |-> "unreadable", text |-> text] : text \in Texts}
Fresh(h) ==
    /\ cache[h] # NoPolicy
    /\ age[h] < (IF cache[h].outcome = "unreachable" THEN RetryTtl ELSE Ttl)

Parsed == [text \in Texts |-> Parse(text)]

\* The Crawl-delay of a verdict, a column of its own; null unless a file was parsed.
DelayOf(policy) == IF policy.outcome \in {"parsed", "unreadable"} THEN Parsed[policy.text].delay ELSE NoDelay
AllowedUnreachable(policy, path) ==     \* mutant: only rules that were read refuse
    policy.outcome = "parsed" => Allows(Parsed[policy.text].rules, path)
\* storedRules: rules that cannot be read are no rules.
Allowed(policy, path) ==
    \/ policy.outcome \in {"unavailable", "unreadable"}
    \/ policy.outcome = "parsed" /\ Allows(Parsed[policy.text].rules, path)

NoUrl == [host |-> "none", path |-> "none"]
Free == [pc |-> "idle", first |-> NoUrl, url |-> NoUrl, hops |-> 0, policy |-> NoPolicy,
         conditional |-> FALSE, credential |-> FALSE]
RunState == [pc : {"idle", "check", "load", "verdict", "turn", "asked"}, first : Urls \cup {NoUrl},
             url : Urls \cup {NoUrl}, hops : 0..(MaxRedirects + 1), policy : Policy,
             conditional : BOOLEAN, credential : BOOLEAN]

Robot == "robots"   \* the load's own turn
Waiters == Runs \cup {Robot}

TypeOK ==
    /\ cache \in [Hosts -> Policy] /\ age \in [Hosts -> 0..Ttl]
    /\ load \in [Hosts -> {"none", "turn", "asked"}]
    /\ \A h \in Hosts : IsInjective(chain[h]) /\ ToSet(chain[h]) \subseteq Waiters
    /\ gap \in [Hosts -> (-1)..MaxGap]
    /\ since \in [Hosts -> 0..MaxGap]
    /\ delay \in [Hosts -> 0..MaxGap]
    /\ runs \in [Runs -> RunState]
    /\ \A h \in Hosts : load[h] = "turn" <=> Robot \in ToSet(chain[h])
    /\ \A r \in Runs : runs[r].pc = "turn" <=> \E h \in Hosts : r \in ToSet(chain[h])

NotReached == -1

Init ==
    /\ cache = [h \in Hosts |-> NoPolicy] /\ age = [h \in Hosts |-> Ttl]
    /\ load = [h \in Hosts |-> "none"]
    /\ chain = [h \in Hosts |-> <<>>]
    /\ gap = [h \in Hosts |-> NotReached]
    /\ since = [h \in Hosts |-> MaxGap]
    /\ delay = [h \in Hosts |-> 0]
    /\ runs = [r \in Runs |-> Free]

------------------------------------------------------------------------------
(* Turns (spacer.js) *)

Queue(h, w) == chain' = [chain EXCEPT ![h] = Append(@, w)]

\* The chain has come to its first: the gap is settled now, whatever is set later.
Reach(h) ==
    LET w == Head(chain[h])
        min == IF w \in Runs THEN MinInterval[w] ELSE 0
    IN
    /\ chain[h] # <<>> /\ gap[h] = NotReached
    /\ gap' = [gap EXCEPT ![h] = Max({HostMin, min, delay[h]})]
    /\ UNCHANGED <<policies, load, chain, since, delay, runs>>

MyTurn(h, w) ==
    /\ chain[h] # <<>> /\ Head(chain[h]) = w
    /\ gap[h] # NotReached /\ since[h] >= gap[h]

\* h.last = now(), and the next one's turn is waited for.
TakeTurn(h) ==
    /\ chain' = [chain EXCEPT ![h] = Tail(@)]
    /\ gap' = [gap EXCEPT ![h] = NotReached]
    /\ since' = [since EXCEPT ![h] = 0]
    /\ UNCHANGED delay

\* setCrawlDelay: a policy without one leaves the former in force.
SetCrawlDelay(h, n) == delay' = IF n = NoDelay THEN delay ELSE [delay EXCEPT ![h] = Min({n, MaxGap})]

------------------------------------------------------------------------------
(* Policies (robots.js) *)

\* entry() after a SELECT without a fresh row: the load under way is joined, or one begins,
\* even if another has ended since the SELECT.
Entry(r) ==
    LET h == runs[r].url.host IN
    /\ runs[r].pc = "check"
    /\ runs' = [runs EXCEPT ![r].pc = "load"]
    /\ IF load[h] = "none"
       THEN load' = [load EXCEPT ![h] = "turn"] /\ Queue(h, Robot)
       ELSE UNCHANGED <<load, chain>>
    /\ UNCHANGED <<policies, gap, since, delay>>

AskForRobots(h) ==
    /\ MyTurn(h, Robot) /\ TakeTurn(h)
    /\ load' = [load EXCEPT ![h] = "asked"]
    /\ UNCHANGED <<policies, runs>>

LoadKept(h, answer) ==      \* mutant: the load that has ended is still there to be joined
    /\ load[h] = "asked" /\ \A r \in Runs : runs[r].pc # "verdict"
    /\ load' = [load EXCEPT ![h] = "turn"]
    /\ cache' = [cache EXCEPT ![h] = answer] /\ age' = [age EXCEPT ![h] = 0]
    /\ runs' = [r \in Runs |-> IF runs[r].pc = "load" /\ runs[r].url.host = h
                               THEN [runs[r] EXCEPT !.pc = "verdict", !.policy = answer]
                               ELSE runs[r]]
    /\ UNCHANGED hosts

\* 2xx; 4xx but 429; anything else and every error.  Whoever waits for the load gets its
\* row, and has looked at it before another answer arrives.
Load(h, answer) ==
    /\ load[h] = "asked" /\ \A r \in Runs : runs[r].pc # "verdict"
    /\ load' = [load EXCEPT ![h] = "none"]
    /\ cache' = [cache EXCEPT ![h] = answer] /\ age' = [age EXCEPT ![h] = 0]
    /\ runs' = [r \in Runs |-> IF runs[r].pc = "load" /\ runs[r].url.host = h
                               THEN [runs[r] EXCEPT !.pc = "verdict", !.policy = answer]
                               ELSE runs[r]]
    /\ UNCHANGED hosts

------------------------------------------------------------------------------
(* A request *)

\* robots.check of the URL: a fresh row is judged at once.
Checked(state) ==
    IF Fresh(state.url.host) THEN [state EXCEPT !.pc = "verdict", !.policy = cache[state.url.host]]
    ELSE [state EXCEPT !.pc = "check"]

Start(r, url) ==
    /\ runs[r].pc = "idle"
    /\ runs' = [runs EXCEPT ![r] = Checked([Free EXCEPT !.first = url, !.url = url,
                                        !.conditional = r \in Keyed, !.credential = r \in Keyed])]
    /\ UNCHANGED <<policies, load, hosts>>

Judged(r) == runs[r].pc = "verdict" /\ UNCHANGED <<policies, load, gap, since>>
Judgement(r) == Allowed(runs[r].policy, runs[r].url.path)
End(r) == runs' = [runs EXCEPT ![r] = Free]

\* Disallowed or unreachable: the run or the hop is refused.  A run sets the host's
\* delay before it looks at the verdict, a hop after.
Refused(r) ==
    /\ Judged(r) /\ ~Judgement(r)
    /\ IF runs[r].hops = 0 THEN SetCrawlDelay(runs[r].url.host, DelayOf(runs[r].policy)) ELSE UNCHANGED delay
    /\ End(r) /\ UNCHANGED chain

\* The first request, and a hop to another host than its, waits for its turn.
Spaced(r) == runs[r].hops = 0 \/ runs[r].url.host # runs[r].first.host
WaitForTurnUntold(r) ==     \* mutant: the delay of the policy is not set
    /\ Judged(r) /\ Judgement(r) /\ Spaced(r)
    /\ Queue(runs[r].url.host, r)
    /\ runs' = [runs EXCEPT ![r].pc = "turn"]
    /\ UNCHANGED delay
WaitForTurn(r) ==
    /\ Judged(r) /\ Judgement(r) /\ Spaced(r)
    /\ SetCrawlDelay(runs[r].url.host, DelayOf(runs[r].policy))
    /\ Queue(runs[r].url.host, r)
    /\ runs' = [runs EXCEPT ![r].pc = "turn"]

Asking(r) == [runs EXCEPT ![r].pc = "asked", ![r].policy = NoPolicy]

\* A hop that stays on the first request's host does not.
HopAtOnce(r) ==
    /\ Judged(r) /\ Judgement(r) /\ ~Spaced(r)
    /\ runs' = Asking(r)
    /\ UNCHANGED <<chain, delay>>

Ask(r) ==
    LET h == runs[r].url.host IN
    /\ runs[r].pc = "turn" /\ MyTurn(h, r) /\ TakeTurn(h)
    /\ runs' = Asking(r)
    /\ UNCHANGED <<policies, load>>

\* The deadline runs while a hop waits: the turn is taken and nothing is asked.
Expired(r) ==
    LET h == runs[r].url.host IN
    /\ runs[r].pc = "turn" /\ runs[r].hops > 0
    /\ MyTurn(h, r) /\ TakeTurn(h)
    /\ End(r)
    /\ UNCHANGED <<policies, load>>

\* A redirect: conditional headers belong to the first URL, credentials to its origin.
HopKeeping(r, url) ==       \* mutant: the credential goes wherever the redirect goes
    [runs[r] EXCEPT !.url = url, !.hops = @ + 1, !.conditional = FALSE]
Hop(r, url) ==
    [runs[r] EXCEPT !.url = url, !.hops = @ + 1, !.conditional = FALSE,
                    !.credential = @ /\ url.host = runs[r].url.host]

Redirected(r, url) ==
    /\ runs[r].pc = "asked" /\ runs[r].hops < MaxRedirects
    /\ runs' = [runs EXCEPT ![r] = Checked(Hop(r, url))]
    /\ UNCHANGED <<policies, load, hosts>>

\* An answer, an error, the deadline, or one redirect too many.
Answered(r) ==
    /\ runs[r].pc = "asked"
    /\ End(r)
    /\ UNCHANGED <<policies, load, hosts>>

------------------------------------------------------------------------------
(* Time and restarts *)

\* What follows a SELECT, a load or a turn without waiting for anything takes no tick.
Tick ==
    /\ \A r \in Runs : runs[r].pc \notin {"check", "verdict"}
    /\ \A h \in Hosts : chain[h] = <<>> \/ gap[h] # NotReached
    /\ since' = [h \in Hosts |-> Min({MaxGap, since[h] + 1})]
    /\ age' = [h \in Hosts |-> Min({Ttl, age[h] + 1})]
    /\ UNCHANGED <<cache, load, chain, gap, delay, runs>>

\* A stored row's rules become unreadable, whatever does it.  A row in hand is judged first.
Spoil(h) ==
    /\ cache[h].outcome = "parsed" /\ \A r \in Runs : runs[r].pc # "verdict"
    /\ cache' = [cache EXCEPT ![h].outcome = "unreadable"]
    /\ UNCHANGED <<age, load, hosts, runs>>

\* The hosts' turns are in memory only; the policies are not.
Restart ==
    /\ load' = [h \in Hosts |-> "none"]
    /\ chain' = [h \in Hosts |-> <<>>] /\ gap' = [h \in Hosts |-> NotReached]
    /\ since' = [h \in Hosts |-> MaxGap]
    /\ delay' = [h \in Hosts |-> 0]
    /\ runs' = [r \in Runs |-> Free]
    /\ UNCHANGED policies

RunStep(r) ==
    \/ Entry(r) \/ Refused(r) \/ WaitForTurn(r) \/ HopAtOnce(r)
    \/ Ask(r) \/ Expired(r) \/ Answered(r)
LoadStep(h) == AskForRobots(h) \/ \E answer \in Answers : Load(h, answer)

Next ==
    \/ \E r \in Runs : \/ RunStep(r)
                       \/ \E url \in Targets : Start(r, url)
                       \/ \E url \in Urls : Redirected(r, url)
    \/ \E h \in Hosts : Reach(h) \/ LoadStep(h)
    \/ \E h \in Spoilt : Spoil(h)
    \/ Tick \/ Restart

Spec == Init /\ [][Next]_vars

\* Time passes, whatever takes no time in between; promises are settled, and every
\* request has a deadline, that of a load too, whoever acts between.
FairSpec ==
    /\ Spec
    /\ SF_vars(Tick)
    /\ \A r \in Runs : WF_vars(RunStep(r))
    /\ \A h \in Hosts : WF_vars(Reach(h)) /\ SF_vars(LoadStep(h))

------------------------------------------------------------------------------
(* Properties *)

\* A request is made: of a run's URL, in its turn or not.
Asks(r) == runs[r].pc # "asked" /\ runs'[r].pc = "asked"

\* Reading a robots.txt in order, group by group and rule by rule (robots.js:23-99), comes to
\* what the file means by RFC 9309, unless another line stands between the User-agent lines
\* of a group.  Looked at once, in the initial state.
FilesAgree == Init => ReadAsMeant(Lines, Longest, {url.path : url \in Urls})

\* robots.js:3-4, :9-10 "checked before every request ... never guessed as allowed": what
\* the site last answered the run about this very URL's host lets it fetch the URL, by the
\* meaning of the file and not by the way it is read.  The exceptions are a stored row
\* whose rules can no longer be read, which counts as no rules (robots.js:159), and a file
\* that robots.js:46 takes apart.
NeverGuessed ==
    [][\A r \in Runs : Asks(r) =>
         /\ runs[r].policy.outcome \in {"parsed", "unavailable", "unreadable"}
         /\ \/ runs[r].policy.outcome = "unreadable"
            \/ Interrupted(runs[r].policy.text)
            \/ MayFetch(runs[r].policy.text, runs[r].url.path)]_vars

\* spacer.js:3-5: between two turns of a host lie the host's least gap, the least gap of
\* the source that asks, and the Crawl-delay that its policy told, unless a newer policy
\* of the host told a shorter one; one that tells none leaves the delay in force.
LeastTold(policy, newer) == Min({MaxGap, DelayOf(policy)} \cup ({DelayOf(newer)} \ {NoDelay}))
TurnsApart ==
    [][\A r \in Runs : Asks(r) /\ runs[r].pc = "turn" =>
         LET h == runs[r].url.host IN
         since[h] >= Max({HostMin, MinInterval[r], LeastTold(runs[r].policy, cache[h])})]_vars

\* fetcher.js:107-108 "Conditional headers belong to the original resource only;
\* credentials never leave the origin they were configured for", through any redirects.
HeadersStay ==
    \A r \in Runs : runs[r].pc = "asked" =>
        /\ runs[r].credential => runs[r].url.host = runs[r].first.host
        /\ runs[r].conditional => runs[r].hops = 0

\* Runs that wait for turns and for each other's loads all end: a load that waits in the
\* chain behind the runs, and the runs that wait for the load, never wait in a circle.
RequestsEnd == \A r \in Runs : runs[r].pc # "idle" ~> runs[r].pc = "idle"

\* The same as FilesAgree of every file: robots.js:3 "robots.txt (RFC 9309)".
EveryFileAgrees == Init => \A text \in SeqOf(Lines, Longest) : MeansTheSame(text, {url.path : url \in Urls})

\* The same as NeverGuessed without its exceptions: no request is made that the file the
\* site last told us refuses.
NoRuleIsLost == [][\A r \in Runs : Asks(r) => MayFetch(runs[r].policy.text, runs[r].url.path)]_vars

\* spacer.js:3-5 "before any request to a host, wait until ... has passed since the previous
\* request to it": any request, redirects to the same host too.
AnyRequestApart ==
    [][\A r \in Runs : Asks(r) => since[runs[r].url.host] >= HostMin]_vars

=============================================================================

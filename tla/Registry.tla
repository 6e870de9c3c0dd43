------------------------------ MODULE Registry ------------------------------
(***************************************************************************)
(* The definition of a source (server/registry.js, validateSource) and     *)
(* what happens to it: it is created, by an operator or by the two         *)
(* scripts, it is changed by PATCHes, each of which validates the stored   *)
(* row anew with the fields given laid over it, it is fetched, and deleted.*)
(*                                                                         *)
(* A definition is a function from the fields it gives; so are an endpoint *)
(* and the row.  Validation treats null as not given, so only a PATCH has  *)
(* it, to take a field back.  Fields that are checked and copied alone     *)
(* (names, notes on the licence, intervals) are left out.                  *)
(*                                                                         *)
(* A PATCH is no transaction: it reads the row, counts the items when the  *)
(* type changes, validates, and writes every column.  A deletion counts    *)
(* the items before it deletes.  Each of these statements is an action.    *)
(* The validators of conditional requests, which a PATCH of the endpoints  *)
(* drops in one more statement, are in module Ingest.                      *)
(***************************************************************************)
EXTENDS Integers, FiniteSets, Functions

CONSTANTS
    Null,           \* a field that a PATCH takes back
    Definitions,    \* what is created, by an operator or from the seeds
    Adapters,       \* the definitions of register-adapters.js
    Changes,        \* the bodies of PATCHes
    Endpoints,      \* endpoints as they may be given
    Operators,      \* concurrent PATCH requests
    Caps,           \* the values the configuration gives SOURCES_MAX_ITEMS_PER_FETCH
    DefaultItems    \* 200

ASSUME ConstantsAssumption == Caps \subseteq Nat \ {0} /\ DefaultItems \in Nat \ {0}

VARIABLES
    row,        \* sources: the row, or NoRow
    hasItems,   \* the source has rows in items
    cap,        \* the configuration of this process
    patch,      \* per PATCH: what it read, then the row it will write
    removing,   \* a DELETE that has counted no items
    fetching    \* a run that has read the row

registryVars == <<row, hasItems, cap, patch, removing, fetching>>

NoRow == <<>>
NotPatching == [pc |-> "none", changes |-> <<>>, row |-> NoRow]

Feeds == {"rss", "atom"}
Types == Feeds \cup {"sitemap", "jsonld", "api", "bulk", "crawl", "manual"}

Given(e, k) == k \in DOMAIN e
Or(e, k, default) == IF Given(e, k) THEN e[k] ELSE default
Copied(e, keys) == Restrict(e, DOMAIN e \cap keys)
\* { ...g, ...f }; TLC's @@ says the same, but has no definition that TLAPS can expand.
Over(f, g) == [k \in DOMAIN f \cup DOMAIN g |-> IF k \in DOMAIN f THEN f[k] ELSE g[k]]

------------------------------------------------------------------------------
(* Endpoints *)

\* checkMapping of adapters/api.js.  The paths of the fields that are told apart are "$key",
\* which only a map has, and "path".
Mappable(e, bulk) ==
    LET shape == Or(e, "items_shape", "array")
        fields == Or(e, "fields", <<>>)
        paths == Range(fields) \cup Range(Or(e, "extra", <<>>))
        format == IF bulk THEN "csv" ELSE "json"
    IN
    /\ Or(e, "format", format) \in {"csv", "tsv"} \cup (IF bulk THEN {"jsonl"} ELSE {"json", "xml"})
    /\ Or(e, "format", format) \in {"json", "xml"} \/ ~Given(e, "format") \/ Or(e, "items_path", "") = ""
    /\ Given(e, "identity_fields") => shape = "array" /\ ~Given(fields, "identity")
    /\ Given(fields, "identity") \/ Given(fields, "url") \/ Given(e, "identity_fields")
    /\ "$key" \in paths => shape = "map"
    /\ DOMAIN Or(e, "extra", <<>>) \cap DOMAIN Or(e, "extra_lists", <<>>) = {}
    /\ Given(e, "max_rows") => bulk

Defaults(e, format, kind) ==
    [url |-> e.url, format |-> Or(e, "format", format), item_kind |-> Or(e, "item_kind", kind),
     fields |-> Or(e, "fields", <<>>), extra |-> Or(e, "extra", <<>>)]
Shape(e) == [items_shape |-> Or(e, "items_shape", "array"), items_path |-> Or(e, "items_path", "")]

\* An api endpoint with a resolver: what the row adds is taken back, as the default only.
ResolverKeysGiven == {"url", "format", "resolver", "item_kind", "max_bytes"}     \* mutant: what an operator gives
ResolverKeys == {"url", "format", "resolver", "item_kind", "max_bytes", "items_shape", "items_path", "fields", "extra"}
ResolverAccepted(e) ==
    /\ DOMAIN e \subseteq ResolverKeys
    /\ e.resolver = "hn-whoishiring" /\ e.url = "document.json"
    /\ Or(e, "format", "json") = "json"
    /\ Shape(e) = [items_shape |-> "array", items_path |-> ""]
    /\ Or(e, "fields", <<>>) = <<>> /\ Or(e, "extra", <<>>) = <<>>

BulkAccepted(e) ==
    /\ Mappable(e, TRUE)
    /\ DOMAIN e \subseteq {"url", "format", "item_kind", "fields", "extra", "extra_lists", "max_bytes", "max_rows", "resolver"}
    /\ Given(e, "resolver") => e.resolver = "off-delta" /\ e.url = "index.txt" /\ Or(e, "format", "csv") = "jsonl"

EndpointAccepted(type, e) ==
    /\ Given(e, "url")
    /\ CASE type = "api" /\ Given(e, "resolver") -> ResolverAccepted(e)
         [] type = "api" /\ ~Given(e, "resolver") -> Mappable(e, FALSE)
         [] type = "bulk" -> BulkAccepted(e)
         [] OTHER -> DOMAIN e \subseteq {"url"} \cup (IF type \in Feeds THEN {"extract"} ELSE {})

ApiKeys == {"where", "extra_lists", "identity_fields", "duplicates", "max_bytes"}
ApiOf(e, keys, kind) == Over(Copied(e, keys), Over(Defaults(e, "json", kind), Shape(e)))
BulkKeys == {"extra_lists", "max_bytes", "resolver"}
BulkOf(e) == Over(Copied(e, BulkKeys), Over(Defaults(e, "csv", "record"), [max_rows |-> Or(e, "max_rows", 1000)]))

EndpointOf(type, e) ==
    CASE type = "api" /\ Given(e, "resolver") -> ApiOf(e, {"max_bytes", "resolver"}, "job")
      [] type = "api" /\ ~Given(e, "resolver") -> ApiOf(e, ApiKeys, "record")
      [] type = "bulk" -> BulkOf(e)
      [] OTHER -> Copied(e, {"url", "extract"})

------------------------------------------------------------------------------
(* Sources *)

CrawlDefaults == [sitemaps |-> TRUE, follow_links |-> FALSE, include |-> <<>>, exclude |-> <<>>, max_pages |-> 5000,
                  pages_per_run |-> 100, recrawl_sec |-> 86400, max_depth |-> 2, require_structured |-> TRUE]

AuthModes == {"none", "header", "bearer", "query"}
AuthKeys(mode) == {"mode"} \cup (IF mode = "none" THEN {} ELSE {"env"})
                           \cup (CASE mode = "header" -> {"header"} [] mode = "query" -> {"param"} [] OTHER -> {})

Fields == {"type", "endpoints", "auth", "crawl", "robots_note", "terms_note", "max_items", "enabled",
           "review_required", "sensitive", "default_indexability", "retire_after_sec"}

EndpointsOf(input) == Or(input, "endpoints", <<>>)
AuthOf(input) == Or(input, "auth", [mode |-> "none"])

\* What a row has of every source, of those that say so, and of a crawl.
Settings(input, limit) ==
    [type |-> input.type,
     endpoints |-> [n \in DOMAIN EndpointsOf(input) |-> EndpointOf(input.type, EndpointsOf(input)[n])],
     auth |-> Copied(AuthOf(input), AuthKeys(AuthOf(input).mode)),
     max_items |-> Or(input, "max_items", IF DefaultItems < limit THEN DefaultItems ELSE limit),
     enabled |-> Or(input, "enabled", FALSE),
     review_required |-> Or(input, "review_required", TRUE),
     sensitive |-> Or(input, "sensitive", FALSE),
     default_indexability |-> Or(input, "default_indexability", "noindex")]
Optional == {"robots_note", "terms_note", "retire_after_sec"}
CrawlOf(input) == IF input.type = "crawl" THEN [crawl |-> Over(Or(input, "crawl", <<>>), CrawlDefaults)] ELSE <<>>

\* The record that validateSource returns.
RecordOf(input, limit) == Over(Copied(input, Optional), Over(Settings(input, limit), CrawlOf(input)))

GivenAccepted(input) ==
    LET endpoints == EndpointsOf(input)
        auth == AuthOf(input)
    IN
    /\ DOMAIN input \subseteq Fields /\ Given(input, "type") /\ input.type \in Types
    /\ DOMAIN endpoints \in {1..n : n \in 0..20}
    /\ input.type = "manual" <=> DOMAIN endpoints = {}
    /\ input.type = "bulk" => DOMAIN endpoints = {1}
    /\ \A n \in DOMAIN endpoints : EndpointAccepted(input.type, endpoints[n])
    /\ \A k, n \in DOMAIN endpoints : k # n => endpoints[k].url # endpoints[n].url
    /\ Given(auth, "mode") /\ auth.mode \in AuthModes
    /\ AuthKeys(auth.mode) \subseteq DOMAIN auth /\ DOMAIN auth \subseteq {"mode", "env", "header", "param"}
    /\ input.type = "manual" => auth.mode = "none"
    /\ Given(input, "crawl") => input.type = "crawl" /\ DOMAIN input.crawl \subseteq DOMAIN CrawlDefaults

RecordAccepted(r, limit) ==
    /\ r.max_items \in 1..limit
    /\ r.type \in {"crawl", "bulk"} => ~Given(r, "retire_after_sec")
    /\ r.sensitive /\ r.default_indexability = "index" => r.review_required
    /\ r.enabled => Given(r, "terms_note") /\ (r.type = "manual" \/ Given(r, "robots_note"))

Accepted(input, limit) == GivenAccepted(input) /\ RecordAccepted(RecordOf(input, limit), limit)

------------------------------------------------------------------------------
(* What happens to a source *)

RegistryInit ==
    /\ row = NoRow /\ hasItems = FALSE /\ cap \in Caps
    /\ patch = [p \in Operators |-> NotPatching] /\ removing = FALSE /\ fetching = FALSE

Create(input) ==
    /\ row = NoRow
    /\ Accepted(input, cap)
    /\ row' = RecordOf(input, cap)
    /\ UNCHANGED <<hasItems, cap, patch, removing, fetching>>

\* A stored row with the changes laid over it.
Merged(changes, stored) ==
    Over(Restrict(changes, {k \in DOMAIN changes : changes[k] # Null}), Restrict(stored, DOMAIN stored \ DOMAIN changes))

\* Validation, right after the last read: the row as it will be written, or a refusal.
Validated(p, changes, stored) ==
    LET merged == Merged(changes, stored) IN
    patch' = [patch EXCEPT ![p] =
        IF Accepted(merged, cap) THEN [pc |-> "valid", changes |-> <<>>, row |-> RecordOf(merged, cap)] ELSE NotPatching]

\* The row is read; a change of the type counts the items first.
PatchBegin(p, changes) ==
    /\ patch[p].pc = "none" /\ row # NoRow
    /\ IF Or(changes, "type", row.type) # row.type
       THEN patch' = [patch EXCEPT ![p] = [pc |-> "count", changes |-> changes, row |-> row]]
       ELSE Validated(p, changes, row)
    /\ UNCHANGED <<row, hasItems, cap, removing, fetching>>

PatchCount(p) ==
    /\ patch[p].pc = "count"
    /\ IF hasItems
       THEN patch' = [patch EXCEPT ![p] = NotPatching]
       ELSE Validated(p, patch[p].changes, patch[p].row)
    /\ UNCHANGED <<row, hasItems, cap, removing, fetching>>

\* The UPDATE of every column, which finds no row when the source was deleted meanwhile.
PatchStore(p) ==
    /\ patch[p].pc = "valid"
    /\ row' = IF row # NoRow THEN patch[p].row ELSE row
    /\ patch' = [patch EXCEPT ![p] = NotPatching]
    /\ UNCHANGED <<hasItems, cap, removing, fetching>>

\* scripts/seed.js: what is there stays as it is, and what is not is created disabled.
Seeds == {Over([enabled |-> FALSE], input) : input \in Definitions}
Seed == \E input \in Seeds : Create(input)

\* scripts/register-adapters.js: a source is created or brought to its adapter.  The script
\* compares a row that it read before the PATCH reads it again; what it found is left open.
Register(p, adapter) == Create(adapter) \/ PatchBegin(p, adapter)

\* DELETE, a transaction: no items are counted, later the row goes.
RemoveCount ==
    /\ row # NoRow /\ ~hasItems /\ ~removing
    /\ removing' = TRUE
    /\ UNCHANGED <<row, hasItems, cap, patch, fetching>>
Remove ==
    /\ removing
    /\ removing' = FALSE
    /\ row' = NoRow
    /\ UNCHANGED <<hasItems, cap, patch, fetching>>

\* The account of the merchant who asked for the source is erased (account-data.js): an UPDATE
\* of the row, without validation.
Closed(r) == Over([enabled |-> FALSE, terms_note |-> "closed"], r)
CloseAccount ==
    /\ row # NoRow
    /\ row' = Closed(row)
    /\ UNCHANGED <<hasItems, cap, patch, removing, fetching>>

\* A run reads the row and stores items some awaits later, whatever became of the row.
FetchBegin ==
    /\ row # NoRow /\ row.enabled /\ row.type # "manual" /\ ~fetching
    /\ fetching' = TRUE
    /\ UNCHANGED <<row, hasItems, cap, patch, removing>>
FetchEnd ==
    /\ fetching
    /\ fetching' = FALSE
    /\ hasItems' \in {hasItems, TRUE}
    /\ UNCHANGED <<row, cap, patch, removing>>

\* Retention deletes the last of the items.
Prune ==
    /\ hasItems
    /\ hasItems' = FALSE
    /\ UNCHANGED <<row, cap, patch, removing, fetching>>

\* A restart, with the limit that the configuration then has; the scripts have their own
\* process, so that a PATCH under way may survive it.
Restart ==
    /\ cap' \in Caps
    /\ \E died \in SUBSET Operators : patch' = [p \in Operators |-> IF p \in died THEN NotPatching ELSE patch[p]]
    /\ removing' = FALSE /\ fetching' = FALSE
    /\ UNCHANGED <<row, hasItems>>

RegistryNext ==
    \/ \E input \in Definitions : Create(input)
    \/ Seed
    \/ \E p \in Operators :
         \/ \E changes \in Changes : PatchBegin(p, changes)
         \/ \E adapter \in Adapters : Register(p, adapter)
         \/ PatchCount(p) \/ PatchStore(p)
    \/ RemoveCount \/ Remove \/ CloseAccount \/ FetchBegin \/ FetchEnd \/ Prune \/ Restart

RegistrySpec == RegistryInit /\ [][RegistryNext]_registryVars

------------------------------------------------------------------------------
(* Properties *)

\* Whatever led to it, a stored row is valid as it is, so that a PATCH can only be refused
\* for what it gives (registry.js:111-113; test/seeds.test.js:59); and the definition that
\* it was made from makes the same row again, so that a script that runs twice changes
\* nothing.  So does every endpoint, for every type.  Only a limit that was lowered below
\* the row's is left out.
EndpointStable(type, e) ==
    EndpointAccepted(type, e) =>
        LET stored == EndpointOf(type, e)
        IN  EndpointAccepted(type, stored) /\ EndpointOf(type, stored) = stored

EndpointsAccepted == \A type \in Types, e \in Endpoints : EndpointStable(type, e)

RowsAccepted ==
    /\ EndpointsAccepted
    /\ row # NoRow /\ row.max_items <= cap =>
        /\ Accepted(row, cap) /\ RecordOf(row, cap) = row
        /\ \A input \in Definitions :
             Accepted(input, cap) /\ RecordOf(input, cap) = row =>
                 Accepted(Over(input, row), cap) /\ RecordOf(Over(input, row), cap) = row

\* Not kept by the code: with a limit lowered below a row's max_items every PATCH of it is
\* refused, the one that disables the source too (registry.js:344, "otherwise disable it").
AlwaysDisabled == row # NoRow => Accepted(Over([enabled |-> FALSE], row), cap)
=============================================================================

----------------------------- MODULE MCRegistry -----------------------------
(* Instances of Registry for TLC. *)
EXTENDS Registry, TLC

CONSTANT Absent

GivenOf(form) == Restrict(form, {k \in DOMAIN form : form[k] # Absent})

\* Every endpoint of the fields, formats and shapes that are told apart, with optional
\* fields of each kind; most of them are refused.
RegistryEndpoints == {GivenOf(form) : form \in [
    url : {"document.json", "index.txt", "a"},
    format : {Absent, "json", "csv", "jsonl"},
    resolver : {Absent, "hn-whoishiring", "off-delta"},
    items_shape : {Absent, "array", "map"},
    items_path : {Absent, "", "path"},
    fields : {Absent, <<>>, [identity |-> "path"], [identity |-> "$key"]},
    identity_fields : {Absent, "paths"},
    max_rows : {Absent, 5},
    extract : {Absent, "facts"}]}

Plain(type, urls) == [type |-> type, endpoints |-> [n \in DOMAIN urls |-> [url |-> urls[n]]]]
Noted == [robots_note |-> "robots", terms_note |-> "terms"]

Mapping == [fields |-> [identity |-> "path"]]
RegistryDefinitions ==
    {Noted @@ [type |-> "api", endpoints |-> <<e>>] : e \in {
        [url |-> "a", items_shape |-> "map", fields |-> [identity |-> "$key"]],
        [url |-> "document.json", resolver |-> "hn-whoishiring"], [url |-> "a", resolver |-> "hn-whoishiring"]}}
    \cup {Noted @@ [type |-> "bulk", endpoints |-> <<e>>] : e \in {
        [url |-> "index.txt", format |-> "jsonl", resolver |-> "off-delta"] @@ Mapping,
        [url |-> "a", items_shape |-> "map"] @@ Mapping}}
    \cup {Plain("manual", <<>>), [crawl |-> [max_pages |-> 10]] @@ Plain("crawl", <<"a">>),
          Noted @@ [enabled |-> TRUE] @@ [auth |-> [mode |-> "bearer", env |-> "SECRET", header |-> "Key"]] @@ Plain("rss", <<"a", "b">>),
          [sensitive |-> TRUE, review_required |-> FALSE] @@ Plain("rss", <<"a">>)}

RegistryAdapters == {d \in RegistryDefinitions : d.type = "bulk"}

RegistryChanges ==
    {[enabled |-> TRUE], [terms_note |-> Null], [max_items |-> 3, default_indexability |-> "index"],
     [type |-> "sitemap"], [type |-> "rss", crawl |-> Null, retire_after_sec |-> 3600], [type |-> "crawl"],
     [endpoints |-> <<[url |-> "b"]>>, auth |-> [mode |-> "query", env |-> "SECRET", param |-> "key"]]}
=============================================================================

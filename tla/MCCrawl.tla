------------------------------ MODULE MCCrawl -------------------------------
(* Instances of Crawl for TLC. *)
EXTENDS Crawl

CONSTANTS a, b, c, d, m, n, o, i, j

Page(its, links, canonical) ==
    [status |-> 200, html |-> TRUE, items |-> its, links |-> links, canonical |-> canonical,
     noindex |-> FALSE, xrobots |-> FALSE]
Listed(urls) == [status |-> 200, urls |-> urls, rev |-> 0, xrobots |-> FALSE, noindex |-> FALSE]
Status(code) == [Page({}, {}, NoUrl) EXCEPT !.status = code]
File == [Page({}, {}, NoUrl) EXCEPT !.html = FALSE]
Hidden == [Page({i}, {}, NoUrl) EXCEPT !.noindex = TRUE]

\* A page with two items, which may turn noindex or go, one without any that may come to name
\* it, and a sitemap that lists both; robots.txt may come to refuse the first.
LiveBodies == (a :> {Page({i, j}, {}, NoUrl), Page({i}, {}, NoUrl), Status(404), Status(410), Hidden})
              @@ (b :> {Page({}, {}, NoUrl), Page({}, {a}, NoUrl), Page({j}, {}, NoUrl)})
              @@ (m :> {Listed({a, b})})
LiveSite == (a :> Page({i, j}, {}, NoUrl)) @@ (b :> Page({}, {}, NoUrl)) @@ (m :> Listed({a, b}))
LiveScopes == {{a, b}}
LivePolicies == {{}, {a}}
NoPolicies == {{}}

\* Pages that name each other as canonical, an index of a sitemap, settings and a policy
\* that leave one page out each, and a page that answers 410.
CoreBodies == (a :> {Page({i}, {}, NoUrl), Page({i}, {}, b), Status(410)})
              @@ (b :> {Page({i, j}, {}, NoUrl), Page({j}, {}, c), Status(404)})
              @@ (c :> {Page({j}, {}, NoUrl), Page({}, {}, a), File})
              @@ (d :> {Page({}, {}, NoUrl)})
              @@ (m :> {Listed({n, o})}) @@ (o :> {Listed({c})})
              @@ (n :> {Listed({b, c, d}), Listed({c}), [Listed({}) EXCEPT !.status = 404]})
CoreSite == (a :> Page({i}, {}, b)) @@ (b :> Page({i, j}, {}, NoUrl)) @@ (c :> Page({}, {}, a))
            @@ (d :> Page({}, {}, NoUrl)) @@ (m :> Listed({n, o})) @@ (o :> Listed({c})) @@ (n :> Listed({b, c, d}))
CoreScopes == {{a, b, c, d}, {a, c, d}}
CorePolicies == {{}, {c}}

\* A page that may come to send X-Robots-Tag: noindex, or to answer 410.
HeaderBodies == a :> {Page({i}, {}, NoUrl), [Page({i}, {}, NoUrl) EXCEPT !.xrobots = TRUE], Status(410)}
HeaderSite == a :> Page({i}, {}, NoUrl)
HeaderScopes == {{a}}
==============================================================================

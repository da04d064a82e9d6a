------------------------------ MODULE Crawler ------------------------------
(***************************************************************************)
(* sentinel_crawler.PersonaCrawler.crawl: the queue of one crawl at a      *)
(* time, in a browser whose pages fail to load, change, and send requests  *)
(* of their own at every await.  A URL is a record of its host, path,      *)
(* fragment, whether its scheme is http(s) and whether it looks            *)
(* destructive; what a page contains is chosen when it is loaded.  The     *)
(* notes of a surface map are left out.                                    *)
(***************************************************************************)
EXTENDS ScopeGuard, Naturals, FiniteSets

CONSTANTS
    Root,           \* root_url
    Urls,           \* the URLs that occur on the root's host, without fragments
    Hrefs,          \* lists of links a page may show
    FormLists,      \* lists of forms, <<method, url>>, a page may show
    Xhrs,           \* the xhr and fetch requests, <<method, url>>, pages may send
    IdSegments,     \* path segments that are numbers, UUIDs or opaque tokens
    MaxPages        \* max_pages (30 in the code)

Address == [host : Seq(STRING), path : Seq(STRING), fragment : STRING,
            web : BOOLEAN, destructive : BOOLEAN]
LinkUrls == UNION {ToSet(hrefs) : hrefs \in Hrefs}
Forms == UNION {ToSet(list) : list \in FormLists}

\* Mutant: fragments are kept.
WithFragment(url) == url

\* _extract_same_origin_links keeps the links that stay on the root's host,
\* without their fragments.
SameOrigin(url) == url.web /\ url.host = Root.host
DropFragment(url) == [url EXCEPT !.fragment = ""]

ASSUME CrawlerAssumption ==
    /\ Root \in Urls /\ MaxPages \in Nat
    /\ Urls \subseteq Address /\ LinkUrls \subseteq Address
    /\ Hrefs \subseteq Seq(LinkUrls) /\ FormLists \subseteq Seq(Forms)
    /\ \A url \in LinkUrls : SameOrigin(url) => [url EXCEPT !.fragment = ""] \in Urls

VARIABLES
    guard,          \* the ScopeGuard of the scan
    pc,             \* what the crawl does next
    queue,          \* queue
    visited,        \* visited
    page,           \* url: taken from the queue and being loaded
    forms,          \* forms of the loaded page the loop has not reached
    links,          \* links of the loaded page the loop has not reached
    endpoints,      \* surface.endpoints; seen_templates are their keys
    requested,      \* requested[u]: how often page.goto(u) was called
    observed        \* history: keys of everything the crawl saw

crawlVars == <<queue, visited, page, forms, links, endpoints, requested, observed>>

-----------------------------------------------------------------------------
NormalizePath(path) ==
    [i \in DOMAIN path |-> IF path[i] \in IdSegments THEN "{id}" ELSE path[i]]

Key(method, url) == <<method, NormalizePath(url.path)>>

Endpoint(method, url, source) ==
    [method |-> method, host |-> url.host, template |-> NormalizePath(url.path),
     source |-> source]

KeyOf(e) == <<e.method, e.template>>

\* Mutant: one endpoint per template, whatever its method.
RecordTemplates(known, e) ==
    IF \E k \in known : k.template = e.template THEN known ELSE known \cup {e}

\* _record_endpoint: the first endpoint to have a method and a template is
\* kept, whatever its host.
Record(known, e) ==
    IF \E k \in known : KeyOf(k) = KeyOf(e) THEN known ELSE known \cup {e}

\* The state a crawl starts in.
StartCrawl ==
    /\ queue' = <<Root>>
    /\ visited' = {}
    /\ page' = Root
    /\ forms' = <<>> /\ links' = <<>>
    /\ endpoints' = {}
    /\ requested' = [u \in Urls |-> 0]
    /\ observed' = {}

\* Mutant: the guards are asked when a link is queued, not when it is taken.
FollowUnchecked(url) == url \notin visited

\* Whether the URL taken from the queue is loaded.
Follow(url) ==
    /\ url \notin visited
    /\ Evaluate(guard, "GET", url) = "allowed"
    /\ ~IsSuspect("GET", url)

\* The head of the loop, up to the limiter.
Pop ==
    /\ pc = "crawl" /\ forms = <<>> /\ links = <<>>
    /\ queue # <<>> /\ Cardinality(visited) < MaxPages
    /\ queue' = Tail(queue)
    /\ IF Follow(Head(queue))
       THEN /\ pc' = "goto"
            /\ requested' = [requested EXCEPT ![Head(queue)] = @ + 1]
            /\ page' = Head(queue)
       ELSE UNCHANGED <<pc, requested, page>>
    /\ UNCHANGED <<visited, forms, links, endpoints, observed>>

\* page.goto raises or times out: the URL is neither visited nor queued.
LoadFails ==
    /\ pc = "goto"
    /\ pc' = "crawl"
    /\ UNCHANGED crawlVars

\* page.goto returns.
Load ==
    /\ pc = "goto"
    /\ pc' = "extract"
    /\ visited' = visited \cup {page}
    /\ endpoints' = Record(endpoints, Endpoint("GET", page, "link"))
    /\ observed' = observed \cup {Key("GET", page)}
    /\ UNCHANGED <<queue, page, forms, links, requested>>

\* The links and forms of the page are read.  When that raises, there are none.
Extract(hrefs, list) ==
    /\ pc = "extract"
    /\ pc' = "crawl"
    /\ links' = hrefs /\ forms' = list
    /\ UNCHANGED <<queue, visited, page, endpoints, requested, observed>>

\* _extract_forms keeps a form whose action stays on the root's host.
FormKept(form) == form[2].host = Root.host

\* One turn of the loop over the forms; no await, so nothing interleaves.
Form ==
    /\ pc = "crawl" /\ forms # <<>>
    /\ forms' = Tail(forms)
    /\ LET form == Head(forms) IN
       IF FormKept(form)
       THEN /\ endpoints' = Record(endpoints, Endpoint(form[1], form[2], "form"))
            /\ observed' = observed \cup {Key(form[1], form[2])}
       ELSE UNCHANGED <<endpoints, observed>>
    /\ UNCHANGED <<pc, queue, visited, page, links, requested>>

\* Mutant: a link that waits in the queue is queued again.
LinkAgain ==
    /\ pc = "crawl" /\ forms = <<>> /\ links # <<>>
    /\ links' = Tail(links)
    /\ LET link == DropFragment(Head(links)) IN
       IF ~SameOrigin(Head(links)) \/ link \in visited
       THEN UNCHANGED <<queue, endpoints, observed>>
       ELSE IF IsSuspect("GET", link)
       THEN /\ endpoints' = Record(endpoints, Endpoint("GET", link, "link"))
            /\ observed' = observed \cup {Key("GET", link)}
            /\ UNCHANGED queue
       ELSE queue' = Append(queue, link) /\ UNCHANGED <<endpoints, observed>>
    /\ UNCHANGED <<pc, visited, page, forms, requested>>

\* One turn of the loop over the links; no await here either.
Link ==
    /\ pc = "crawl" /\ forms = <<>> /\ links # <<>>
    /\ links' = Tail(links)
    /\ LET link == DropFragment(Head(links)) IN
       IF ~SameOrigin(Head(links)) \/ link \in visited \cup ToSet(queue)
       THEN UNCHANGED <<queue, endpoints, observed>>
       ELSE IF IsSuspect("GET", link)
       THEN /\ endpoints' = Record(endpoints, Endpoint("GET", link, "link"))
            /\ observed' = observed \cup {Key("GET", link)}
            /\ UNCHANGED queue
       ELSE queue' = Append(queue, link) /\ UNCHANGED <<endpoints, observed>>
    /\ UNCHANGED <<pc, visited, page, forms, requested>>

\* Mutant: the crawl goes on until the queue is empty.
ExhaustedQueue == pc = "crawl" /\ forms = <<>> /\ links = <<>> /\ queue = <<>>

\* The loop ends.
Exhausted ==
    /\ pc = "crawl" /\ forms = <<>> /\ links = <<>>
    /\ queue = <<>> \/ Cardinality(visited) >= MaxPages

\* _record_network_request, called while the crawl waits for the limiter, the
\* page or, its loop over, for the browser to close what it had opened.
NetworkRequest(method, url) ==
    /\ \/ pc \in {"goto", "extract"}
       \/ Exhausted /\ \E u \in Urls : requested[u] > 0
    /\ Evaluate(guard, method, url) = "allowed"
    /\ endpoints' = Record(endpoints, Endpoint(method, url, "network"))
    /\ observed' = observed \cup {Key(method, url)}
    /\ UNCHANGED <<pc, queue, visited, page, forms, links, requested>>
=============================================================================

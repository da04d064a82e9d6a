------------------------------ MODULE Surface ------------------------------
(***************************************************************************)
(* The crawling and mapping phases of one scan: _run_crawling crawls once  *)
(* as nobody and once as every available persona, and merge_surface_map    *)
(* then folds the surface maps into asset and endpoint rows, in one        *)
(* transaction.  Recon has committed its asset rows before.  No constraint *)
(* keeps a second delivery of the task from committing its own in between. *)
(***************************************************************************)
EXTENDS Crawler

CONSTANTS
    Personas,       \* personas available in this run
    Anonymous,
    RuleSets,       \* the scope rules the target may have
    Hosts           \* hosts that may have assets

\* Every host of an endpoint in scope may have an asset.
ASSUME SurfaceAssumption ==
    /\ Root.host \in Hosts
    /\ \A x \in Xhrs :
          (\E h \in {Root.host, <<"*">> \o Root.host} : HostMatches(x[2].host, h))
             => x[2].host \in Hosts

VARIABLES
    surfaces,       \* surfaces: the persona, endpoints and history of each crawl
    taken,          \* surface maps that merge_surface_map was called with
    rest,           \* endpoints of the map being merged that are still to do
    cached,         \* asset_cache: hosts looked up for this map
    assets,         \* assets[h]: committed asset rows of host h
    newAssets,      \* newAssets[h]: those of the open transaction
    rows,           \* committed endpoint rows
    newRows,        \* endpoint rows as the open transaction sees them
    doubled         \* a second delivery has committed recon rows

mergeVars == <<taken, rest, cached, newAssets, newRows>>
tables == <<assets, rows, doubled>>
vars == <<guard, pc, crawlVars, surfaces, mergeVars, tables>>

Identity == Personas \cup {Anonymous}
Crawled == {surfaces[i].persona : i \in DOMAIN surfaces}

\* Who is being crawled: nobody first, then the personas in any order.
Crawling(p) ==
    /\ p \notin Crawled
    /\ p # Anonymous => Anonymous \in Crawled

Init ==
    /\ \E rules \in RuleSets, ok \in BOOLEAN :
          guard = BuildScopeGuard([rootDomain |-> Root.host, verified |-> ok], rules)
    /\ pc = "crawl"
    /\ queue = <<Root>> /\ visited = {} /\ page = Root
    /\ forms = <<>> /\ links = <<>>
    /\ endpoints = {} /\ observed = {}
    /\ requested = [u \in Urls |-> 0]
    /\ surfaces = <<>> /\ taken = 0
    /\ rest = {} /\ cached = {} /\ rows = {} /\ newRows = {}
    /\ \E found \in SUBSET Hosts :
          assets = [h \in Hosts |-> IF h \in found THEN 1 ELSE 0]
    /\ newAssets = [h \in Hosts |-> 0]
    /\ doubled = FALSE

\* The steps of Crawler, in the crawl of some identity.
CrawlStep ==
    /\ \/ Pop \/ LoadFails \/ Load \/ Form \/ Link
       \/ \E hrefs \in Hrefs \cup {<<>>}, list \in FormLists \cup {<<>>} :
             Extract(hrefs, list)
    /\ UNCHANGED <<guard, surfaces, mergeVars, tables>>

Background ==
    /\ \E x \in Xhrs : NetworkRequest(x[1], x[2])
    /\ UNCHANGED <<guard, surfaces, mergeVars, tables>>

\* A crawl returns its surface map, and the next one starts or the mapping
\* phase does.
EndCrawl(p) ==
    /\ Exhausted /\ Crawling(p)
    /\ surfaces' = Append(surfaces,
          [persona |-> p, endpoints |-> endpoints, observed |-> observed])
    /\ StartCrawl
    /\ pc' = IF Crawled \cup {p} = Identity THEN "next_map" ELSE "crawl"
    /\ UNCHANGED <<guard, mergeVars, tables>>

\* merge_surface_map takes the next map.
NextMap ==
    /\ pc = "next_map" /\ taken < Len(surfaces)
    /\ taken' = taken + 1
    /\ rest' = surfaces[taken + 1].endpoints
    /\ cached' = {}
    /\ pc' = "merge"
    /\ UNCHANGED <<guard, crawlVars, surfaces, newAssets, newRows, tables>>

\* The persona of the map being merged.
Merging == surfaces[taken].persona

\* Mutant: the select misses the rows this transaction has added.
AssetRowsCommitted(h) == assets[h]

\* Asset rows of a host that the transaction's select returns.
AssetRows(h) == assets[h] + newAssets[h]

\* Mutant: an existing row keeps its personas.
MergeRowsFirstOnly(e, p) ==
    newRows \cup {r \in {[host |-> e.host, method |-> e.method, template |-> e.template,
                          by |-> {p}, js |-> e.source = "network"]} :
                    \A k \in newRows : <<k.host, KeyOf(k)>> # <<r.host, KeyOf(r)>>}

\* _merge_endpoint: the rows after endpoint e of persona p is merged.
MergeRows(e, p) ==
    LET same == {r \in newRows : r.host = e.host /\ KeyOf(r) = KeyOf(e)}
    IN  IF same = {}
        THEN newRows \cup {[host |-> e.host, method |-> e.method, template |-> e.template,
                            by |-> {p}, js |-> e.source = "network"]}
        ELSE (newRows \ same) \cup {[r EXCEPT !.by = @ \cup {p}] : r \in same}

\* One turn of merge_surface_map's loop.  Two rows for a host make
\* scalar_one_or_none raise, and the transaction is lost.
MergeEndpoint(e) ==
    /\ pc = "merge"
    /\ IF e.host \notin cached /\ AssetRows(e.host) > 1
       THEN /\ pc' = "raised"
            /\ newRows' = {} /\ newAssets' = [h \in Hosts |-> 0]
            /\ UNCHANGED <<rest, cached>>
       ELSE /\ newAssets' = IF e.host \notin cached /\ AssetRows(e.host) = 0
                            THEN [newAssets EXCEPT ![e.host] = @ + 1] ELSE newAssets
            /\ cached' = cached \cup {e.host}
            /\ newRows' = MergeRows(e, Merging)
            /\ rest' = rest \ {e}
            /\ UNCHANGED pc
    /\ UNCHANGED <<guard, crawlVars, surfaces, taken, tables>>

EndMap ==
    /\ pc = "merge" /\ rest = {}
    /\ pc' = "next_map"
    /\ UNCHANGED <<guard, crawlVars, surfaces, mergeVars, tables>>

\* The commit at the end of the mapping phase.
CommitMap ==
    /\ pc = "next_map" /\ taken = Len(surfaces)
    /\ pc' = "mapped"
    /\ rows' = newRows
    /\ assets' = [h \in Hosts |-> assets[h] + newAssets[h]]
    /\ UNCHANGED <<guard, crawlVars, surfaces, mergeVars, doubled>>

\* A second worker that was handed the same scan commits its recon rows.  Its
\* own mapping phase, which would add to the endpoint rows, is not here:
\* ScanRunner has it.
SecondRecon(found) ==
    /\ ~doubled /\ pc # "mapped"
    /\ doubled' = TRUE
    /\ assets' = [h \in Hosts |-> assets[h] + IF h \in found THEN 1 ELSE 0]
    /\ UNCHANGED <<guard, pc, crawlVars, surfaces, mergeVars, rows>>

\* The worker's own steps.
Work ==
    \/ CrawlStep
    \/ \E p \in Identity : EndCrawl(p)
    \/ NextMap
    \/ \E e \in rest : MergeEndpoint(e)
    \/ EndMap
    \/ CommitMap

Next ==
    \/ Work
    \/ Background
    \/ \E found \in SUBSET Hosts \ {{}} : SecondRecon(found)

Spec == Init /\ [][Next]_vars

\* Limiter, browser and database answer, each call within its timeout.
FairSpec == Spec /\ WF_vars(Work)

-----------------------------------------------------------------------------
(* Properties.                                                             *)

TypeOK ==
    /\ pc \in {"crawl", "goto", "extract", "next_map", "merge", "mapped", "raised"}
    /\ queue \in Seq(Urls) /\ links \in Seq(LinkUrls) /\ forms \in Seq(Forms)
    /\ visited \subseteq Urls /\ page \in Urls
    /\ requested \in [Urls -> Nat]
    /\ assets \in [Hosts -> Nat] /\ newAssets \in [Hosts -> Nat]

\* crawler.py: "discover, don't exercise", inside the scope.  Whatever pages
\* link to and however rules combine, the crawler navigates only to URLs of
\* the verified root's host that look harmless, that no path or method rule
\* excludes and that an include rule covers when there is one.
OnlyScopedPagesOpened ==
    \A u \in Urls : requested[u] > 0 =>
        /\ guard.verified /\ u.host = Root.host /\ ~u.destructive
        /\ \A r \in guard.rules :
              /\ r.effect = "exclude" => ~PathRuleMatches(r, u.path)
              /\ r.effect = "exclude" /\ r.kind = "method" => r.pattern # <<"GET">>
        /\ (\E r \in guard.rules : r.kind \in PathKinds /\ r.effect = "include") =>
              \E r \in guard.rules : r.effect = "include" /\ PathRuleMatches(r, u.path)

\* A link that never loads is queued again by later pages, but by each of
\* them once: the requests for a URL are bounded by the pages that loaded,
\* and those by max_pages.
RequestsBounded ==
    /\ Cardinality(visited) =< MaxPages
    /\ \A u \in Urls :
          requested[u] =< Cardinality(visited) + IF u = Root THEN 1 ELSE 0

\* The cross-persona diff is a query on the rows: once they are committed,
\* whatever a persona's crawl saw (pages, forms, destructive links, requests
\* of scripts) is in exactly one row that names the persona, by method and
\* template, and a row names no persona that did not see it; before that,
\* and when the merge fails, there are no rows.
DiffIsExact ==
    /\ pc # "mapped" => rows = {}
    /\ pc = "mapped" => \A i \in DOMAIN surfaces : LET s == surfaces[i] IN
          /\ \A k \in s.observed :
                Cardinality({r \in rows : KeyOf(r) = k /\ s.persona \in r.by}) = 1
          /\ \A r \in rows : s.persona \in r.by => KeyOf(r) \in s.observed

\* surface_adapter.py: an asset row per host, "reusing the same row Phase 1
\* recon already created".  Only a second delivery makes it two, and only
\* then can the merge fail.
OneAssetPerHost ==
    ~doubled => pc # "raised" /\ \A h \in Hosts : assets[h] =< 1

\* However many links fail and however often they are met again, the crawls
\* come to an end and the mapping phase ends.
CrawlsEnd == <>(pc \in {"mapped", "raised"})

\* models.py of scope_guard: "Exclude rules always win over include rules of
\* the same or broader kind": no page that an exclude rule names is opened,
\* whichever of the four kinds the rule has.
ExcludeRulesHold ==
    \A u \in Urls, r \in guard.rules :
        requested[u] > 0 /\ r.effect = "exclude" =>
            /\ ~PathRuleMatches(r, u.path)
            /\ r.kind = "method" => r.pattern # <<"GET">>
            /\ r.kind = "host" => ~HostMatches(u.host, r.pattern)
=============================================================================

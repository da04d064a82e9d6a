---------------------------- MODULE SurfaceProofs ----------------------------
(***************************************************************************)
(* Theorems about the crawls of a scan and the merge of their surface      *)
(* maps, for any site, any scope rules, any number of personas and pages.  *)
(***************************************************************************)
EXTENDS Surface, SequenceTheorems, FiniteSetTheorems, TLAPS

-----------------------------------------------------------------------------
(* The actions, one by one.                                                *)

\* Whatever every action preserves, a step preserves.
LEMMA StepCases ==
    ASSUME [Next]_vars
    PROVE  \/ Pop /\ UNCHANGED <<guard, surfaces, mergeVars, tables>>
           \/ LoadFails /\ UNCHANGED <<guard, surfaces, mergeVars, tables>>
           \/ Load /\ UNCHANGED <<guard, surfaces, mergeVars, tables>>
           \/ Form /\ UNCHANGED <<guard, surfaces, mergeVars, tables>>
           \/ Link /\ UNCHANGED <<guard, surfaces, mergeVars, tables>>
           \/ \E hrefs \in Hrefs \cup {<<>>}, list \in FormLists \cup {<<>>} :
                 Extract(hrefs, list) /\ UNCHANGED <<guard, surfaces, mergeVars, tables>>
           \/ \E x \in Xhrs :
                 NetworkRequest(x[1], x[2]) /\ UNCHANGED <<guard, surfaces, mergeVars, tables>>
           \/ \E p \in Identity : EndCrawl(p)
           \/ NextMap
           \/ \E e \in rest : MergeEndpoint(e)
           \/ EndMap
           \/ CommitMap
           \/ \E found \in SUBSET Hosts \ {{}} : SecondRecon(found)
           \/ UNCHANGED vars
  BY DEF Next, Work, CrawlStep, Background

-----------------------------------------------------------------------------
(* Types.                                                                  *)

\* A link that is kept is one of the URLs, on the root's host.
LEMMA KeptLink ==
    ASSUME NEW url \in LinkUrls, SameOrigin(url)
    PROVE  /\ DropFragment(url) \in Urls
           /\ DropFragment(url).host = Root.host
  BY CrawlerAssumption DEF SameOrigin, DropFragment, Address

\* What a crawl starts with.
LEMMA StartValues ==
    /\ <<Root>> \in Seq(Urls) /\ <<>> \in Seq(LinkUrls) /\ <<>> \in Seq(Forms)
    /\ Root \in Urls /\ [u \in Urls |-> 0] \in [Urls -> Nat]
  <1>1. Root \in Urls
    BY CrawlerAssumption
  <1>2. <<Root>> \in Seq(Urls)
    BY <1>1
  <1>3. <<>> \in Seq(LinkUrls) /\ <<>> \in Seq(Forms)
    OBVIOUS
  <1>4. [u \in Urls |-> 0] \in [Urls -> Nat]
    OBVIOUS
  <1> QED
    BY <1>1, <1>2, <1>3, <1>4

\* The first crawl starts well typed.
LEMMA SurfaceTypeInit == Init => TypeOK
  <1> SUFFICES ASSUME Init PROVE TypeOK
    OBVIOUS
  <1>1. assets \in [Hosts -> Nat] /\ newAssets \in [Hosts -> Nat]
    BY DEF Init
  <1> QED
    BY <1>1, StartValues DEF Init, TypeOK

\* Every step of the crawling and mapping phases keeps the types.
LEMMA SurfaceTypeStep == TypeOK /\ [Next]_vars => TypeOK'
  <1> SUFFICES ASSUME TypeOK, [Next]_vars PROVE TypeOK'
    OBVIOUS
  <1> USE DEF mergeVars, tables
  <1>1. ASSUME Pop, UNCHANGED <<guard, surfaces, mergeVars, tables>> PROVE TypeOK'
    <2>1. Head(queue) \in Urls /\ Tail(queue) \in Seq(Urls)
      BY <1>1 DEF Pop, TypeOK
    <2>2. requested' \in [Urls -> Nat] /\ page' \in Urls
      BY <1>1, <2>1 DEF Pop, TypeOK
    <2> QED
      BY <1>1, <2>1, <2>2 DEF Pop, TypeOK
  <1>2. ASSUME LoadFails, UNCHANGED <<guard, surfaces, mergeVars, tables>> PROVE TypeOK'
    BY <1>2 DEF LoadFails, crawlVars, TypeOK
  <1>3. ASSUME Load, UNCHANGED <<guard, surfaces, mergeVars, tables>> PROVE TypeOK'
    BY <1>3 DEF Load, TypeOK
  <1>4. ASSUME Form, UNCHANGED <<guard, surfaces, mergeVars, tables>> PROVE TypeOK'
    BY <1>4 DEF Form, TypeOK
  <1>5. ASSUME Link, UNCHANGED <<guard, surfaces, mergeVars, tables>> PROVE TypeOK'
    <2>1. Head(links) \in LinkUrls /\ Tail(links) \in Seq(LinkUrls)
      BY <1>5 DEF Link, TypeOK
    <2>2. queue' \in Seq(Urls)
      <3>1. CASE queue' = queue
        BY <3>1 DEF TypeOK
      <3>2. CASE queue' # queue
        <4>1. SameOrigin(Head(links)) /\ queue' = Append(queue, DropFragment(Head(links)))
          BY <1>5, <3>2 DEF Link
        <4> QED
          BY <2>1, <4>1, KeptLink DEF TypeOK
      <3> QED
        BY <3>1, <3>2
    <2> QED
      BY <1>5, <2>1, <2>2 DEF Link, TypeOK
  <1>6. ASSUME NEW hrefs \in Hrefs \cup {<<>>}, NEW list \in FormLists \cup {<<>>},
               Extract(hrefs, list), UNCHANGED <<guard, surfaces, mergeVars, tables>>
        PROVE  TypeOK'
    <2>1. hrefs \in Seq(LinkUrls) /\ list \in Seq(Forms)
      BY <1>6, CrawlerAssumption, StartValues
    <2> QED
      BY <1>6, <2>1 DEF Extract, TypeOK
  <1>7. ASSUME NEW x \in Xhrs, NetworkRequest(x[1], x[2]),
               UNCHANGED <<guard, surfaces, mergeVars, tables>>
        PROVE  TypeOK'
    BY <1>7 DEF NetworkRequest, TypeOK
  <1>8. ASSUME NEW p \in Identity, EndCrawl(p) PROVE TypeOK'
    BY <1>8, StartValues DEF EndCrawl, StartCrawl, TypeOK
  <1>9. ASSUME NextMap PROVE TypeOK'
    BY <1>9 DEF NextMap, crawlVars, TypeOK
  <1>10. ASSUME NEW e \in rest, MergeEndpoint(e) PROVE TypeOK'
    <2>1. newAssets' \in [Hosts -> Nat]
      BY <1>10 DEF MergeEndpoint, TypeOK
    <2> QED
      BY <1>10, <2>1 DEF MergeEndpoint, crawlVars, TypeOK
  <1>11. ASSUME EndMap PROVE TypeOK'
    BY <1>11 DEF EndMap, crawlVars, TypeOK
  <1>12. ASSUME CommitMap PROVE TypeOK'
    BY <1>12 DEF CommitMap, crawlVars, TypeOK
  <1>13. ASSUME NEW found, SecondRecon(found) PROVE TypeOK'
    BY <1>13 DEF SecondRecon, crawlVars, TypeOK
  <1>14. CASE UNCHANGED vars
    BY <1>14 DEF vars, crawlVars, TypeOK
  <1> QED
    BY <1>1, <1>2, <1>3, <1>4, <1>5, <1>6, <1>7, <1>8, <1>9, <1>10, <1>11, <1>12, <1>13, <1>14,
       StepCases

\* The crawl queues only URLs that _extract_same_origin_links has kept.
THEOREM SurfaceTyped == Spec => []TypeOK
  BY SurfaceTypeInit, SurfaceTypeStep, PTL DEF Spec

-----------------------------------------------------------------------------
(* The scope.  That a page is on the root's host itself, and not on one of *)
(* the subdomains the guard allows, is a fact about the queue.             *)

GuardOK ==
    \E rules \in RuleSets, ok \in BOOLEAN :
        guard = BuildScopeGuard([rootDomain |-> Root.host, verified |-> ok], rules)

\* What OnlyScopedPagesOpened says of a URL.
MayOpen(u) ==
    /\ guard.verified /\ u.host = Root.host /\ ~u.destructive
    /\ \A r \in guard.rules :
          /\ r.effect = "exclude" => ~PathRuleMatches(r, u.path)
          /\ r.effect = "exclude" /\ r.kind = "method" => r.pattern # <<"GET">>
    /\ (\E r \in guard.rules : r.kind \in PathKinds /\ r.effect = "include") =>
          \E r \in guard.rules : r.effect = "include" /\ PathRuleMatches(r, u.path)

QueueAtHome == \A i \in 1..Len(queue) : queue[i].host = Root.host

ScopeInv ==
    /\ GuardOK
    /\ QueueAtHome
    /\ \A u \in Urls : requested[u] > 0 => MayOpen(u)

\* evaluate() and check() of a GET: what the verdicts mean for the rules.
LEMMA FollowedMayOpen ==
    ASSUME NEW u, u.host = Root.host, Follow(u)
    PROVE  MayOpen(u)
  <1>1. Evaluate(guard, "GET", u) = "allowed" /\ ~u.destructive
    BY DEF Follow, IsSuspect
  <1> DEFINE Hit(effect) ==
        \E r \in Rules(guard, PathKinds, effect) : PathRuleMatches(r, u.path)
  <1>2. /\ guard.verified
        /\ ~Hit("exclude")
        /\ Rules(guard, PathKinds, "include") # {} => Hit("include")
        /\ ~\E r \in Rules(guard, {"method"}, "exclude") : Head(r.pattern) = "GET"
    BY <1>1 DEF Evaluate
  <1>3. ASSUME NEW r \in guard.rules, r.effect = "exclude" PROVE ~PathRuleMatches(r, u.path)
    <2>1. CASE r.kind \in PathKinds
      BY <1>2, <1>3, <2>1 DEF Rules
    <2>2. CASE r.kind \notin PathKinds
      BY <2>2 DEF PathRuleMatches, PathKinds
    <2> QED
      BY <2>1, <2>2
  <1>4. ASSUME NEW r \in guard.rules, r.effect = "exclude", r.kind = "method",
               r.pattern = <<"GET">>
        PROVE  FALSE
    <2>1. r \in Rules(guard, {"method"}, "exclude")
      BY <1>4 DEF Rules
    <2>2. Head(r.pattern) = "GET"
      BY <1>4
    <2> QED
      BY <1>2, <2>1, <2>2
  <1>5. ASSUME NEW r \in guard.rules, r.kind \in PathKinds, r.effect = "include"
        PROVE  \E q \in guard.rules : q.effect = "include" /\ PathRuleMatches(q, u.path)
    BY <1>2, <1>5 DEF Rules
  <1> QED
    BY <1>1, <1>2, <1>3, <1>4, <1>5 DEF MayOpen

\* Nothing has been requested when the first crawl starts.
LEMMA ScopeInit == Init => ScopeInv
  <1> SUFFICES ASSUME Init PROVE ScopeInv
    OBVIOUS
  <1>1. GuardOK
    BY DEF Init, GuardOK
  <1>2. QueueAtHome
    BY DEF Init, QueueAtHome
  <1>3. \A u \in Urls : ~(requested[u] > 0)
    BY DEF Init
  <1> QED
    BY <1>1, <1>2, <1>3 DEF ScopeInv

\* Every step keeps the queue on the root's host and the requests in scope.
LEMMA ScopeStep == TypeOK /\ ScopeInv /\ [Next]_vars => ScopeInv'
  <1> SUFFICES ASSUME TypeOK, ScopeInv, [Next]_vars PROVE ScopeInv'
    OBVIOUS
  <1>a. ASSUME UNCHANGED guard, NEW u, MayOpen(u) PROVE MayOpen(u)'
    BY <1>a DEF MayOpen
  <1>1. ASSUME Pop, UNCHANGED guard PROVE ScopeInv'
    <2>1. GuardOK'
      BY <1>1 DEF GuardOK, ScopeInv
    <2>2. queue # <<>> /\ queue' = Tail(queue) /\ queue \in Seq(Urls)
      BY <1>1 DEF Pop, TypeOK
    <2>3. QueueAtHome' /\ Head(queue).host = Root.host
      BY <2>2 DEF QueueAtHome, ScopeInv
    <2>4. ASSUME NEW u \in Urls, requested'[u] > 0 PROVE MayOpen(u)'
      <3>1. CASE requested[u] > 0
        BY <1>1, <1>a, <2>4, <3>1 DEF ScopeInv
      <3>2. CASE ~(requested[u] > 0)
        <4>1. u = Head(queue) /\ Follow(u)
          BY <1>1, <2>4, <3>2 DEF Pop, TypeOK
        <4> QED
          BY <1>1, <1>a, <2>3, <4>1, FollowedMayOpen
      <3> QED
        BY <3>1, <3>2
    <2> QED
      BY <2>1, <2>3, <2>4 DEF ScopeInv
  <1>2. ASSUME Link, UNCHANGED guard PROVE ScopeInv'
    <2>1. QueueAtHome'
      <3>1. CASE queue' = queue
        BY <3>1 DEF QueueAtHome, ScopeInv
      <3>2. CASE queue' # queue
        <4>1. SameOrigin(Head(links)) /\ queue' = Append(queue, DropFragment(Head(links)))
          BY <1>2, <3>2 DEF Link
        <4>2. Head(links) \in LinkUrls
          BY <1>2 DEF Link, TypeOK
        <4>3. DropFragment(Head(links)).host = Root.host
          BY <4>1, <4>2, KeptLink
        <4>4. queue \in Seq(Urls) /\ QueueAtHome
          BY DEF TypeOK, ScopeInv
        <4> QED
          BY <4>1, <4>3, <4>4 DEF QueueAtHome
      <3> QED
        BY <3>1, <3>2
    <2> QED
      BY <1>2, <1>a, <2>1 DEF Link, ScopeInv, GuardOK
  <1>3. ASSUME NEW p, EndCrawl(p) PROVE ScopeInv'
    <2>1. QueueAtHome' /\ GuardOK' /\ \A u \in Urls : ~(requested'[u] > 0)
      BY <1>3 DEF EndCrawl, StartCrawl, QueueAtHome, GuardOK, ScopeInv
    <2> QED
      BY <2>1 DEF ScopeInv
  <1>4. ASSUME UNCHANGED <<guard, queue, requested>> PROVE ScopeInv'
    BY <1>4, <1>a DEF ScopeInv, GuardOK, QueueAtHome
  <1>5. \/ UNCHANGED <<guard, queue, requested>>
        \/ Pop /\ UNCHANGED guard
        \/ Link /\ UNCHANGED guard
        \/ \E p \in Identity : EndCrawl(p)
    BY StepCases DEF LoadFails, Load, Form, Extract, NetworkRequest, NextMap, MergeEndpoint,
                     EndMap, CommitMap, SecondRecon, crawlVars, vars
  <1> QED
    BY <1>1, <1>2, <1>3, <1>4, <1>5

\* The crawler navigates only to URLs the guards let pass, on the root's own
\* host, whatever pages link to and however scope rules combine.
THEOREM CrawlStaysInScope == Spec => []OnlyScopedPagesOpened
  <1>1. Init => TypeOK /\ ScopeInv
    BY SurfaceTypeInit, ScopeInit
  <1>2. TypeOK /\ ScopeInv /\ [Next]_vars => (TypeOK /\ ScopeInv)'
    BY SurfaceTypeStep, ScopeStep
  <1>3. ScopeInv => OnlyScopedPagesOpened
    BY DEF ScopeInv, MayOpen, OnlyScopedPagesOpened
  <1> QED
    BY <1>1, <1>2, <1>3, PTL DEF Spec

-----------------------------------------------------------------------------
(* The number of requests.  A URL in the queue, and every URL while the    *)
(* links of a page are being queued, has a request left.                   *)

InQueue(u) == \E i \in 1..Len(queue) : queue[i] = u
Distinct == \A i, j \in 1..Len(queue) : queue[i] = queue[j] => i = j
PageOpen == pc = "extract" \/ forms # <<>> \/ links # <<>>
Quota(u) == Cardinality(visited) + IF u = Root THEN 1 ELSE 0

BoundInv ==
    /\ IsFiniteSet(visited) /\ Cardinality(visited) =< MaxPages
    /\ pc = "goto" =>
          /\ page \notin visited /\ Cardinality(visited) < MaxPages
          /\ forms = <<>> /\ links = <<>>
    /\ Distinct
    /\ \A u \in Urls : requested[u] =< Quota(u)
    /\ \A u \in Urls : InQueue(u) \/ PageOpen => requested[u] < Quota(u)

\* When the first crawl starts, the root has one request left.
LEMMA BoundInit == Init => BoundInv
  <1> SUFFICES ASSUME Init PROVE BoundInv
    OBVIOUS
  <1>1. MaxPages \in Nat
    BY CrawlerAssumption
  <1>2. IsFiniteSet(visited) /\ Cardinality(visited) = 0
    BY FS_EmptySet DEF Init
  <1>3. Distinct /\ \A u \in Urls : InQueue(u) => u = Root
    BY DEF Init, Distinct, InQueue
  <1>4. ~PageOpen
    BY DEF Init, PageOpen
  <1>5. \A u \in Urls : requested[u] =< Quota(u) /\ (u = Root => requested[u] < Quota(u))
    BY <1>2 DEF Init, Quota
  <1>6. pc # "goto"
    BY DEF Init
  <1> QED
    BY <1>1, <1>2, <1>3, <1>4, <1>5, <1>6 DEF BoundInv

\* Every step keeps the bound: a request uses up what its URL had left, and a
\* page that loads gives every URL one more.
LEMMA BoundStep == TypeOK /\ BoundInv /\ [Next]_vars => BoundInv'
  <1> SUFFICES ASSUME TypeOK, BoundInv, [Next]_vars PROVE BoundInv'
    OBVIOUS
  <1>a. /\ queue \in Seq(Urls) /\ requested \in [Urls -> Nat]
        /\ Cardinality(visited) \in Nat /\ \A u : Quota(u) \in Nat
    BY FS_CardinalityType DEF TypeOK, BoundInv, Quota
  <1>b. MaxPages \in Nat
    BY CrawlerAssumption
  <1>1. ASSUME Pop PROVE BoundInv'
    <2> SUFFICES ASSUME NEW url, url = Head(queue) PROVE BoundInv'
      OBVIOUS
    <2>1. /\ queue # <<>> /\ queue' = Tail(queue) /\ visited' = visited
          /\ Cardinality(visited) < MaxPages /\ forms' = <<>> /\ links' = <<>>
          /\ pc = "crawl" /\ url \in Urls
      BY <1>1, <1>a DEF Pop
    <2>2. /\ Distinct' /\ ~InQueue(url)'
          /\ \A u : InQueue(u)' => InQueue(u)
          /\ InQueue(url)
      <3>1. /\ Len(queue') = Len(queue) - 1 /\ Len(queue) \in Nat \ {0}
            /\ \A i \in 1..Len(queue') : queue'[i] = queue[i + 1]
            /\ queue[1] = url
        BY <1>a, <2>1
      <3>2. Distinct
        BY DEF BoundInv
      <3> QED
        BY <3>1, <3>2 DEF Distinct, InQueue
    <2>3. \A u : Quota(u)' = Quota(u)
      BY <2>1 DEF Quota
    <2>4. CASE Follow(url)
      <3>1. /\ pc' = "goto" /\ page' = url /\ url \notin visited
            /\ requested' = [requested EXCEPT ![url] = @ + 1]
        BY <1>1, <2>4 DEF Pop, Follow
      <3>2. ~PageOpen'
        BY <2>1, <3>1 DEF PageOpen
      <3>3. ASSUME NEW u \in Urls
            PROVE  requested'[u] =< Quota(u)' /\ (InQueue(u)' => requested'[u] < Quota(u)')
        <4>1. CASE u = url
          <5>1. requested[u] < Quota(u) /\ requested[u] \in Nat /\ Quota(u) \in Nat
            BY <1>a, <2>2, <3>3, <4>1 DEF BoundInv
          <5>2. requested'[u] = requested[u] + 1
            BY <1>a, <3>1, <3>3, <4>1
          <5> QED
            BY <2>2, <2>3, <4>1, <5>1, <5>2
        <4>2. CASE u # url
          BY <1>a, <2>2, <2>3, <3>1, <3>3, <4>2 DEF BoundInv
        <4> QED
          BY <4>1, <4>2
      <3> QED
        BY <2>1, <2>2, <3>1, <3>2, <3>3 DEF BoundInv
    <2>5. CASE ~Follow(url)
      <3>1. pc' = pc /\ requested' = requested /\ page' = page
        BY <1>1, <2>5 DEF Pop
      <3>2. ~PageOpen'
        BY <2>1, <3>1 DEF PageOpen
      <3> QED
        BY <2>1, <2>2, <2>3, <3>1, <3>2 DEF BoundInv
    <2> QED
      BY <2>4, <2>5
  <1>2. ASSUME LoadFails PROVE BoundInv'
    <2>1. /\ pc' = "crawl" /\ ~PageOpen' /\ Distinct'
          /\ \A u : (InQueue(u)' <=> InQueue(u)) /\ Quota(u)' = Quota(u)
      BY <1>2 DEF LoadFails, crawlVars, BoundInv, PageOpen, Distinct, InQueue, Quota
    <2> QED
      BY <1>2, <2>1 DEF LoadFails, crawlVars, BoundInv
  <1>3. ASSUME Load PROVE BoundInv'
    <2>1. /\ page \notin visited /\ Cardinality(visited) < MaxPages
          /\ visited' = visited \cup {page} /\ pc' = "extract" /\ IsFiniteSet(visited)
      BY <1>3 DEF Load, BoundInv
    <2>2. IsFiniteSet(visited') /\ Cardinality(visited') = Cardinality(visited) + 1
      BY <2>1, FS_AddElement
    <2>3. Distinct' /\ \A u \in Urls : requested'[u] < Quota(u)'
      BY <1>3, <1>a, <2>2 DEF Load, BoundInv, Distinct, Quota
    <2>4. Cardinality(visited') =< MaxPages
      BY <1>a, <1>b, <2>1, <2>2
    <2>5. ASSUME NEW u \in Urls PROVE requested'[u] =< Quota(u)'
      <3>1. requested'[u] \in Nat /\ Quota(u)' \in Nat
        BY <1>3, <1>a, <2>2, <2>5 DEF Load, Quota
      <3> QED
        BY <2>3, <2>5, <3>1
    <2> QED
      BY <2>1, <2>2, <2>3, <2>4, <2>5 DEF BoundInv
  <1>4. ASSUME Link PROVE BoundInv'
    <2>1. /\ PageOpen /\ pc = "crawl" /\ pc' = "crawl"
          /\ visited' = visited /\ requested' = requested
      BY <1>4 DEF Link, PageOpen
    <2>2. \A u \in Urls : requested[u] < Quota(u) /\ Quota(u)' = Quota(u)
      BY <2>1 DEF BoundInv, Quota
    <2>3. Distinct'
      <3>1. CASE queue' = queue
        BY <3>1 DEF Distinct, BoundInv
      <3>2. CASE queue' # queue
        <4>1. \E link : link \notin ToSet(queue) /\ queue' = Append(queue, link)
          BY <1>4, <3>2 DEF Link
        <4>2. PICK link : link \notin ToSet(queue) /\ queue' = Append(queue, link)
          BY <4>1
        <4>3. ~InQueue(link)
          BY <1>a, <4>2 DEF InQueue, ToSet
        <4> QED
          BY <1>a, <4>2, <4>3 DEF Distinct, InQueue, BoundInv
      <3> QED
        BY <3>1, <3>2
    <2> QED
      BY <1>a, <2>1, <2>2, <2>3 DEF BoundInv
  <1>5. ASSUME NEW hrefs, NEW list, Extract(hrefs, list) PROVE BoundInv'
    <2>1. /\ PageOpen /\ pc' = "crawl" /\ visited' = visited /\ requested' = requested
          /\ queue' = queue
      BY <1>5 DEF Extract, PageOpen
    <2>2. \A u \in Urls : requested[u] < Quota(u) /\ Quota(u)' = Quota(u)
      BY <2>1 DEF BoundInv, Quota
    <2>3. Distinct'
      BY <2>1 DEF BoundInv, Distinct
    <2> QED
      BY <1>a, <2>1, <2>2, <2>3 DEF BoundInv
  <1>6. ASSUME Form PROVE BoundInv'
    <2>1. /\ PageOpen /\ pc = "crawl" /\ pc' = "crawl" /\ visited' = visited
          /\ requested' = requested /\ queue' = queue
      BY <1>6 DEF Form, PageOpen
    <2>2. \A u \in Urls : requested[u] < Quota(u) /\ Quota(u)' = Quota(u)
      BY <2>1 DEF BoundInv, Quota
    <2>3. Distinct'
      BY <2>1 DEF BoundInv, Distinct
    <2> QED
      BY <1>a, <2>1, <2>2, <2>3 DEF BoundInv
  <1>7. ASSUME NEW p, EndCrawl(p) PROVE BoundInv'
    <2>1. /\ queue' = <<Root>> /\ visited' = {} /\ pc' # "goto" /\ pc' # "extract"
          /\ forms' = <<>> /\ links' = <<>> /\ requested' = [u \in Urls |-> 0]
      BY <1>7 DEF EndCrawl, StartCrawl
    <2>2. IsFiniteSet(visited') /\ Cardinality(visited') = 0
      BY <2>1, FS_EmptySet
    <2>3. Distinct' /\ ~PageOpen' /\ \A u \in Urls : InQueue(u)' => u = Root
      BY <2>1 DEF Distinct, InQueue, PageOpen
    <2>4. \A u \in Urls : requested'[u] =< Quota(u)' /\ (u = Root => requested'[u] < Quota(u)')
      BY <2>1, <2>2 DEF Quota
    <2> QED
      BY <1>b, <2>1, <2>2, <2>3, <2>4 DEF BoundInv
  \* What the crawls have done stays as it is, and pc does not go back to them.
  <1>8. ASSUME UNCHANGED <<queue, visited, requested, page, forms, links>>,
               pc' = pc \/ pc' \notin {"goto", "extract"}
        PROVE  BoundInv'
    <2>1. /\ Distinct' <=> Distinct
          /\ PageOpen' => PageOpen
          /\ \A u : (InQueue(u)' <=> InQueue(u)) /\ Quota(u)' = Quota(u)
      BY <1>8 DEF Distinct, PageOpen, InQueue, Quota
    <2> QED
      BY <1>8, <2>1 DEF BoundInv
  <1>9. \/ Pop \/ LoadFails \/ Load \/ Form \/ Link
        \/ \E hrefs, list : Extract(hrefs, list)
        \/ \E p : EndCrawl(p)
        \/ /\ UNCHANGED <<queue, visited, requested, page, forms, links>>
           /\ pc' = pc \/ pc' \notin {"goto", "extract"}
    BY StepCases DEF NetworkRequest, NextMap, MergeEndpoint, EndMap, CommitMap, SecondRecon,
                     crawlVars, vars
  <1> QED
    BY <1>1, <1>2, <1>3, <1>4, <1>5, <1>6, <1>7, <1>8, <1>9

\* The crawl loads at most max_pages pages, and asks for a URL at most once
\* for every page that loaded, however often its links fail.
THEOREM CrawlIsBounded == Spec => []RequestsBounded
  <1>1. Init => TypeOK /\ BoundInv
    BY SurfaceTypeInit, BoundInit
  <1>2. TypeOK /\ BoundInv /\ [Next]_vars => (TypeOK /\ BoundInv)'
    BY SurfaceTypeStep, BoundStep
  <1>3. BoundInv => RequestsBounded
    BY DEF BoundInv, Quota, RequestsBounded
  <1> QED
    BY <1>1, <1>2, <1>3, PTL DEF Spec

-----------------------------------------------------------------------------
(* The assets.  While nobody else commits, a host has its row in the table *)
(* or in the open transaction, not in both.                                *)

HostsKnown(known) == \A e \in known : e.host \in Hosts

\* The surface maps are a sequence, and taken counts along it.
MapsOK == surfaces \in Seq(ToSet(surfaces)) /\ taken \in 0..Len(surfaces)

AssetInv ==
    /\ MapsOK
    /\ page.host = Root.host
    /\ HostsKnown(endpoints) /\ HostsKnown(rest)
    /\ \A i \in 1..Len(surfaces) : HostsKnown(surfaces[i].endpoints)
    /\ ~doubled => /\ pc # "raised"
                   /\ \A h \in Hosts : assets[h] =< 1
                   /\ pc # "mapped" => \A h \in Hosts : assets[h] + newAssets[h] =< 1

\* What appending a surface map does to the sequence of maps.
LEMMA AppendSeq ==
    ASSUME NEW s, s \in Seq(ToSet(s)), NEW x
    PROVE  /\ Append(s, x) \in Seq(ToSet(Append(s, x)))
           /\ Len(Append(s, x)) = Len(s) + 1 /\ Append(s, x)[Len(s) + 1] = x
           /\ \A i \in 1..Len(s) : Append(s, x)[i] = s[i]
           /\ Len(s) \in Nat
  <1>1. /\ Append(s, x) \in Seq(ToSet(s) \cup {x}) /\ Len(s) \in Nat
        /\ Len(Append(s, x)) = Len(s) + 1 /\ Append(s, x)[Len(s) + 1] = x
        /\ \A i \in 1..Len(s) : Append(s, x)[i] = s[i]
    OBVIOUS
  <1>2. \A i \in 1..Len(Append(s, x)) : Append(s, x)[i] \in ToSet(Append(s, x))
    BY <1>1 DEF ToSet
  <1>3. Append(s, x) \in Seq(ToSet(Append(s, x)))
    BY <1>1, <1>2
  <1> QED
    BY <1>1, <1>3

\* The endpoints the crawl records are those of hosts that may have assets.
LEMMA RecordHosts ==
    ASSUME NEW known, HostsKnown(known), NEW e, e.host \in Hosts
    PROVE  HostsKnown(Record(known, e))
  BY DEF HostsKnown, Record

\* An endpoint has the host of its URL.
LEMMA EndpointHost ==
    ASSUME NEW method, NEW url, NEW source
    PROVE  Endpoint(method, url, source).host = url.host
  BY DEF Endpoint

\* A request of a script that evaluate() lets pass goes to a host in scope.
LEMMA AllowedHost ==
    ASSUME GuardOK, NEW x \in Xhrs, Evaluate(guard, x[1], x[2]) = "allowed"
    PROVE  x[2].host \in Hosts
  <1>1. guard.allowedHosts = {Root.host, <<"*">> \o Root.host}
    BY DEF GuardOK, BuildScopeGuard
  <1>2. \E h \in guard.allowedHosts : HostMatches(x[2].host, h)
    BY DEF Evaluate
  <1> QED
    BY <1>1, <1>2, SurfaceAssumption

\* Recon leaves one asset row per host at most.
LEMMA AssetInit == Init => AssetInv
  <1> SUFFICES ASSUME Init PROVE AssetInv
    OBVIOUS
  <1>1. MapsOK
    BY DEF Init, MapsOK, ToSet
  <1>2. \A h \in Hosts : assets[h] =< 1 /\ assets[h] + newAssets[h] =< 1
    BY DEF Init
  <1> QED
    BY <1>1, <1>2 DEF Init, AssetInv, HostsKnown

\* A step of a crawl leaves the tables alone.
LEMMA AssetCrawlStep ==
    ASSUME AssetInv, UNCHANGED <<surfaces, mergeVars, tables>>, page'.host = Root.host,
           HostsKnown(endpoints)', pc' \notin {"raised", "mapped"}, pc \notin {"raised", "mapped"}
    PROVE  AssetInv'
  BY DEF AssetInv, MapsOK, HostsKnown, mergeVars, tables

\* Every step keeps the asset rows apart.
LEMMA AssetStep == TypeOK /\ ScopeInv /\ AssetInv /\ [Next]_vars => AssetInv'
  <1> SUFFICES ASSUME TypeOK, ScopeInv, AssetInv, [Next]_vars PROVE AssetInv'
    OBVIOUS
  <1>a. Root.host \in Hosts
    BY SurfaceAssumption
  <1>1. ASSUME Pop, UNCHANGED <<guard, surfaces, mergeVars, tables>> PROVE AssetInv'
    <2>1. Head(queue).host = Root.host
      <3>1. queue \in Seq(Urls) /\ queue # <<>> /\ QueueAtHome
        BY <1>1 DEF Pop, TypeOK, ScopeInv
      <3>2. Head(queue) = queue[1] /\ 1 \in 1..Len(queue)
        BY <3>1
      <3> QED
        BY <3>1, <3>2 DEF QueueAtHome
    <2> QED
      BY <1>1, <2>1, AssetCrawlStep DEF Pop, AssetInv, HostsKnown
  <1>2. ASSUME LoadFails, UNCHANGED <<guard, surfaces, mergeVars, tables>> PROVE AssetInv'
    BY <1>2, AssetCrawlStep DEF LoadFails, crawlVars, AssetInv, HostsKnown
  <1>3. ASSUME Load, UNCHANGED <<guard, surfaces, mergeVars, tables>> PROVE AssetInv'
    <2>1. HostsKnown(Record(endpoints, Endpoint("GET", page, "link")))
      BY <1>a, RecordHosts, EndpointHost DEF AssetInv
    <2> QED
      BY <1>3, <2>1, AssetCrawlStep DEF Load, AssetInv, HostsKnown
  <1>4. ASSUME Form, UNCHANGED <<guard, surfaces, mergeVars, tables>> PROVE AssetInv'
    <2> DEFINE form == Head(forms)
    <2>1. form[2].host = Root.host =>
             HostsKnown(Record(endpoints, Endpoint(form[1], form[2], "form")))
      BY <1>a, RecordHosts, EndpointHost DEF AssetInv
    <2> QED
      BY <1>4, <2>1, AssetCrawlStep DEF Form, FormKept, AssetInv, HostsKnown
  <1>5. ASSUME Link, UNCHANGED <<guard, surfaces, mergeVars, tables>> PROVE AssetInv'
    <2> DEFINE link == DropFragment(Head(links))
    <2>1. Head(links) \in LinkUrls
      BY <1>5 DEF Link, TypeOK
    <2>2. SameOrigin(Head(links)) => HostsKnown(Record(endpoints, Endpoint("GET", link, "link")))
      BY <1>a, <2>1, KeptLink, RecordHosts, EndpointHost DEF AssetInv
    <2> QED
      BY <1>5, <2>2, AssetCrawlStep DEF Link, AssetInv, HostsKnown
  <1>6. ASSUME NEW hrefs, NEW list, Extract(hrefs, list),
               UNCHANGED <<guard, surfaces, mergeVars, tables>>
        PROVE  AssetInv'
    BY <1>6, AssetCrawlStep DEF Extract, AssetInv, HostsKnown
  <1>7. ASSUME NEW x \in Xhrs, NetworkRequest(x[1], x[2]),
               UNCHANGED <<guard, surfaces, mergeVars, tables>>
        PROVE  AssetInv'
    <2>1. x[2].host \in Hosts
      BY <1>7, AllowedHost DEF NetworkRequest, ScopeInv
    <2>2. HostsKnown(Record(endpoints, Endpoint(x[1], x[2], "network")))
      BY <2>1, RecordHosts, EndpointHost DEF AssetInv
    <2> QED
      BY <1>7, <2>2, AssetCrawlStep DEF NetworkRequest, Exhausted, AssetInv, HostsKnown
  <1>8. ASSUME NEW p \in Identity, EndCrawl(p) PROVE AssetInv'
    <2> DEFINE map == [persona |-> p, endpoints |-> endpoints, observed |-> observed]
    <2>1. surfaces' = Append(surfaces, map) /\ map.endpoints = endpoints
      BY <1>8 DEF EndCrawl
    <2> HIDE DEF map
    <2>2. surfaces \in Seq(ToSet(surfaces)) /\ taken \in 0..Len(surfaces)
      BY DEF AssetInv, MapsOK
    <2>3. MapsOK'
      BY <1>8, <2>1, <2>2, AppendSeq DEF MapsOK, EndCrawl, mergeVars
    <2>4. \A i \in 1..Len(surfaces') : HostsKnown(surfaces'[i].endpoints)
      BY <2>1, <2>2, AppendSeq DEF AssetInv
    <2>5. /\ pc = "crawl" /\ pc' \in {"next_map", "crawl"} /\ page' = Root /\ endpoints' = {}
          /\ UNCHANGED <<rest, newAssets, assets, doubled>>
      BY <1>8 DEF EndCrawl, StartCrawl, Exhausted, mergeVars, tables
    <2> QED
      BY <2>3, <2>4, <2>5 DEF AssetInv, HostsKnown
  <1>9. ASSUME NextMap PROVE AssetInv'
    <2>1. /\ taken \in 0..Len(surfaces) /\ taken < Len(surfaces) /\ Len(surfaces) \in Nat
          /\ taken' = taken + 1 /\ surfaces' = surfaces
      BY <1>9 DEF NextMap, AssetInv, MapsOK
    <2>2. MapsOK' /\ taken + 1 \in 1..Len(surfaces)
      BY <2>1 DEF AssetInv, MapsOK
    <2> QED
      BY <1>9, <2>1, <2>2 DEF NextMap, AssetInv, HostsKnown, crawlVars, tables
  <1>10. ASSUME NEW e \in rest, MergeEndpoint(e) PROVE AssetInv'
    <2>1. /\ pc = "merge" /\ e.host \in Hosts
          /\ UNCHANGED <<page, endpoints, surfaces, taken, assets, doubled>>
      BY <1>10 DEF MergeEndpoint, AssetInv, HostsKnown, crawlVars, tables
    <2>2. CASE e.host \notin cached /\ AssetRows(e.host) > 1
      <3>1. doubled
        BY <2>1, <2>2 DEF AssetInv, AssetRows, TypeOK
      <3>2. UNCHANGED rest
        BY <1>10, <2>2 DEF MergeEndpoint
      <3> QED
        BY <2>1, <3>1, <3>2 DEF AssetInv, MapsOK, HostsKnown
    <2>3. CASE ~(e.host \notin cached /\ AssetRows(e.host) > 1)
      <3>1. /\ rest' = rest \ {e} /\ pc' = pc
            /\ newAssets' = IF e.host \notin cached /\ AssetRows(e.host) = 0
                            THEN [newAssets EXCEPT ![e.host] = @ + 1] ELSE newAssets
        BY <1>10, <2>3 DEF MergeEndpoint
      <3>2. ASSUME ~doubled, NEW h \in Hosts PROVE assets[h] + newAssets'[h] =< 1
        <4>1. assets[h] \in Nat /\ newAssets[h] \in Nat /\ assets[h] + newAssets[h] =< 1
          BY <2>1, <3>2 DEF AssetInv, TypeOK
        <4>2. CASE newAssets'[h] = newAssets[h]
          BY <4>1, <4>2
        <4>3. CASE newAssets'[h] # newAssets[h]
          <5>1. h = e.host /\ AssetRows(h) = 0 /\ newAssets'[h] = newAssets[h] + 1
            BY <3>1, <3>2, <4>3 DEF TypeOK
          <5> QED
            BY <4>1, <5>1 DEF AssetRows
        <4> QED
          BY <4>2, <4>3
      <3> QED
        BY <2>1, <3>1, <3>2 DEF AssetInv, MapsOK, HostsKnown
    <2> QED
      BY <2>2, <2>3
  <1>11. ASSUME EndMap PROVE AssetInv'
    BY <1>11 DEF EndMap, AssetInv, MapsOK, HostsKnown, crawlVars, mergeVars, tables
  <1>12. ASSUME CommitMap PROVE AssetInv'
    <2>1. /\ pc = "next_map" /\ pc' = "mapped"
          /\ \A h \in Hosts : assets'[h] = assets[h] + newAssets[h]
          /\ UNCHANGED <<page, endpoints, surfaces, taken, rest, doubled>>
      BY <1>12 DEF CommitMap, crawlVars, mergeVars
    <2> QED
      BY <2>1 DEF AssetInv, MapsOK, HostsKnown
  <1>13. ASSUME NEW found, SecondRecon(found) PROVE AssetInv'
    <2>1. doubled' /\ UNCHANGED <<page, endpoints, surfaces, taken, rest>>
      BY <1>13 DEF SecondRecon, crawlVars, mergeVars
    <2> QED
      BY <2>1 DEF AssetInv, MapsOK, HostsKnown
  <1>14. CASE UNCHANGED vars
    BY <1>14 DEF vars, AssetInv, MapsOK, HostsKnown, crawlVars, mergeVars, tables
  <1> QED
    BY <1>1, <1>2, <1>3, <1>4, <1>5, <1>6, <1>7, <1>8, <1>9, <1>10, <1>11, <1>12, <1>13, <1>14,
       StepCases

\* merge_surface_map and _get_or_create_asset: without a second delivery of
\* the task a host has one asset row, and the merge does not fail on two.
THEOREM AssetsAreShared == Spec => []OneAssetPerHost
  <1>1. Init => TypeOK /\ ScopeInv /\ AssetInv
    BY SurfaceTypeInit, ScopeInit, AssetInit
  <1>2. TypeOK /\ ScopeInv /\ AssetInv /\ [Next]_vars => (TypeOK /\ ScopeInv /\ AssetInv)'
    BY SurfaceTypeStep, ScopeStep, AssetStep
  <1>3. AssetInv => OneAssetPerHost
    BY DEF AssetInv, OneAssetPerHost
  <1> QED
    BY <1>1, <1>2, <1>3, PTL DEF Spec

-----------------------------------------------------------------------------
(* The cross-persona diff.                                                 *)

\* A surface map: one endpoint for everything the crawl saw.
Exact(known, seen) ==
    /\ \A a, b \in known : KeyOf(a) = KeyOf(b) => a = b
    /\ \A k : k \in seen <=> \E e \in known : KeyOf(e) = k

\* Endpoint e belongs to row r.
Same(e, r) == e.host = r.host /\ KeyOf(e) = KeyOf(r)

\* The endpoints of map i that have been merged.
Merged(i) ==
    IF i < taken THEN surfaces[i].endpoints
    ELSE IF i = taken THEN surfaces[i].endpoints \ rest
    ELSE {}

IsRow(r) ==
    r = [host |-> r.host, method |-> r.method, template |-> r.template, by |-> r.by, js |-> r.js]

\* A row for every merged endpoint, no second one for the same host, method
\* and template, and a row names exactly the personas whose merged maps have
\* an endpoint for it.
RowsExact ==
    /\ \A r \in newRows : IsRow(r)
    /\ \A r, q \in newRows : Same(r, q) => r = q
    /\ \A i \in 1..Len(surfaces) : \A e \in Merged(i) : \E r \in newRows : Same(e, r)
    /\ \A i \in 1..Len(surfaces) : \A r \in newRows :
          surfaces[i].persona \in r.by <=> \E e \in Merged(i) : Same(e, r)

DiffInv ==
    /\ MapsOK
    /\ Exact(endpoints, observed)
    /\ \A i \in 1..Len(surfaces) : Exact(surfaces[i].endpoints, surfaces[i].observed)
    /\ \A i, j \in 1..Len(surfaces) : surfaces[i].persona = surfaces[j].persona => i = j
    /\ pc \in {"crawl", "goto", "extract"} => taken = 0 /\ newRows = {} /\ rest = {}
    /\ pc = "merge" => taken > 0 /\ rest \subseteq surfaces[taken].endpoints
    /\ pc \in {"next_map", "mapped"} => rest = {}
    /\ pc # "raised" => RowsExact
    /\ pc # "mapped" => rows = {}
    /\ pc = "mapped" => rows = newRows /\ taken = Len(surfaces)

\* _record_endpoint keeps the map exact.
LEMMA RecordExact ==
    ASSUME NEW known, NEW seen, Exact(known, seen), NEW e
    PROVE  Exact(Record(known, e), seen \cup {KeyOf(e)})
  BY DEF Exact, Record

\* An endpoint has the key of its method and URL.
LEMMA EndpointKey ==
    ASSUME NEW method, NEW url, NEW source
    PROVE  KeyOf(Endpoint(method, url, source)) = Key(method, url)
  BY DEF KeyOf, Endpoint, Key

\* Before the first crawl there is nothing to merge.
LEMMA DiffInit == Init => DiffInv
  <1> SUFFICES ASSUME Init PROVE DiffInv
    OBVIOUS
  <1>1. MapsOK /\ Len(surfaces) = 0
    BY DEF Init, MapsOK, ToSet
  <1>2. Exact(endpoints, observed)
    BY DEF Init, Exact
  <1>3. RowsExact
    BY <1>1 DEF Init, RowsExact
  <1> QED
    BY <1>1, <1>2, <1>3 DEF Init, DiffInv

\* A step of a crawl leaves the maps and the rows alone.
LEMMA DiffCrawlStep ==
    ASSUME DiffInv, UNCHANGED <<surfaces, mergeVars, tables>>, Exact(endpoints, observed)',
           pc \in {"crawl", "goto", "extract"}, pc' \in {"crawl", "goto", "extract"}
    PROVE  DiffInv'
  BY DEF DiffInv, MapsOK, RowsExact, Merged, mergeVars, tables

\* Adding to the personas of a row leaves its other columns alone.
LEMMA RowNaming ==
    ASSUME NEW r, IsRow(r), NEW p
    PROVE  LET new == [r EXCEPT !.by = @ \cup {p}]
           IN  /\ IsRow(new) /\ new.host = r.host /\ KeyOf(new) = KeyOf(r)
               /\ new.by = r.by \cup {p}
  <1>1. \E h, m, t, b, j : r = [host |-> h, method |-> m, template |-> t, by |-> b, js |-> j]
    BY DEF IsRow
  <1>2. PICK h, m, t, b, j : r = [host |-> h, method |-> m, template |-> t, by |-> b, js |-> j]
    BY <1>1
  <1>3. [r EXCEPT !.by = @ \cup {p}]
           = [host |-> h, method |-> m, template |-> t, by |-> b \cup {p}, js |-> j]
    BY <1>2
  <1> QED
    BY <1>2, <1>3 DEF IsRow, KeyOf

\* Rows after that are exact with endpoint e of map t merged as well.
ExactWith(after, t, e) ==
    /\ \A r \in after : IsRow(r)
    /\ \A r, q \in after : Same(r, q) => r = q
    /\ \A i \in 1..Len(surfaces) :
          \A f \in IF i = t THEN Merged(i) \cup {e} ELSE Merged(i) :
             \E r \in after : Same(f, r)
    /\ \A i \in 1..Len(surfaces) : \A r \in after :
          surfaces[i].persona \in r.by <=>
             \E f \in IF i = t THEN Merged(i) \cup {e} ELSE Merged(i) : Same(f, r)

\* _merge_endpoint keeps the rows exact.
LEMMA MergeExact ==
    ASSUME RowsExact, NEW t \in 1..Len(surfaces), NEW e,
           \A i, j \in 1..Len(surfaces) : surfaces[i].persona = surfaces[j].persona => i = j
    PROVE  ExactWith(MergeRows(e, surfaces[t].persona), t, e)
  <1> SUFFICES ASSUME NEW after, after = MergeRows(e, surfaces[t].persona)
               PROVE  ExactWith(after, t, e)
    OBVIOUS
  <1> DEFINE n == Len(surfaces)
             p == surfaces[t].persona
             NowMerged(i) == IF i = t THEN Merged(i) \cup {e} ELSE Merged(i)
             same == {r \in newRows : r.host = e.host /\ KeyOf(r) = KeyOf(e)}
  <1>1. /\ \A r \in newRows : IsRow(r)
        /\ \A r, q \in newRows : Same(r, q) => r = q
        /\ \A i \in 1..n : \A f \in Merged(i) : \E r \in newRows : Same(f, r)
        /\ \A i \in 1..n : \A r \in newRows :
              surfaces[i].persona \in r.by <=> \E f \in Merged(i) : Same(f, r)
    BY DEF RowsExact
  <1>2. CASE same = {}
    <2> DEFINE new == [host |-> e.host, method |-> e.method, template |-> e.template,
                       by |-> {p}, js |-> e.source = "network"]
    <2>1. after = newRows \cup {new}
      BY <1>2 DEF MergeRows
    <2>2. IsRow(new) /\ Same(e, new) /\ new.by = {p}
      BY DEF IsRow, Same, KeyOf
    <2>3. \A r \in newRows : ~Same(e, r)
      BY <1>2 DEF Same
    <2> HIDE DEF new, same
    <2>4. \A r \in newRows : ~Same(new, r) /\ ~Same(r, new)
      BY <2>2, <2>3 DEF Same
    <2>5. \A r \in after : IsRow(r)
      BY <1>1, <2>1, <2>2
    <2>6. \A r, q \in after : Same(r, q) => r = q
      BY <1>1, <2>1, <2>4
    <2>7. \A i \in 1..n : \A f \in NowMerged(i) : \E r \in after : Same(f, r)
      BY <1>1, <2>1, <2>2
    <2>8. ASSUME NEW i \in 1..n, NEW r \in newRows
          PROVE  surfaces[i].persona \in r.by <=> \E f \in NowMerged(i) : Same(f, r)
      BY <1>1, <2>3, <2>8
    <2>9. ASSUME NEW i \in 1..n
          PROVE  surfaces[i].persona \in new.by <=> \E f \in NowMerged(i) : Same(f, new)
      <3>1. CASE i = t
        BY <2>2, <3>1
      <3>2. CASE i # t
        <4>1. surfaces[i].persona \notin new.by
          BY <2>2, <2>9, <3>2
        <4>2. \A f \in Merged(i) : ~Same(f, new)
          BY <1>1, <2>2, <2>3, <2>9 DEF Same
        <4> QED
          BY <3>2, <4>1, <4>2
      <3> QED
        BY <3>1, <3>2
    <2>10. \A i \in 1..n : \A r \in after :
              surfaces[i].persona \in r.by <=> \E f \in NowMerged(i) : Same(f, r)
      BY <2>1, <2>8, <2>9
    <2> QED
      BY <2>5, <2>6, <2>7, <2>10 DEF ExactWith
  <1>3. CASE same # {}
    <2>1. PICK old \in newRows : old.host = e.host /\ KeyOf(old) = KeyOf(e)
      BY <1>3
    <2>2. same = {old} /\ Same(e, old)
      BY <1>1, <2>1 DEF Same
    <2> DEFINE new == [old EXCEPT !.by = @ \cup {p}]
    <2>3. after = (newRows \ {old}) \cup {new}
      BY <1>3, <2>2 DEF MergeRows
    <2>4. /\ IsRow(new) /\ new.host = old.host /\ KeyOf(new) = KeyOf(old)
          /\ new.by = old.by \cup {p}
      BY <1>1, <2>1, RowNaming
    <2> HIDE DEF new, same
    <2>5. \A f : (Same(f, new) <=> Same(f, old)) /\ (Same(new, f) <=> Same(old, f))
      BY <2>4 DEF Same
    <2>6. \A r \in after : IsRow(r)
      BY <1>1, <2>3, <2>4
    <2>7. \A r, q \in after : Same(r, q) => r = q
      BY <1>1, <2>1, <2>3, <2>5 DEF Same
    <2>8. \A i \in 1..n : \A f \in NowMerged(i) : \E r \in after : Same(f, r)
      BY <1>1, <2>2, <2>3, <2>5
    <2>9. ASSUME NEW i \in 1..n, NEW r \in newRows \ {old}
          PROVE  surfaces[i].persona \in r.by <=> \E f \in NowMerged(i) : Same(f, r)
      <3>1. ~Same(e, r)
        BY <1>1, <2>1, <2>2, <2>9 DEF Same
      <3> QED
        BY <1>1, <2>9, <3>1
    <2>10. ASSUME NEW i \in 1..n
           PROVE  surfaces[i].persona \in new.by <=> \E f \in NowMerged(i) : Same(f, new)
      <3>1. CASE i = t
        BY <2>2, <2>4, <2>5, <3>1
      <3>2. CASE i # t
        <4>1. surfaces[i].persona \in new.by <=> surfaces[i].persona \in old.by
          BY <2>4, <2>10, <3>2
        <4> QED
          BY <1>1, <2>1, <2>5, <2>10, <3>2, <4>1
      <3> QED
        BY <3>1, <3>2
    <2>11. \A i \in 1..n : \A r \in after :
              surfaces[i].persona \in r.by <=> \E f \in NowMerged(i) : Same(f, r)
      BY <2>3, <2>9, <2>10
    <2> QED
      BY <2>6, <2>7, <2>8, <2>11 DEF ExactWith
  <1> QED
    BY <1>2, <1>3

\* Merging one endpoint keeps the rows exact, or loses them all.
LEMMA DiffMergeStep ==
    ASSUME DiffInv, NEW e \in rest, MergeEndpoint(e)
    PROVE  DiffInv'
  <1>1. /\ pc = "merge" /\ UNCHANGED <<endpoints, observed, surfaces, taken, rows>>
        /\ MapsOK' /\ rows = {}
    BY DEF DiffInv, MapsOK, MergeEndpoint, crawlVars, tables
  <1>2. /\ taken > 0 /\ taken \in 1..Len(surfaces) /\ Len(surfaces) \in Nat
        /\ rest \subseteq surfaces[taken].endpoints /\ RowsExact
    BY <1>1 DEF DiffInv, MapsOK
  <1>3. CASE pc' = "raised"
    BY <1>1, <1>3 DEF DiffInv
  <1>4. CASE pc' # "raised"
    <2>1. /\ pc' = "merge" /\ rest' = rest \ {e}
          /\ newRows' = MergeRows(e, surfaces[taken].persona)
      BY <1>1, <1>4 DEF MergeEndpoint, Merging
    <2> SUFFICES ASSUME NEW n, n = Len(surfaces), NEW t, t = taken,
                        NEW after, after = MergeRows(e, surfaces[t].persona)
                 PROVE  DiffInv'
      OBVIOUS
    <2>2. \A i \in 1..n : Merged(i)' = IF i = t THEN Merged(i) \cup {e} ELSE Merged(i)
      BY <1>1, <1>2, <2>1 DEF Merged
    <2>3. ExactWith(after, t, e)
      <3>1. \A i, j \in 1..Len(surfaces) : surfaces[i].persona = surfaces[j].persona => i = j
        BY DEF DiffInv
      <3>2. t \in 1..Len(surfaces) /\ RowsExact
        BY <1>2
      <3> QED
        BY <3>1, <3>2, MergeExact
    <2>4. RowsExact'
      <3>1. newRows' = after /\ surfaces' = surfaces /\ Len(surfaces') = n
        BY <1>1, <2>1
      <3> QED
        BY <2>2, <2>3, <3>1 DEF RowsExact, ExactWith
    <2>5. pc' = "merge" => taken' > 0 /\ rest' \subseteq surfaces'[taken'].endpoints
      BY <1>1, <1>2, <2>1
    <2> QED
      BY <1>1, <2>1, <2>4, <2>5 DEF DiffInv
  <1> QED
    BY <1>3, <1>4

\* Every step keeps the surface maps and the rows exact.
LEMMA DiffStep == DiffInv /\ [Next]_vars => DiffInv'
  <1> SUFFICES ASSUME DiffInv, [Next]_vars PROVE DiffInv'
    OBVIOUS
  <1>a. ASSUME NEW method, NEW url, NEW source,
               endpoints' = Record(endpoints, Endpoint(method, url, source)),
               observed' = observed \cup {Key(method, url)}
        PROVE  Exact(endpoints, observed)'
    <2>1. Exact(endpoints, observed)
      BY DEF DiffInv
    <2>2. Exact(Record(endpoints, Endpoint(method, url, source)),
                observed \cup {KeyOf(Endpoint(method, url, source))})
      BY <2>1, RecordExact
    <2> QED
      BY <1>a, <2>2, EndpointKey
  <1>b. ASSUME UNCHANGED <<endpoints, observed>> PROVE Exact(endpoints, observed)'
    BY <1>b DEF DiffInv
  <1>1. ASSUME Pop, UNCHANGED <<guard, surfaces, mergeVars, tables>> PROVE DiffInv'
    BY <1>1, <1>b, DiffCrawlStep DEF Pop
  <1>2. ASSUME LoadFails, UNCHANGED <<guard, surfaces, mergeVars, tables>> PROVE DiffInv'
    BY <1>2, <1>b, DiffCrawlStep DEF LoadFails, crawlVars
  <1>3. ASSUME Load, UNCHANGED <<guard, surfaces, mergeVars, tables>> PROVE DiffInv'
    BY <1>3, <1>a, DiffCrawlStep DEF Load
  <1>4. ASSUME Form, UNCHANGED <<guard, surfaces, mergeVars, tables>> PROVE DiffInv'
    BY <1>4, <1>a, <1>b, DiffCrawlStep DEF Form
  <1>5. ASSUME Link, UNCHANGED <<guard, surfaces, mergeVars, tables>> PROVE DiffInv'
    BY <1>5, <1>a, <1>b, DiffCrawlStep DEF Link
  <1>6. ASSUME NEW hrefs, NEW list, Extract(hrefs, list),
               UNCHANGED <<guard, surfaces, mergeVars, tables>>
        PROVE  DiffInv'
    BY <1>6, <1>b, DiffCrawlStep DEF Extract
  <1>7. ASSUME NEW x, NetworkRequest(x[1], x[2]),
               UNCHANGED <<guard, surfaces, mergeVars, tables>>
        PROVE  DiffInv'
    BY <1>7, <1>a, DiffCrawlStep DEF NetworkRequest, Exhausted
  <1>8. ASSUME NEW p \in Identity, EndCrawl(p) PROVE DiffInv'
    <2> SUFFICES ASSUME NEW map, NEW n, n = Len(surfaces),
                        map = [persona |-> p, endpoints |-> endpoints, observed |-> observed]
                 PROVE  DiffInv'
      OBVIOUS
    <2>1. /\ surfaces' = Append(surfaces, map) /\ pc = "crawl" /\ pc' \in {"next_map", "crawl"}
          /\ endpoints' = {} /\ observed' = {}
          /\ UNCHANGED <<taken, rest, newRows, rows>>
          /\ p \notin Crawled
      BY <1>8 DEF EndCrawl, StartCrawl, Exhausted, Crawling, mergeVars, tables
    <2>2. taken = 0 /\ newRows = {} /\ rest = {} /\ rows = {}
      BY <2>1 DEF DiffInv
    <2>3. /\ surfaces' \in Seq(ToSet(surfaces')) /\ Len(surfaces') = n + 1 /\ n \in Nat
          /\ surfaces'[n + 1] = map /\ \A i \in 1..n : surfaces'[i] = surfaces[i]
      BY <2>1, AppendSeq DEF DiffInv, MapsOK
    <2>4. MapsOK'
      BY <2>1, <2>2, <2>3 DEF MapsOK
    <2>5. \A i \in 1..n : surfaces[i].persona # p
      BY <2>1, <2>3 DEF Crawled, DiffInv, MapsOK
    <2>6. \A i, j \in 1..Len(surfaces') : surfaces'[i].persona = surfaces'[j].persona => i = j
      <3>1. map.persona = p
        OBVIOUS
      <3>2. \A i, j \in 1..n : surfaces[i].persona = surfaces[j].persona => i = j
        BY DEF DiffInv
      <3>3. \A i \in 1..Len(surfaces') : i \in 1..n \/ i = n + 1
        BY <2>3
      <3> QED
        BY <2>3, <2>5, <3>1, <3>2, <3>3
    <2>7. ASSUME NEW i \in 1..Len(surfaces')
          PROVE  Exact(surfaces'[i].endpoints, surfaces'[i].observed)
      <3>1. CASE i \in 1..n
        BY <2>3, <3>1 DEF DiffInv
      <3>2. CASE i = n + 1
        BY <2>3, <3>2 DEF DiffInv
      <3> QED
        BY <2>3, <2>7, <3>1, <3>2
    <2>8. Exact(endpoints', observed')
      BY <2>1 DEF Exact
    <2>9. RowsExact'
      BY <2>1, <2>2, <2>3 DEF RowsExact, Merged
    <2> QED
      BY <2>1, <2>2, <2>4, <2>6, <2>7, <2>8, <2>9 DEF DiffInv
  <1>9. ASSUME NextMap PROVE DiffInv'
    <2>1. /\ taken < Len(surfaces) /\ taken' = taken + 1 /\ pc = "next_map" /\ pc' = "merge"
          /\ rest' = surfaces[taken + 1].endpoints
          /\ UNCHANGED <<endpoints, observed, surfaces, newRows, rows>>
      BY <1>9 DEF NextMap, crawlVars, tables
    <2>2. rest = {} /\ taken \in Nat /\ Len(surfaces) \in Nat /\ RowsExact /\ rows = {}
      BY <2>1 DEF DiffInv, MapsOK
    <2>3. MapsOK'
      BY <2>1, <2>2 DEF DiffInv, MapsOK
    <2>4. ASSUME NEW i \in 1..Len(surfaces) PROVE Merged(i)' = Merged(i)
      <3>1. CASE i < taken
        BY <2>1, <2>2, <3>1 DEF Merged
      <3>2. CASE i = taken
        BY <2>1, <2>2, <3>2 DEF Merged
      <3>3. CASE i = taken + 1
        <4>1. ~(i < taken) /\ i # taken /\ i = taken' /\ ~(i < taken')
          BY <2>1, <2>2, <3>3
        <4>2. surfaces'[i].endpoints \ rest' = {}
          BY <2>1, <3>3
        <4> QED
          BY <4>1, <4>2 DEF Merged
      <3>4. CASE i > taken + 1
        BY <2>1, <2>2, <3>4 DEF Merged
      <3> QED
        BY <2>2, <3>1, <3>2, <3>3, <3>4
    <2>5. RowsExact'
      BY <2>1, <2>2, <2>4 DEF RowsExact
    <2> QED
      BY <2>1, <2>2, <2>3, <2>5 DEF DiffInv
  <1>10. ASSUME NEW e \in rest, MergeEndpoint(e) PROVE DiffInv'
    BY <1>10, DiffMergeStep
  <1>11. ASSUME EndMap PROVE DiffInv'
    BY <1>11 DEF EndMap, DiffInv, MapsOK, RowsExact, Merged, crawlVars, mergeVars, tables
  <1>12. ASSUME CommitMap PROVE DiffInv'
    <2>1. /\ pc = "next_map" /\ pc' = "mapped" /\ taken = Len(surfaces) /\ rows' = newRows
          /\ UNCHANGED <<endpoints, observed, surfaces, taken, rest, newRows>>
      BY <1>12 DEF CommitMap, crawlVars, mergeVars
    <2> QED
      BY <2>1 DEF DiffInv, MapsOK, RowsExact, Merged
  <1>13. ASSUME NEW found, SecondRecon(found) PROVE DiffInv'
    BY <1>13 DEF SecondRecon, DiffInv, MapsOK, RowsExact, Merged, crawlVars, mergeVars
  <1>14. CASE UNCHANGED vars
    BY <1>14 DEF vars, DiffInv, MapsOK, RowsExact, Merged, crawlVars, mergeVars, tables
  <1> QED
    BY <1>1, <1>2, <1>3, <1>4, <1>5, <1>6, <1>7, <1>8, <1>9, <1>10, <1>11, <1>12, <1>13, <1>14,
       StepCases

\* merge_surface_map: the committed rows tell for every persona exactly what
\* its crawl saw, and a merge that fails or has not ended leaves none.
THEOREM DiffAlwaysExact == Spec => []DiffIsExact
  <1>1. DiffInv => DiffIsExact
    <2> SUFFICES ASSUME DiffInv, pc = "mapped", NEW i \in DOMAIN surfaces
                 PROVE  LET s == surfaces[i] IN
                        /\ \A k \in s.observed :
                              Cardinality({r \in rows : KeyOf(r) = k /\ s.persona \in r.by}) = 1
                        /\ \A r \in rows : s.persona \in r.by => KeyOf(r) \in s.observed
      BY DEF DiffIsExact, DiffInv
    <2> DEFINE s == surfaces[i]
    <2>1. i \in 1..Len(surfaces) /\ taken = Len(surfaces) /\ Len(surfaces) \in Nat
      BY DEF DiffInv, MapsOK
    <2>2. Merged(i) = s.endpoints
      <3>1. rest = {}
        BY DEF DiffInv
      <3>2. CASE i < taken
        BY <2>1, <3>2 DEF Merged
      <3>3. CASE i = taken
        BY <2>1, <3>1, <3>3 DEF Merged
      <3> QED
        BY <2>1, <3>2, <3>3
    <2>3. /\ \A r, q \in rows : Same(r, q) => r = q
          /\ \A e \in s.endpoints : \E r \in rows : Same(e, r)
          /\ \A r \in rows : s.persona \in r.by <=> \E e \in s.endpoints : Same(e, r)
      BY <2>1, <2>2 DEF DiffInv, RowsExact
    <2>4. Exact(s.endpoints, s.observed)
      BY <2>1 DEF DiffInv
    <2> HIDE DEF s
    <2>5. ASSUME NEW k \in s.observed
          PROVE  Cardinality({r \in rows : KeyOf(r) = k /\ s.persona \in r.by}) = 1
      <3>1. PICK e \in s.endpoints : KeyOf(e) = k
        BY <2>4, <2>5 DEF Exact
      <3>2. PICK r \in rows : Same(e, r)
        BY <2>3
      <3>3. ASSUME NEW q \in rows, KeyOf(q) = k, s.persona \in q.by PROVE q = r
        <4>1. PICK f \in s.endpoints : Same(f, q)
          BY <2>3, <3>3
        <4>2. f = e
          BY <2>4, <3>1, <3>3, <4>1 DEF Exact, Same
        <4> QED
          BY <2>3, <3>2, <4>1, <4>2 DEF Same
      <3>4. KeyOf(r) = k /\ s.persona \in r.by
        BY <2>3, <3>1, <3>2 DEF Same
      <3>5. {q \in rows : KeyOf(q) = k /\ s.persona \in q.by} = {r}
        BY <3>3, <3>4
      <3> QED
        BY <3>5, FS_Singleton
    <2>6. ASSUME NEW r \in rows, s.persona \in r.by PROVE KeyOf(r) \in s.observed
      BY <2>3, <2>4, <2>6 DEF Exact, Same
    <2> QED
      BY <2>5, <2>6 DEF s
  <1> QED
    BY <1>1, DiffInit, DiffStep, PTL DEF Spec
=============================================================================

# Verification of the scanner's core

TLA+ models of the scanning platform in `src/`: the orchestrator that drives a
scan, the state machine it asks, the rate limiter and the HTTP engine that
requests go through, the ownership gate, the scope guard, the crawler and the
merge of what it found, persona logins and their session oracle, recon, the
evidence store, the gate for confirmed findings and the token budget. TLC
checks the models on small instances; TLAPS proves their safety properties for
every value of the constants. `PROJECT.json` lists runs,
mutants, hazards, findings, theorems and the source lines of every definition.

## The system

| Component | State | Operations | Interacts with |
|---|---|---|---|
| Scan API (`apps/api/.../routers/scans.py`, `celery_client.py`) | row of `scans` | create, dispatch | broker, orchestrator |
| Target API (`routers/targets.py`, `services/ownership.py`) | `targets.ownership_*`, `authorization_accepted` | challenge, verify, accept, scope rules | the target's DNS and web server; gate of the orchestrator |
| Persona API (`routers/personas.py`) | `personas`, `credentials` | create | orchestrator reads the rows |
| Task wrapper (`tasks.py`, `celery_app.py`) | Celery message, retry count | receive, retry | broker, orchestrator |
| Orchestrator (`scan_runner.py`) | `scans`, `scan_phases`, `personas`, `endpoints`; a session's copies | five phases, a commit after each part | everything below |
| State machine (`sentinel_core/state_machine`) | `current`, `paused_from`, `fail_reason` | transition, resume | orchestrator |
| Rate limiter (`sentinel_core/rate_limiter`) | a Redis hash and a Redis key per target | acquire, report_backpressure, report_success | engine, crawler |
| HTTP engine (`sentinel_core/http_engine`) | one httpx client with its cookie jar | request | guards, limiter, recorder |
| Scope guard, destructive guard | rules | evaluate, check | engine, crawler |
| Transcript recorder and store | content-addressed files or objects | record, load | engine |
| Login replay, session oracle (`sentinel_auth`) | a browser context; the persona's oracle | establish | engine, orchestrator |
| Crawler, surface adapter | queue, visited set, surface map; `endpoints` | crawl, merge | limiter, guards, orchestrator |
| Recon | none | run_recon | external tools |
| Findings gate (`models/finding.py`) | `findings`, `verifications` | before_flush hook | nothing writes findings yet |
| LLM client, token budget | tokens used | complete_structured | nothing calls it yet |

What is hard: several workers and API processes share the database and Redis
without locks; the ORM session keeps objects across commits
(`expire_on_commit=False`) and writes only changed columns; the task is retried
after any exception and may be delivered twice; a worker may die between two
commits; the limiter does optimistic locking with wall clocks of several hosts;
one HTTP client serves all identities; a call of the engine makes several
attempts that time out, are throttled or succeed in any mixture.

What makes each part correct: the rows of a scan describe what happened, and
no outcome looks better than it was (orchestrator); every visible state is
reached by legal transitions (state machine); all workers together stay within
the target's rate (limiter); nothing leaves that the guards refuse, and the
caller is told what the evidence says (engine); only a proven domain is
scannable (ownership); only pages in scope are opened, crawls end, and the rows
say exactly which identity saw what (crawler, surface); an oracle tells members
from visitors and a persona's row tells one login (login); recon says what it
could not do (recon); an evidence id always loads its whole exchange (store);
CONFIRMED means verified (findings); spending is bounded (budget).

## Modules

- `ScanStates` has the enumerations and `CanTransition`, which
  `ScanStateMachine`, `ScanLifecycle` and `ScanRunner` share.
- `ScanStateMachine` is the class: `Transition` and `Resume` over `current`,
  `pausedFrom`, `failReason`, with the trail of states as a history variable.
- `ScanLifecycle` is the abstract specification of the scans row: created
  QUEUED, then one or two legal transitions per commit, then perhaps a pause.
- `ScanRunner` composes `create_scan`, `dispatch_scan`, the Celery wrapper and
  `run_scan`. A step is what happens between two points other processes can
  see: a query, a network phase, a commit. Committed columns are variables of
  their own (`scanState`, `rows`, `available`, ...); `mem[d]` holds the objects
  of delivery `d`'s session: the machine, the phase rows it loaded (`view`), the
  gate it read, the notes, the personas, login results and surfaces. A phase
  row is identified by the delivery that inserted it, so duplicates are visible.
  Faults are exceptions anywhere in `run_scan`, deaths of the worker and a
  broker that is down at dispatch. `Crash` loses the message: the code leaves
  Celery at early acknowledgement. `Redeliver` is the broker's visibility
  timeout, which concerns messages waiting unacknowledged in a prefetch buffer.
- `RateLimiter` has one step per reply of Redis. A token is 1000 units, the
  backpressure factor is in thousandths and a tick is the time in which the full
  rate earns a token, so refills are integers, rounded down as floats are not.
  `dirty[w]` is the broken WATCH. `Fast` and `Skew` put some workers on a host
  whose clock is ahead; the history variable `lead` counts how often such a
  worker wrote the bucket after one that was not ahead.
- `TokenBucket` is the abstract specification of a target's bucket: a call that
  gets through is one step that refills the bucket, by no more than the full
  rate allows for some reading of some host's clock, and takes a token if there
  is one. `RateLimiter` implements it (`TryAcquireIsAtomic`): WATCH, HMGET and
  EXEC of several workers are seen as if nobody interrupted them.
- `HttpEngine` has concurrent calls of `request()`, one step per await. The
  guards' verdicts are part of a call's arguments. httpx's jar is external: it
  keeps the cookies an answer sets and adds them to requests without a Cookie
  header.
- `TargetOwnership` has the three handlers that write the gate's columns. Each
  loads the row and commits later; `Flush` is the ORM writing a column only
  when the assigned value differs from the loaded one.
- `ScopeGuard` has the two guards as operators. A host is the sequence of its
  labels, a path the sequence of its segments; patterns are cut the same way.
- `Crawler` is the loop of one crawl: the queue, the visited set, failing pages,
  the two inner loops over the page's forms and links (`forms` and `links` hold
  what is left of them, filtered as `_extract_forms` and
  `_extract_same_origin_links` do), and the listener that records requests of
  scripts whenever the crawl awaits something, the closing of the browser context
  included. What a page shows is chosen each time it is loaded.
- `Surface` composes `ScopeGuard` and `Crawler` with `_run_crawling` (one crawl
  as nobody, then one per persona) and `merge_surface_map`, over the asset rows
  recon committed and those a second delivery's recon may add at any time. `taken`
  counts the maps the merge has begun. The second delivery's own merge is left to
  `ScanRunner`, where both deliveries take every step.
- `PersonaLogin` is AUTH_ESTABLISHING for one persona that two scans log in at
  once: the recipe's steps, the assertion, both probes, the oracle and the
  commit, or an exception before it, also one of another persona. A line is a text
  and its indentation; `PartOf` says which texts occur in which, because
  `SessionOracle` looks for its line anywhere in the body. The engine's jar appears as `tainted`: cookies of the first probe that
  the second one carries.
- `Recon` is `run_recon`, with tools that are missing, genuine or another program
  of the same name, one that fails or one that exits with 0.
- `TranscriptStore` has `record` and both stores' `put`; a death or a full disk
  in the middle of `write_bytes` leaves a short file, and opening a file that is
  there empties it. An exchange is told by the places that hold a secret and by its
  bodies that are not UTF-8; `Scrubbed` says what is redacted. Times come from a
  small set, so two documents may have the same.
- `FindingGate` is the `before_flush` hook over one finding and its verification,
  as sessions load, change, flush and commit them. The hook judges a finding at
  every flush; afterwards the finding is clean until it is changed again.
- `TokenBudget` is `complete_structured` by concurrent callers of one budget.
  `Outstanding` are the callers that have read the budget and not been charged.
- `Orm` has `Flush`, which `TargetOwnership`, `FindingGate` and `PersonaLogin`
  share.
- `MCScanRunner`, `MCSurface` and `MCPersonaLogin` are the instances for TLC, with
  their sites, rules and recipes. `MCComponents` checks the components
  that share no variable: `part` chooses the one that moves, and the others
  stay in one initial state, so the states add up instead of multiplying. The
  `*Proofs` modules hold the theorems. Operators commented "Mutant" are wrong
  versions of the definition after them, used to show that a property notices
  the bug.

## What the runs show

Passing:

| Run | Instance | Shows |
|---|---|---|
| `runner` | 1 delivery, 2 personas, 2 retries, up to 2 faults of any kind, weak fairness | `RowsTellTheState`, `MachineInSync`, `DegradedIsSaid`, `SurfaceMatchesLogins`, `FailedAuthMeansNobody`; the scan row implements `ScanLifecycle`; no note, ended phase, session, surface or `finished_at` is ever taken back (`RecordIsKept`); every delivery ends (`DeliveriesEnd`) and only a fault keeps a scan from an outcome (`ScanSettles`) |
| `runner_duplicates` | 2 deliveries, 1 persona, 1 retry | `OutcomeHasEvidence` survives duplicate delivery; a withdrawal of the verification before any worker has read the target keeps every delivery and retry from touching it (`WithdrawalHeeded`); and a persona with endpoints has a stored session even if the other delivery fails to log it in (`SurfaceHasSessions`) |
| `limiter` | 2 workers, one of them a tick ahead, burst 2, 2 ticks, 2 turns, 2 reports | no over-issue from the start (`NeverOverIssued`) or from any later moment (`WindowBounded`), but for the skew at each turn of a host that is ahead; the limiter implements `TokenBucket` (`TryAcquireIsAtomic`) |
| `surface` | 5 pages, up to 3 loaded per crawl, nobody and 1 persona, 4 sets of rules, 2 hosts, a second delivery, weak fairness | `OnlyScopedPagesOpened`, `RequestsBounded`, `DiffIsExact`, `OneAssetPerHost`; the phases end (`CrawlsEnd`) |
| `components`, part ownership | 2 requests at once, 2 tokens | a scannable target was proven; while requests do not overlap, verified speaks of the current token and agrees with its timestamp |
| part machine | up to 2 pauses | resume has a pause point, no stage is skipped or repeated |
| part engine | 2 calls, 2 retries, both services may fail | policy, evidence and backpressure for every mixture of attempts |
| part gate | 2 sessions, flushes and commits | a CONFIRMED finding is verified unless one of three gaps was used (`GateHasThreeGaps`) |
| part budget | 2 callers, limit 5, up to 2 tokens a call | what is spent and what the calls under way may still spend passes the limit by less than one call of each caller, in all (`SpendBounded`) and on the dearest tier (`DearTierBounded`); useless answers are charged (`AnswersAreCharged`) |
| part transcripts | 2 processes, 3 records of 3 kinds, 2 times, both stores | a returned id loads a whole document unless, in the local store, an exchange that looks the same was recorded at the same time; only such twins share an id (`ReceiptsLoad`) |
| part login | 2 scans, 4 recipes, 6 sites | the oracle in the row was made by one login from its own answers, and one from proper answers accepts the member's page, and a visitor's only where a visitor's line contains a member's or is indented (`OracleInRowTellsApart`); the row tells the last login (`RowTellsLastLogin`) |
| part recon | 3 hosts, cap 2, every mix of tools | a result that is not degraded comes from tools that run, and only named mishaps hide a host (`ReconHonest`) |

Violated, each against a sentence of the repository (quoted in `PROJECT.json`):

| Run | What happens |
|---|---|
| `runner_retry` | after the first commit a retry always meets `InvalidTransition`: the scan never settles |
| `limiter_skew` | hosts with different clocks exceed the rate, and by more than the skew |
| `limiter_compounds` | two simultaneous reports halve the rate once |
| `engine_paid` | retries are sent without a token |
| `engine_identities` | an anonymous request carries a persona's cookies |
| `surface_excludes` | a host rule excludes nothing |
| `login_oracle` | a line indented in both bodies becomes the oracle, which then accepts a visitor |

The models show more that has no run of its own:

- a scan whose dispatch failed stays QUEUED (`DispatchFails` leads to no other
  step of the scan);
- two deliveries insert the same phase twice (`rows` is indexed by the inserting
  delivery), and their recon rows make the other's merge raise
  (`OneAssetPerHost` excludes this case by `doubled`);
- the target is read once: a verification that is withdrawn while recon runs does
  not stop the authenticated phases (`SetScannable` after `LoadTarget`), which is
  why `WithdrawalHeeded` asks for it to be withdrawn before;
- a failing report or an undecodable answer ends a call without a transcript
  (`ServiceFails`, `Undecodable`);
- overlapping requests can leave a verified flag that speaks of an older token,
  or disagrees with `ownership_verified_at`, which is why `VerifiedMatchesToken`
  excludes them; the same holds for overlapping logins and `RowTellsLastLogin`;
- `ConfirmedIsVerified`, the invariant `finding.py` states, fails when a
  verification changes while its finding is clean (also after a flush that judged
  it), is deleted behind it, or the session decided on rows another one has
  changed (`Bypasses`). Bulk updates, which run no `before_flush`, are a further
  way and are not modelled. The hook's
  docstring says such a finding "is downgraded to PROBABLE"; the code raises;
- an oracle line that is part of a longer line of the visitor's page accepts the
  visitor ("my account" in "sign in to my account"), because `_matches` looks for
  it anywhere in the body (`Confusable`);
- a 429 on one of the two probes makes a status oracle that then accepts only
  200, or only 429 (`ProbedProperly` excludes it);
- `fail_reason` may be missing for FAILED (`Transition` with `NoReason`), where
  the architecture document says "always with a human-readable reason";
- endpoints are told apart by method and template, not by host, within one crawl
  (`Record`), so of two hosts with the same path one is dropped;
- the host cap may cut the root domain off (`Capped`); a genuine tool that fails
  or hangs, and a program of its name that exits with 0, leave `degraded` false
  (`mishaps`, `Working`);
- `put` skips a file that exists even when it is short, and `write_bytes` may empty
  one whose id was returned; only the timestamp in every document keeps others
  from meeting it (`HasTwin`; `SerialiseUndated` is the mutant that shows it);
- a credential in a URL, in an error text or in a body that is not UTF-8 is stored
  as it is (`Scrubbed`).

The properties of the `runner` run are those of a single delivery. With two
deliveries the rows of one scan mix, so `RowsTellTheState` and `MachineInSync`
are not expected to hold; `runner_duplicates` checks what remains true.

### Bounds

`MaxFaults = 2` lets a retry fail again; more faults repeat the same positions,
because after the first commit every retry stops at the same guard. Two
personas give every mixture of login results. Two deliveries are the least that
race; three would only repeat the race pairwise. One retry is enough for a
withdrawal to fall between two attempts. The run has a temporal property, so it
uses no symmetry. `limiter` has two workers and
a burst of two, so a race, a contention denial, an expired bucket, a refill and a
clock that goes back all happen within `MaxTime = 2`. `MaxTurns` stops new calls
of `acquire` once the hosts have taken that many turns. The theorems hold for
every value of these bounds. The engine
has the code's own limit of retries. Two pauses show that a second one starts
from a clean `paused_from`. In `surface` three loaded pages per crawl are enough
for a link that failed to be queued and requested again, for the page limit to
leave links behind and for two paths with one template; the rule sets are none, path
excludes against includes, a method include and a method exclude. The budget's
threshold (4 tokens of 5) can be met exactly and jumped over. Two sessions, processes or logins are
the least that race. The exchanges are one without secrets, one with a secret in
every place and a binary answer, and one that failed; with three records and two
times, some are twins and some are not. The sites differ in the status, in a
line, in nothing, in a line next to an indented common one, in a line that is
part of a longer one, and not even in their bytes. Recon's three hosts exceed its cap by one. Every action
and disjunct fires in the passing runs.

### Fairness

`FairSpec` assumes weak fairness of the API's commit and dispatch and of a
worker that holds a delivery. The code justifies it: every await of `run_scan`
is a query or a network call with its own timeout, and the logins and crawls
are bounded loops. Nothing is assumed of faults, redeliveries, the domain's
owner or new personas. A worker that died is not fair: its delivery is "lost".

`Surface`'s `FairSpec` assumes weak fairness of the worker's own steps (`Work`):
`page.goto` has a timeout, and limiter, browser and database answer. It does not
assume that any page loads, nor anything of scripts or the second delivery.

## What is proved

Every invariant of the passing runs, the action property and both refinements are
theorems, for every value of the constants that satisfies the named assumptions;
TLC evaluates those assumptions in the runs. An invariant is seldom inductive:
each proof rests on a strengthening that says what the other variables know at
each program counter.

`ScanRunnerProofs`, from `RunnerAssumption`:

- `TypeCorrect`, `OutcomesEvidenced` for any number of
  deliveries. `OutcomeHasEvidence` is not inductive: a worker about to pause
  the scan must be known to have crawled, which is `MapReady`.
- `WithdrawalAlwaysHeeded` for any number of deliveries, retries and faults: while
  the verification stays withdrawn, `Quiet` is kept by every step. It adds to
  `Untouched` that no worker is past the gate and that one in front of it has read
  it as closed.
- `SurfaceAlwaysHasSessions` for any number of deliveries. `LoginsStored` follows a
  worker from the personas it loads to the surfaces it merges; the argument is that
  the commit which leaves AUTH_ESTABLISHING stores the sessions of everybody the
  worker will crawl as, and that no other worker's commit removes one
  (`SessionsStay`): a failed login only writes the availability columns.
- `RowsAlwaysTell`, `MachineAlwaysInSync` and `RunnerImplementsLifecycle` under
  `SingleDelivery`. The inductive invariant adds `WorkerPosition`: the program
  counter of the worker determines the scan row and the row of the phase in
  progress, and the session's copies equal the committed values. The refinement
  needs it because `Transition` asks the machine in memory and writes the row.
- `DegradedAlwaysSaid`, `SurfaceAlwaysMatchesLogins` and
  `FailedAuthAlwaysMeansNobody` under `SingleDelivery`, from `LoginsInv`. It adds
  to the above what the persona and endpoint tables say before the logins
  (nothing: `TablesOK`), what the session's objects hold at each point
  (`LoginsAt`), and that after the logins the stored sessions are those of
  `LoggedIn`. The personas may start out unavailable, as an earlier scan left them:
  with one delivery the session holds the column as it is, which is why the
  ORM's skipped writes of `is_available` do no harm.
- `RecordAlwaysKept` under `SingleDelivery`, from the same invariant: the worker's
  notes are the committed ones when it assigns the whole list, the phase it
  writes is absent or running, and the persona and endpoint tables are untouched
  until it writes them. With two deliveries it is false: the one that writes
  last drops the notes the other added after it had loaded the scan.

`RateLimiterProofs`, from `LimiterAssumption` (in particular that a bucket does
not expire before an empty one would be full again: 3600 s against 2 s):

- `LimiterTypeCorrect`, `LimiterNeverOverIssues` and `LimiterWindowBounded`, on any
  clocks and for any number of workers. `Accounted` charges every granted token to
  the time up to the bucket's timestamp and to what earlier turns of a fast host
  earned (`Credit`), for the stored bucket and for each one a worker may still
  write with an unbroken WATCH. The timestamp of a fast host already shows one
  skew, which is why a turn counts only when the writer before was not ahead.
  `WindowAccounted` keeps the same account from the moment a window opens, when
  one EXEC may be under way, hence the extra token;
- `LimiterExactOnAgreeingClocks`: without skew the first bound is the burst and the
  elapsed time alone;
- `LimiterIsAtomic`: the limiter implements `TokenBucket`, on any clocks. `Linked`
  says that a worker whose WATCH is unbroken holds a refill of the bucket as it
  still is, at a reading that is no further behind it than the skew; EXEC is then
  the abstract `Acquire`, and every other step of a worker is a stutter.

`HttpEngineProofs`, from `EngineAssumption`: `EngineTyped`,
`EngineSendsWithinPolicy`, `EngineOutcomeHasEvidence` and
`EngineHearsBackpressure`, for any number of concurrent calls and any number of
retries. `EngineInv` has three parts per call: the loop counter is the number of
requests that left and the loop is not entered with its attempts used up
(`LoopOK`); every throttled answer but the one in hand has been reported
(`ThrottleOK`); the recorder is reached with a response or an error (`AnswerOK`).
The upper bounds in the type invariant follow from `LoopOK`.

`SurfaceProofs`, from `CrawlerAssumption` (the start page and the same-origin links,
without their fragments, are among the URLs) and `SurfaceAssumption` (a host whose
requests the guard lets pass may have an asset), for any site, rules, personas
and page limit:

- `SurfaceTyped`;
- `CrawlStaysInScope`: the guard alone allows subdomains, so `ScopeInv` adds that
  everything in the queue is on the root's own host;
- `CrawlIsBounded`: the requests for a URL are at most its quota. `BoundInv` adds
  that the queue has no duplicates, and that a URL in the queue, and every URL
  while a loaded page is being processed, is strictly below its quota: a load
  raises all quotas by one, and a URL can be queued once before the next;
- `AssetsAreShared`: until the commit, the rows of a host in the table and in the
  open transaction are at most one together (`AssetInv`);
- `DiffAlwaysExact`: every surface map has exactly one endpoint for each key its
  crawl saw (`Exact`), and the rows of the open transaction name exactly the
  personas whose merged endpoints belong to them (`RowsExact`), whatever the
  order of the endpoints.

`PhaseProofs`, from `MaxPausesAssumption` and `LoginAssumption` (an answer is a
status and a list of lines, and no login is called "none"):

- `PauseAlwaysKnown`, `NoStageEverSkipped`, for any number of pauses.
  `PathInv` says that the pipeline states on the trail are the first `m` of the
  path and that the machine is in the `m`-th, paused in it, or ended;
- `ReconAlwaysHonest`, for any hosts and cap: `ReconInv` follows the tools, the
  root domain and the probes through the steps of `run_recon`;
- `RowAlwaysTellsLastLogin` and `OracleInRowAlwaysTellsApart`, for any number of
  scans, any pages and any relation of occurrence between texts. `LoginInv` says what a login has assigned at each point and that,
  without overlap, it still holds the row as it is, so that the ORM writes every
  column that matters, and that the row's oracle is that of a login that ended
  (`OracleMade`, with overlaps too). That it tells the two pages apart is then a
  lemma about `_find_unique_line`, up to `Confusable`; `login_oracle` shows what
  happens on a page that is.

`EvidenceProofs`: `GateHolds`, for any number of sessions (`GateInv`: a session that
no other has overtaken knows the rows as they are, and its clean finding, with a
verification that did not change meanwhile, is as loaded or as the hook judged it),
and `ReceiptsAlwaysLoad`, for any number of processes, exchanges and times
(`StoreInv`: a busy process has an exchange of its own, and what is in the store
was put there for an exchange past the check, so a process that finds its file, or
empties it, has met a twin).

`TokenBudgetProofs`, from `BudgetAssumption` (finitely many callers, a call costs at
most `MaxUsage`): `SpendIsBounded` and `DearTierIsBounded`. Both are inductive with
the types: what the calls under way may still spend is part of the bound, and a
call that is let through finds the budget below the limit and itself idle.
`AnswersAlwaysCharged` equates the provider's bill with the budget and the answers
about to be charged (`ChargeInv`). What is pending is the number of pairs of a
caller and one of its tokens, so that the theorems about the cardinality of
disjoint finite sets take the place of an induction over the callers.

`TargetOwnershipProofs`, from `OwnershipAssumption`, for any number of requests:

- `OwnershipTypeCorrect` and `ScannableAlwaysProven`. `ProofsOnRecord` is the
  inductive invariant: every verified flag, loaded or committed, and every
  positive result a request still holds is backed by a token that was seen;
- `VerifiedAlwaysMatches`, as long as no two requests overlapped: the one under way
  holds the row as it is, and its positive result is about that row's token
  (`SerialOK`).

Only model-checked:

- the liveness properties (`ScanSettles`, `DeliveriesEnd`, `CrawlsEnd`), which are
  out of the prover's reach;
- the seven violations, which are about particular behaviours.

## Not modelled

- Placeholder packages (checks, verifier, triage, reporter, nuclei,
  integrations) have no code yet.
- Read-only, organization and health routes, and the inserts of targets and scope
  rules: one statement each. Migrations and table declarations have no behaviour
  beyond the columns the models use.
- Envelope encryption: calls of a cryptographic library, no state.
- What a browser page sends by itself. The guards see the URLs the crawler opens;
  requests and redirects of a loaded page pass neither guard nor limiter.
- `detect_wildcard_dns` and the notes of recon and of surface maps;
  `tlsx_wrapper.probe_tls`, which nothing calls.
- Secrets passed to the scrubber by name: no caller does.
- Row locks of the database between a flush and its commit, and bulk updates past
  the ORM's unit of work. The note about a missing oracle is added when the logins
  end, in one step; before the commit nobody sees it.
- The licence script and other build tooling.

Regular expressions of scope rules are literals, and rules cut paths at
segments. The time to live of the backpressure factor is left open: it may end
at any moment in runs with `report_success`.

## State of the plan

All components with behaviour of their own are modelled, and all safety
properties of the passing runs are proved. What is left:

1. More of what several deliveries of one scan guarantee. `OutcomeHasEvidence`,
   `WithdrawalHeeded` and `SurfaceHasSessions` hold for any number of them;
   the theorems about the phase rows and the notes are those of one.
2. The scanner's later milestones (checks, verifier, triage, reporter), when they
   have code; `FindingGate` and `TokenBudget` then get the callers they now lack.

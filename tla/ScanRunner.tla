----------------------------- MODULE ScanRunner -----------------------------
(***************************************************************************)
(* One scan, from POST /targets/{id}/scans to the end of the orchestrator: *)
(* the API handler that creates the row and dispatches the Celery task,    *)
(* the task's deliveries and retries, and run_scan, which walks the        *)
(* pipeline and commits after every phase.  A step of a delivery is what   *)
(* run_scan does between two awaits another process can be seen across: a  *)
(* query, a network phase, a commit.  The scans, scan_phases, personas and *)
(* endpoints tables hold what is committed; mem holds the session's        *)
(* objects, which expire_on_commit=False never refreshes.                  *)
(***************************************************************************)
EXTENDS ScanStates, Integers, FiniteSets

CONSTANTS
    Deliveries,     \* deliveries of the task message; more than one when the
                    \* broker's visibility timeout redelivers an unacked one
    Personas,       \* personas with a login recipe the target may get
    Anonymous,      \* the anonymous crawler identity
    NoRow,          \* no phase row of that name in scan.phases
    MaxRetries,     \* max_retries of the Celery task (3 in the code)
    Faults,         \* the kinds of fault that may happen
    MaxFaults       \* how many faults a behaviour may contain

FaultKind == {"raise", "crash", "drop"}

ASSUME RunnerAssumption ==
    /\ Deliveries # {}
    /\ Anonymous \notin Personas
    /\ NoRow \notin Deliveries
    /\ MaxRetries \in Nat
    /\ MaxFaults \in Nat
    /\ Faults \subseteq FaultKind

VARIABLES
    \* committed rows
    scanState,      \* scans.state (NoState: no row yet)
    pausedFrom,     \* scans.paused_from
    reasons,        \* scans.degraded_reasons, by kind; is_degraded = (# {})
    finishedAt,     \* scans.finished_at is set
    rows,           \* rows[d][n]: status of the phase row n inserted by d
    available,      \* personas.is_available
    session,        \* the session and session_oracle this scan stored
    endpoints,      \* identities whose crawled surface is in endpoints
    scannable,      \* targets.ownership_verified /\ authorization_accepted
    recipes,        \* personas of the target that exist, with a recipe
    kmsKey,         \* settings.kms_master_key is configured
    \* processes
    api,            \* program counter of create_scan
    pc,             \* pc[d]: program counter of delivery d
    retries,        \* retries[d]: request.retries of delivery d
    mem,            \* mem[d]: the session's objects in delivery d
    faults          \* how many faults have happened

dbVars == <<scanState, pausedFrom, reasons, finishedAt, rows, available, session, endpoints>>
envVars == <<scannable, recipes, kmsKey>>
taskVars == <<pc, retries, mem>>
vars == <<dbVars, envVars, taskVars, api, faults>>

ReasonKind == {"recon", "no_kms", "no_personas", "no_oracle", "not_implemented"}

LoginOutcome == {"untried", "unavailable", "no_oracle", "oracle"}

Identity == Personas \cup {Anonymous}

\* What the program counter says the delivery does next.
RunPC ==
    {"loadScan", "loadPhases", "loadTarget", "scope", "reconStart", "recon",
     "setup", "authStart", "auth", "crawlStart", "crawl", "mapStart", "map"}
EndPC == {"done", "failed", "lost"}
TaskPC == {"unsent", "queued"} \cup RunPC \cup EndPC

NoMem ==
    [machine |-> NoState,
     view    |-> [n \in PhaseName |-> NoRow],
     gate    |-> FALSE,
     notes   |-> {},
     configured |-> {},
     loaded  |-> [p \in Personas |-> TRUE],
     login   |-> [p \in Personas |-> "untried"],
     surfaces |-> {}]

Init ==
    /\ scanState = NoState
    /\ pausedFrom = NoState
    /\ reasons = {}
    /\ finishedAt = FALSE
    /\ rows = [d \in Deliveries |-> [n \in PhaseName |-> "absent"]]
    /\ available \in [Personas -> BOOLEAN]
    /\ session = [p \in Personas |-> "untried"]
    /\ endpoints = {}
    /\ scannable \in BOOLEAN
    /\ recipes \in SUBSET Personas
    /\ kmsKey \in BOOLEAN
    /\ api = "idle"
    /\ pc = [d \in Deliveries |-> "unsent"]
    /\ retries = [d \in Deliveries |-> 0]
    /\ mem = [d \in Deliveries |-> NoMem]
    /\ faults = 0

-----------------------------------------------------------------------------
(* The API process: create_scan, and the target's owner.                   *)

\* create_scan reads the target and answers 403 unless it is scannable.
CreateCheck ==
    /\ api = "idle"
    /\ api' = IF scannable THEN "checked" ELSE "refused"
    /\ UNCHANGED <<dbVars, envVars, taskVars, faults>>

\* create_scan inserts the QUEUED row.
CreateCommit ==
    /\ api = "checked"
    /\ scanState' = "queued"
    /\ api' = "committed"
    /\ UNCHANGED <<pausedFrom, reasons, finishedAt, rows, available, session,
                   endpoints, envVars, taskVars, faults>>

\* dispatch_scan hands the task to the broker.
Dispatch(d) ==
    /\ api = "committed"
    /\ api' = "dispatched"
    /\ pc' = [pc EXCEPT ![d] = "queued"]
    /\ UNCHANGED <<dbVars, envVars, retries, mem, faults>>

\* dispatch_scan swallows a broker failure; nothing dispatches again.
DispatchFails ==
    /\ api = "committed"
    /\ "drop" \in Faults
    /\ faults < MaxFaults
    /\ api' = "undispatched"
    /\ faults' = faults + 1
    /\ UNCHANGED <<dbVars, envVars, taskVars>>

\* create_ownership_challenge withdraws the verification at any moment;
\* run_ownership_verification and accept_authorization grant it again.
SetScannable(b) ==
    /\ scannable # b
    /\ scannable' = b
    /\ UNCHANGED <<dbVars, recipes, kmsKey, taskVars, api, faults>>

\* create_persona commits a persona with a login recipe.
CreatePersona(p) ==
    /\ p \notin recipes
    /\ recipes' = recipes \cup {p}
    /\ UNCHANGED <<dbVars, scannable, kmsKey, taskVars, api, faults>>

-----------------------------------------------------------------------------
(* The broker and the task wrapper, run_scan_task.                         *)

\* A worker starts the task; with early acknowledgement the message is gone.
Receive(d) ==
    /\ pc[d] = "queued"
    /\ pc' = [pc EXCEPT ![d] = "loadScan"]
    /\ UNCHANGED <<dbVars, envVars, retries, mem, api, faults>>

\* A message that waits unacknowledged in a worker's prefetch buffer longer
\* than the visibility timeout is restored and delivered once more.
Redeliver(d, e) ==
    /\ pc[d] = "queued"
    /\ pc[e] = "unsent"
    /\ pc' = [pc EXCEPT ![e] = "queued"]
    /\ retries' = [retries EXCEPT ![e] = retries[d]]
    /\ UNCHANGED <<dbVars, envVars, mem, api, faults>>

\* Mutant: the retry limit is off by one.
RetryOneTooMany(d) ==
    /\ IF retries[d] =< MaxRetries
       THEN /\ pc' = [pc EXCEPT ![d] = "queued"]
            /\ retries' = [retries EXCEPT ![d] = @ + 1]
       ELSE /\ pc' = [pc EXCEPT ![d] = "failed"]
            /\ UNCHANGED retries
    /\ mem' = [mem EXCEPT ![d] = NoMem]
    /\ UNCHANGED <<dbVars, envVars, api>>

\* Mutant: max_retries=None.
RetryForever(d) ==
    /\ pc' = [pc EXCEPT ![d] = "queued"]
    /\ mem' = [mem EXCEPT ![d] = NoMem]
    /\ UNCHANGED <<dbVars, envVars, retries, api>>

\* An exception leaves run_scan: the session is closed without a commit and
\* the wrapper asks for a retry, up to max_retries of them.
Retry(d) ==
    /\ IF retries[d] < MaxRetries
       THEN /\ pc' = [pc EXCEPT ![d] = "queued"]
            /\ retries' = [retries EXCEPT ![d] = @ + 1]
       ELSE /\ pc' = [pc EXCEPT ![d] = "failed"]
            /\ UNCHANGED retries
    /\ mem' = [mem EXCEPT ![d] = NoMem]
    /\ UNCHANGED <<dbVars, envVars, api>>

\* A database, Redis, browser or decryption error anywhere in run_scan.
Raise(d) ==
    /\ pc[d] \in RunPC
    /\ "raise" \in Faults
    /\ faults < MaxFaults
    /\ faults' = faults + 1
    /\ Retry(d)

\* The worker process dies: the acknowledged message is lost with it.
Crash(d) ==
    /\ pc[d] \in RunPC
    /\ "crash" \in Faults
    /\ faults < MaxFaults
    /\ faults' = faults + 1
    /\ pc' = [pc EXCEPT ![d] = "lost"]
    /\ mem' = [mem EXCEPT ![d] = NoMem]
    /\ UNCHANGED <<dbVars, envVars, retries, api>>

-----------------------------------------------------------------------------
(* run_scan.                                                               *)

Goto(d, to) ==
    /\ pc' = [pc EXCEPT ![d] = to]
    /\ UNCHANGED <<retries, envVars, api, faults>>

\* _get_or_create_phase: the row of that name among the scan's phases as the
\* session loaded them, or one this delivery inserts.
RowOf(d, n) == IF mem[d].view[n] = NoRow THEN d ELSE mem[d].view[n]

\* _finish_phase, as the next commit makes it visible.
SetPhase(d, n, status) == rows' = [rows EXCEPT ![RowOf(d, n)][n] = status]

\* _start_phase.  A row another delivery inserted may have been RUNNING when
\* it was loaded; the ORM then sees no change and leaves the column alone.
StartPhase(d, n) ==
    \/ SetPhase(d, n, "running")
    \/ mem[d].view[n] \notin {NoRow, d} /\ UNCHANGED rows

\* Mutant: the notes are written to the row but not kept on the object.
RememberDropsNotes(d, n, t, added) ==
    mem' = [mem EXCEPT ![d].view[n] = RowOf(d, n), ![d].machine = t]

\* The session's objects after a commit that touched phase n, moved the
\* machine to t and appended the notes in added.
Remember(d, n, t, added) ==
    mem' = [mem EXCEPT ![d].view[n] = RowOf(d, n),
                       ![d].machine = t,
                       ![d].notes = @ \cup added]

\* Mutant: degraded_reasons = [note] instead of [*degraded_reasons, note].
WriteNotesOverwrites(d, added) ==
    reasons' = IF added = {} THEN reasons ELSE added

\* degraded_reasons is assigned as a whole list, and only when a note is new.
WriteNotes(d, added) ==
    reasons' = IF added = {} THEN reasons ELSE mem[d].notes \cup added

\* Mutant: the state is assigned without asking the machine.
TransitionUnchecked(d, t) == scanState' = t

\* machine.transition(t), and the scan row that the next commit writes.
Transition(d, t) ==
    /\ CanTransition(mem[d].machine, t)
    /\ scanState' = t

\* The state each part of run_scan moves the machine to.
Goal == [scope |-> "scope_verifying", reconStart |-> "recon",
         authStart |-> "auth_establishing", auth |-> "crawling",
         crawl |-> "surface_mapping", map |-> "paused"]

\* machine.transition raises InvalidTransition, and the task retries.
InvalidTransition(d) ==
    /\ pc[d] \in DOMAIN Goal
    /\ ~CanTransition(mem[d].machine, Goal[pc[d]])
    /\ Retry(d)
    /\ UNCHANGED faults

LoadScan(d) ==
    /\ pc[d] = "loadScan"
    /\ mem' = [mem EXCEPT ![d].machine = scanState, ![d].notes = reasons]
    /\ Goto(d, "loadPhases")
    /\ UNCHANGED dbVars

\* selectinload(Scan.phases) is a second query, in READ COMMITTED.
LoadPhases(d) ==
    /\ pc[d] = "loadPhases"
    /\ \E v \in [PhaseName -> Deliveries \cup {NoRow}] :
          /\ \A n \in PhaseName :
                LET inserted == {e \in Deliveries : rows[e][n] # "absent"}
                IN  v[n] \in IF inserted = {} THEN {NoRow} ELSE inserted
          /\ mem' = [mem EXCEPT ![d].view = v]
    /\ Goto(d, "loadTarget")
    /\ UNCHANGED dbVars

\* The target is read once; is_scannable is never looked at again.
LoadTarget(d) ==
    /\ pc[d] = "loadTarget"
    /\ mem' = [mem EXCEPT ![d].gate = scannable]
    /\ Goto(d, "scope")
    /\ UNCHANGED dbVars

\* The gate fails: two transitions and the FAILED phase in one commit.
ScopeBlocked(d) ==
    /\ pc[d] = "scope"
    /\ ~mem[d].gate
    /\ CanTransition(mem[d].machine, "scope_verifying")
    /\ scanState' = "blocked_unverified"
    /\ SetPhase(d, "scope_verifying", "failed")
    /\ finishedAt' = TRUE
    /\ mem' = [mem EXCEPT ![d] = NoMem]
    /\ Goto(d, "done")
    /\ UNCHANGED <<pausedFrom, reasons, available, session, endpoints>>

\* Mutant: the gate is not looked at.
ScopePassedUngated(d) ==
    /\ pc[d] = "scope"
    /\ Transition(d, "scope_verifying")
    /\ SetPhase(d, "scope_verifying", "completed")
    /\ Remember(d, "scope_verifying", "scope_verifying", {})
    /\ Goto(d, "reconStart")
    /\ UNCHANGED <<pausedFrom, reasons, finishedAt, available, session, endpoints>>

ScopePassed(d) ==
    /\ pc[d] = "scope"
    /\ mem[d].gate
    /\ Transition(d, "scope_verifying")
    /\ SetPhase(d, "scope_verifying", "completed")
    /\ Remember(d, "scope_verifying", "scope_verifying", {})
    /\ Goto(d, "reconStart")
    /\ UNCHANGED <<pausedFrom, reasons, finishedAt, available, session, endpoints>>

ReconStart(d) ==
    /\ pc[d] = "reconStart"
    /\ Transition(d, "recon")
    /\ StartPhase(d, "recon")
    /\ Remember(d, "recon", "recon", {})
    /\ Goto(d, "recon")
    /\ UNCHANGED <<pausedFrom, reasons, finishedAt, available, session, endpoints>>

\* run_recon returns; a missing tool leaves at least one note.
ReconFinish(d, added) ==
    /\ pc[d] = "recon"
    /\ SetPhase(d, "recon", "completed")
    /\ WriteNotes(d, added)
    /\ Remember(d, "recon", mem[d].machine, added)
    /\ Goto(d, "setup")
    /\ UNCHANGED <<scanState, pausedFrom, finishedAt, available, session, endpoints>>

\* The personas are read once, with the rest of the shared setup.
Setup(d) ==
    /\ pc[d] = "setup"
    /\ mem' = [mem EXCEPT ![d].configured = recipes, ![d].loaded = available]
    /\ Goto(d, "authStart")
    /\ UNCHANGED dbVars

AuthStart(d) ==
    /\ pc[d] = "authStart"
    /\ Transition(d, "auth_establishing")
    /\ StartPhase(d, "auth_establishing")
    /\ Remember(d, "auth_establishing", "auth_establishing", {})
    /\ Goto(d, "auth")
    /\ UNCHANGED <<pausedFrom, reasons, finishedAt, available, session, endpoints>>

\* A persona logs in, with or without a session oracle, or it does not.  No
\* commit happens inside the loop.
Login(d, p, outcome) ==
    /\ pc[d] = "auth"
    /\ kmsKey
    /\ p \in mem[d].configured
    /\ mem[d].login[p] = "untried"
    /\ mem' = [mem EXCEPT ![d].login[p] = outcome]
    /\ Goto(d, "auth")
    /\ UNCHANGED dbVars

LoggedIn(d) == {p \in Personas : mem[d].login[p] \in {"no_oracle", "oracle"}}

AllTried(d) ==
    /\ kmsKey
    /\ mem[d].configured # {}
    /\ \A p \in mem[d].configured : mem[d].login[p] # "untried"

\* Mutant: a login that fails forgets the session stored before.
WritePersonasForgets(d) ==
    /\ available' = [p \in Personas |->
          IF mem[d].login[p] = "untried" THEN available[p] ELSE p \in LoggedIn(d)]
    /\ session' = [p \in Personas |->
          IF p \in LoggedIn(d) THEN mem[d].login[p] ELSE "untried"]

\* The persona columns the loop assigned.  The ORM writes is_available only
\* where it differs from the value the session loaded.
WritePersonas(d) ==
    /\ available' = [p \in Personas |->
          IF mem[d].login[p] = "untried" \/ (p \in LoggedIn(d) <=> mem[d].loaded[p])
          THEN available[p] ELSE p \in LoggedIn(d)]
    /\ session' = [p \in Personas |->
          IF p \in LoggedIn(d) THEN mem[d].login[p] ELSE session[p]]

\* The end of AUTH_ESTABLISHING that moves on to CRAWLING.
AuthFinish(d, status, added) ==
    /\ Transition(d, "crawling")
    /\ SetPhase(d, "auth_establishing", status)
    /\ WriteNotes(d, added)
    /\ Remember(d, "auth_establishing", "crawling", added)
    /\ Goto(d, "crawlStart")
    /\ UNCHANGED <<pausedFrom, finishedAt, endpoints>>

AuthSkipped(d) ==
    /\ pc[d] = "auth"
    /\ ~kmsKey
    /\ mem[d].configured # {}
    /\ AuthFinish(d, "skipped", {"no_kms"})
    /\ UNCHANGED <<available, session>>

AuthAnonymous(d) ==
    /\ pc[d] = "auth"
    /\ mem[d].configured = {}
    /\ AuthFinish(d, "completed", {"no_personas"})
    /\ UNCHANGED <<available, session>>

AuthEstablished(d) ==
    /\ pc[d] = "auth"
    /\ AllTried(d)
    /\ LoggedIn(d) # {}
    /\ AuthFinish(d, "completed",
          IF \E p \in Personas : mem[d].login[p] = "no_oracle" THEN {"no_oracle"} ELSE {})
    /\ WritePersonas(d)

\* Mutant: one failed login is enough for FAILED_AUTH.
AuthFailedOnAny(d) ==
    /\ pc[d] = "auth"
    /\ AllTried(d)
    /\ \E p \in mem[d].configured : mem[d].login[p] = "unavailable"
    /\ Transition(d, "failed_auth")
    /\ SetPhase(d, "auth_establishing", "failed")
    /\ finishedAt' = TRUE
    /\ WritePersonas(d)
    /\ mem' = [mem EXCEPT ![d] = NoMem]
    /\ Goto(d, "done")
    /\ UNCHANGED <<pausedFrom, reasons, endpoints>>

\* Every configured persona failed to log in: FAILED_AUTH.
AuthFailed(d) ==
    /\ pc[d] = "auth"
    /\ AllTried(d)
    /\ LoggedIn(d) = {}
    /\ Transition(d, "failed_auth")
    /\ SetPhase(d, "auth_establishing", "failed")
    /\ finishedAt' = TRUE
    /\ WritePersonas(d)
    /\ mem' = [mem EXCEPT ![d] = NoMem]
    /\ Goto(d, "done")
    /\ UNCHANGED <<pausedFrom, reasons, endpoints>>

\* The scan row already says CRAWLING when the phase row is inserted.
CrawlStart(d) ==
    /\ pc[d] = "crawlStart"
    /\ StartPhase(d, "crawling")
    /\ Remember(d, "crawling", mem[d].machine, {})
    /\ Goto(d, "crawl")
    /\ UNCHANGED <<scanState, pausedFrom, reasons, finishedAt, available, session, endpoints>>

\* _run_crawling: anonymous first, then every persona with a session.
Crawl(d, who) ==
    /\ pc[d] = "crawl"
    /\ who \notin mem[d].surfaces
    /\ who = Anonymous \/ (Anonymous \in mem[d].surfaces /\ who \in LoggedIn(d))
    /\ mem' = [mem EXCEPT ![d].surfaces = @ \cup {who}]
    /\ Goto(d, "crawl")
    /\ UNCHANGED dbVars

\* Mutant: the scan moves on and the phase row stays RUNNING.
CrawlFinishLeavesPhase(d) ==
    /\ pc[d] = "crawl"
    /\ mem[d].surfaces = LoggedIn(d) \cup {Anonymous}
    /\ Transition(d, "surface_mapping")
    /\ UNCHANGED rows
    /\ Remember(d, "crawling", "surface_mapping", {})
    /\ Goto(d, "mapStart")
    /\ UNCHANGED <<pausedFrom, reasons, finishedAt, available, session, endpoints>>

\* Mutant: the crawl does not wait for the personas.
CrawlFinishEarly(d) ==
    /\ pc[d] = "crawl"
    /\ Anonymous \in mem[d].surfaces
    /\ Transition(d, "surface_mapping")
    /\ SetPhase(d, "crawling", "completed")
    /\ Remember(d, "crawling", "surface_mapping", {})
    /\ Goto(d, "mapStart")
    /\ UNCHANGED <<pausedFrom, reasons, finishedAt, available, session, endpoints>>

\* Mutant: the crawl waits for personas that never logged in.
CrawlFinishWaitsForAll(d) ==
    /\ pc[d] = "crawl"
    /\ mem[d].surfaces = mem[d].configured \cup {Anonymous}
    /\ Transition(d, "surface_mapping")
    /\ SetPhase(d, "crawling", "completed")
    /\ Remember(d, "crawling", "surface_mapping", {})
    /\ Goto(d, "mapStart")
    /\ UNCHANGED <<pausedFrom, reasons, finishedAt, available, session, endpoints>>

CrawlFinish(d) ==
    /\ pc[d] = "crawl"
    /\ mem[d].surfaces = LoggedIn(d) \cup {Anonymous}
    /\ Transition(d, "surface_mapping")
    /\ SetPhase(d, "crawling", "completed")
    /\ Remember(d, "crawling", "surface_mapping", {})
    /\ Goto(d, "mapStart")
    /\ UNCHANGED <<pausedFrom, reasons, finishedAt, available, session, endpoints>>

MapStart(d) ==
    /\ pc[d] = "mapStart"
    /\ StartPhase(d, "surface_mapping")
    /\ Remember(d, "surface_mapping", mem[d].machine, {})
    /\ Goto(d, "map")
    /\ UNCHANGED <<scanState, pausedFrom, reasons, finishedAt, available, session, endpoints>>

\* Mutant: the scan is paused before the surfaces are merged.
MapFinishUnmerged(d) ==
    /\ pc[d] = "map"
    /\ SetPhase(d, "surface_mapping", "completed")
    /\ Transition(d, "paused")
    /\ pausedFrom' = mem[d].machine
    /\ WriteNotes(d, {"not_implemented"})
    /\ mem' = [mem EXCEPT ![d] = NoMem]
    /\ Goto(d, "done")
    /\ UNCHANGED <<finishedAt, available, session, endpoints>>

\* Every surface is merged, the phase is finished and the scan is paused by
\* one commit.
MapFinish(d) ==
    /\ pc[d] = "map"
    /\ endpoints' = endpoints \cup mem[d].surfaces
    /\ SetPhase(d, "surface_mapping", "completed")
    /\ Transition(d, "paused")
    /\ pausedFrom' = mem[d].machine
    /\ WriteNotes(d, {"not_implemented"})
    /\ mem' = [mem EXCEPT ![d] = NoMem]
    /\ Goto(d, "done")
    /\ UNCHANGED <<finishedAt, available, session>>

-----------------------------------------------------------------------------
\* What a live worker does with delivery d.
Work(d) ==
    \/ Receive(d) \/ InvalidTransition(d)
    \/ LoadScan(d) \/ LoadPhases(d) \/ LoadTarget(d)
    \/ ScopeBlocked(d) \/ ScopePassed(d)
    \/ ReconStart(d) \/ (\E added \in {{}, {"recon"}} : ReconFinish(d, added))
    \/ Setup(d) \/ AuthStart(d)
    \/ (\E p \in Personas, o \in LoginOutcome \ {"untried"} : Login(d, p, o))
    \/ AuthSkipped(d) \/ AuthAnonymous(d) \/ AuthEstablished(d) \/ AuthFailed(d)
    \/ CrawlStart(d) \/ (\E who \in Identity : Crawl(d, who)) \/ CrawlFinish(d)
    \/ MapStart(d) \/ MapFinish(d)

Next ==
    \/ CreateCheck \/ CreateCommit \/ DispatchFails
    \/ \E d \in Deliveries : Dispatch(d) \/ Work(d) \/ Raise(d) \/ Crash(d)
    \/ \E d, e \in Deliveries : Redeliver(d, e)
    \/ \E b \in BOOLEAN : SetScannable(b)
    \/ \E p \in Personas : CreatePersona(p)

Spec == Init /\ [][Next]_vars

\* The API answers its request and a worker that holds a task goes on with
\* it: every await in run_scan is a query or a call with its own timeout.
\* Nothing is assumed of faults, redeliveries or the target's owner.
FairSpec ==
    /\ Spec
    /\ WF_vars(CreateCommit)
    /\ WF_vars(\E d \in Deliveries : Dispatch(d))
    /\ \A d \in Deliveries : WF_vars(Work(d))

-----------------------------------------------------------------------------
(* Properties.                                                             *)

Mem ==
    [machine : ScanState \cup {NoState},
     view : [PhaseName -> Deliveries \cup {NoRow}],
     gate : BOOLEAN,
     notes : SUBSET ReasonKind,
     configured : SUBSET Personas,
     loaded : [Personas -> BOOLEAN],
     login : [Personas -> LoginOutcome],
     surfaces : SUBSET Identity]

TypeOK ==
    /\ scanState \in ScanState \cup {NoState}
    /\ pausedFrom \in ScanState \cup {NoState}
    /\ reasons \in SUBSET ReasonKind
    /\ finishedAt \in BOOLEAN
    /\ rows \in [Deliveries -> [PhaseName -> RowStatus]]
    /\ available \in [Personas -> BOOLEAN]
    /\ session \in [Personas -> LoginOutcome]
    /\ endpoints \in SUBSET Identity
    /\ scannable \in BOOLEAN
    /\ recipes \in SUBSET Personas
    /\ kmsKey \in BOOLEAN
    /\ api \in {"idle", "checked", "refused", "committed", "dispatched", "undispatched"}
    /\ pc \in [Deliveries -> TaskPC]
    /\ retries \in [Deliveries -> 0..MaxRetries]
    /\ mem \in [Deliveries -> Mem]
    /\ faults \in 0..MaxFaults

\* The broker delivers the task message once (it may still be retried).
SingleDelivery == \A d, e \in Deliveries : d = e

\* Program counters between the first commit and the last.
PastScope == RunPC \ {"loadScan", "loadPhases", "loadTarget", "scope"}

\* The five phase rows of delivery d have one of the given statuses each.
Phases(d, sv, rc, au, cr, sm) ==
    /\ rows[d]["scope_verifying"] \in sv
    /\ rows[d]["recon"] \in rc
    /\ rows[d]["auth_establishing"] \in au
    /\ rows[d]["crawling"] \in cr
    /\ rows[d]["surface_mapping"] \in sm

None == {"absent"}
Ok == {"completed"}
AuthOk == {"completed", "skipped"}

\* What the phase rows of delivery d say in each state of the scan.
RowsAt(d) ==
    \/ scanState \in {NoState, "queued"}   /\ Phases(d, None, None, None, None, None)
    \/ scanState = "scope_verifying"        /\ Phases(d, Ok, None, None, None, None)
    \/ scanState = "blocked_unverified"     /\ Phases(d, {"failed"}, None, None, None, None)
    \/ scanState = "recon"                  /\ Phases(d, Ok, {"running"} \cup Ok, None, None, None)
    \/ scanState = "auth_establishing"      /\ Phases(d, Ok, Ok, {"running"}, None, None)
    \/ scanState = "failed_auth"            /\ Phases(d, Ok, Ok, {"failed"}, None, None)
    \/ scanState = "crawling"               /\ Phases(d, Ok, Ok, AuthOk, {"running"} \cup None, None)
    \/ scanState = "surface_mapping"        /\ Phases(d, Ok, Ok, AuthOk, Ok, {"running"} \cup None)
    \/ scanState = "paused"                 /\ Phases(d, Ok, Ok, AuthOk, Ok, Ok)

\* At every moment, and wherever a worker fails, dies or is retried, the
\* committed phase rows tell exactly how far the committed state says the
\* scan got: nothing after an unfinished phase ran, a scan that paused ran
\* all five phases, and a blocked one ran none beyond the gate.  This is the
\* "not a state that silently looks complete" of machine.py.
RowsTellTheState == \A d \in Deliveries : RowsAt(d)

\* Whenever a worker is past the gate, the machine and the notes it keeps in
\* memory are the committed ones, so its next transition and its next
\* whole-list write of degraded_reasons start from what the row says.
MachineInSync ==
    \A d \in Deliveries :
        pc[d] \in PastScope => mem[d].machine = scanState /\ mem[d].notes = reasons

\* A scan never looks better than it was: a paused one says what is missing,
\* an anonymous-only crawl says why it was anonymous, and a stored session
\* without an oracle caps the scan's confidence (docs/04 B3).
DegradedIsSaid ==
    /\ scanState = "paused" => "not_implemented" \in reasons
    /\ endpoints = {Anonymous} => reasons \cap {"no_kms", "no_personas"} # {}
    /\ (\E p \in Personas : session[p] = "no_oracle") => "no_oracle" \in reasons

\* The surface is all or nothing: it appears with the pause, it covers the
\* anonymous identity and exactly the personas whose session this scan
\* stored, and those are the ones the persona rows call available.
SurfaceMatchesLogins ==
    endpoints # {} =>
        /\ scanState = "paused" /\ pausedFrom = "surface_mapping"
        /\ endpoints = {Anonymous} \cup {p \in Personas : session[p] # "untried"}
        /\ \A p \in endpoints \ {Anonymous} : available[p]

\* FAILED_AUTH means that somebody was configured and nobody logged in: no
\* session is stored, nothing was crawled, and the personas say so.
FailedAuthMeansNobody ==
    scanState = "failed_auth" =>
        /\ \A p \in Personas : session[p] = "untried"
        /\ endpoints = {}
        /\ \E p \in Personas : ~available[p]

\* However many times the task is delivered, an outcome that polling clients
\* see was reached by a run that left the evidence for it: a failed gate or
\* login phase with finished_at, or the surface a paused scan announces.
OutcomeHasEvidence ==
    /\ scanState = "blocked_unverified" =>
          finishedAt /\ \E d \in Deliveries : rows[d]["scope_verifying"] = "failed"
    /\ scanState = "failed_auth" =>
          finishedAt /\ \E d \in Deliveries : rows[d]["auth_establishing"] = "failed"
    /\ scanState = "paused" => Anonymous \in endpoints /\ pausedFrom = "surface_mapping"

\* No delivery has read the target, or those that did have ended.
TargetUnread ==
    \A d \in Deliveries : pc[d] \notin PastScope \cup {"scope"}

\* Nothing was sent to the target: no phase beyond the gate, no login, no
\* surface.
Untouched ==
    /\ scanState \in {NoState, "queued", "blocked_unverified"}
    /\ \A d \in Deliveries, n \in PhaseName \ {"scope_verifying"} : rows[d][n] = "absent"
    /\ \A p \in Personas : session[p] = "untried"
    /\ endpoints = {} /\ reasons = {}

\* An owner who withdraws the verification before a worker reads the target,
\* and leaves it withdrawn, is heeded by every delivery and every retry of a
\* scan that create_scan admitted when it was granted: nothing is sent.  (One
\* who withdraws it later is not: the target is never read again.)
WithdrawalHeeded == [](Untouched /\ TargetUnread /\ []~scannable => []Untouched)

\* However many times the task is delivered, whichever of the runs merges its
\* surfaces and whichever logins fail before or after: no identity has
\* endpoints without the anonymous ones to compare them with, and a persona
\* with endpoints has a recipe and a stored session to replay them with.
SurfaceHasSessions ==
    /\ endpoints # {} => Anonymous \in endpoints
    /\ \A p \in endpoints \ {Anonymous} : p \in recipes /\ session[p] # "untried"

\* The strengthening that makes OutcomeHasEvidence inductive: a worker that is
\* about to pause the scan has crawled and its machine is in SURFACE_MAPPING.
MapReady ==
    \A d \in Deliveries : pc[d] \in {"mapStart", "map"} =>
        mem[d].machine = "surface_mapping" /\ Anonymous \in mem[d].surfaces

\* The strengthening that makes SurfaceHasSessions inductive: a worker tries
\* only personas it loaded, crawls only as one that logged in, and those have
\* their sessions stored, by this worker, before it crawls.
AfterLogins == {"crawlStart", "crawl", "mapStart", "map"}

StoredAt(d) ==
    /\ mem[d].configured \subseteq recipes
    /\ \A p \in Personas : mem[d].login[p] # "untried" => kmsKey /\ p \in mem[d].configured
    /\ mem[d].surfaces \subseteq LoggedIn(d) \cup {Anonymous}
    /\ pc[d] \in AfterLogins => \A p \in LoggedIn(d) : session[p] # "untried"

LoginsStored == \A d \in Deliveries : StoredAt(d)

\* The strengthening that makes RowsTellTheState and MachineInSync inductive
\* for a single delivery: where the worker is says what the scan row and the
\* row of the phase in progress say, and before the dispatch nobody runs.
AtPC(d, q, s, n, st) == pc[d] = q => scanState = s /\ rows[d][n] = st

PositionAt(d) ==
    /\ api \in {"idle", "checked", "refused"} => scanState = NoState
    /\ api = "committed" => scanState = "queued"
    /\ api \in {"idle", "checked", "refused", "committed"} => pc[d] = "unsent"
    /\ pc[d] \in RunPC \ {"loadScan"} =>
          mem[d].machine = scanState /\ mem[d].notes = reasons
    /\ AtPC(d, "reconStart", "scope_verifying", "recon", "absent")
    /\ AtPC(d, "recon", "recon", "recon", "running")
    /\ AtPC(d, "setup", "recon", "recon", "completed")
    /\ AtPC(d, "authStart", "recon", "recon", "completed")
    /\ AtPC(d, "auth", "auth_establishing", "auth_establishing", "running")
    /\ AtPC(d, "crawlStart", "crawling", "crawling", "absent")
    /\ AtPC(d, "crawl", "crawling", "crawling", "running")
    /\ AtPC(d, "mapStart", "surface_mapping", "surface_mapping", "absent")
    /\ AtPC(d, "map", "surface_mapping", "surface_mapping", "running")

WorkerPosition == \A d \in Deliveries : PositionAt(d)

\* The committed scan row behaves as ScanLifecycle says.
Lifecycle == INSTANCE ScanLifecycle WITH state <- scanState
LifecycleSpec == Lifecycle!Spec

\* What the scan's rows have recorded is never taken back, by the steps after
\* it, a retry or a worker's death: no note, no phase that ended, no stored
\* session, no finished_at and no surface.  scan_runner.py: progress is
\* persisted "after every step so a crashed worker resumes".
Kept ==
    /\ reasons \subseteq reasons'
    /\ \A d \in Deliveries, n \in PhaseName :
          rows[d][n] \notin {"absent", "running"} => rows'[d][n] = rows[d][n]
    /\ \A p \in Personas : session[p] # "untried" => session'[p] = session[p]
    /\ finishedAt => finishedAt'
    /\ endpoints # {} => endpoints' = endpoints

RecordIsKept == [][Kept]_dbVars

Settled == scanState \in TERMINAL_STATES \cup {"paused"}

\* scan_runner.py: progress is persisted "after every step so a crashed worker
\* resumes rather than restarts".  A scan whose task reached the broker comes
\* to an outcome a client sees, whatever one attempt meets.
DispatchedScanSettles == (\E d \in Deliveries : pc[d] = "queued") ~> Settled

\* Nothing short of a fault keeps a scan from an outcome: one that create_scan
\* admits is created, dispatched, run and paused or ended, whatever the logins
\* give and whatever the owner does to the target meanwhile.
ScanSettles == (api = "checked") ~> (Settled \/ faults > 0)

\* Whatever fails, every delivery ends: retries are bounded and no worker is
\* held by a scan for ever.
DeliveriesEnd == \A d \in Deliveries : (pc[d] = "queued") ~> (pc[d] \in EndPC)
=============================================================================

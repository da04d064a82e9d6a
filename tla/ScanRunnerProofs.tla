-------------------------- MODULE ScanRunnerProofs --------------------------
(***************************************************************************)
(* Theorems about ScanRunner, for any sets of deliveries and personas and  *)
(* any number of retries and faults.                                       *)
(***************************************************************************)
EXTENDS ScanRunner, TLAPS

-----------------------------------------------------------------------------
(* Typing lemmas for the helpers of run_scan.                              *)

\* _get_or_create_phase returns the row of some delivery.
LEMMA RowOfType ==
    ASSUME TypeOK, NEW d \in Deliveries, NEW n \in PhaseName
    PROVE  RowOf(d, n) \in Deliveries
  BY DEF TypeOK, Mem, RowOf

\* Starting or finishing a phase keeps the table of phase rows well typed.
LEMMA SetPhaseType ==
    ASSUME TypeOK, NEW d \in Deliveries, NEW n \in PhaseName, NEW s \in RowStatus,
           SetPhase(d, n, s)
    PROVE  rows' \in [Deliveries -> [PhaseName -> RowStatus]]
  BY RowOfType DEF TypeOK, SetPhase

\* So does starting a phase whose row another delivery had started.
LEMMA StartPhaseType ==
    ASSUME TypeOK, NEW d \in Deliveries, NEW n \in PhaseName, StartPhase(d, n)
    PROVE  rows' \in [Deliveries -> [PhaseName -> RowStatus]]
  <1>1. CASE SetPhase(d, n, "running")
    BY <1>1, SetPhaseType DEF RowStatus
  <1>2. CASE UNCHANGED rows
    BY <1>2 DEF TypeOK
  <1> QED
    BY <1>1, <1>2 DEF StartPhase

\* An empty session is a session.
LEMMA NoMemType == NoMem \in Mem
  BY DEF NoMem, Mem, LoginOutcome, Identity

\* The session's objects stay well typed across a commit.
LEMMA RememberType ==
    ASSUME TypeOK, NEW d \in Deliveries, NEW n \in PhaseName,
           NEW t \in ScanState \cup {NoState},
           NEW added \in SUBSET ReasonKind, Remember(d, n, t, added)
    PROVE  mem' \in [Deliveries -> Mem]
  <1>1. RowOf(d, n) \in Deliveries
    BY RowOfType
  <1>2. mem[d] \in Mem
    BY DEF TypeOK
  <1>3. [mem[d] EXCEPT !.view[n] = RowOf(d, n), !.machine = t,
                       !.notes = @ \cup added] \in Mem
    BY <1>1, <1>2 DEF Mem
  <1>4. mem' = [mem EXCEPT ![d] = [mem[d] EXCEPT !.view[n] = RowOf(d, n),
                                    !.machine = t, !.notes = @ \cup added]]
    BY <1>2 DEF TypeOK, Remember, Mem
  <1> QED
    BY <1>3, <1>4 DEF TypeOK

-----------------------------------------------------------------------------
(* Type correctness.                                                       *)

\* The parts of the state only a task touches, and the parts it writes.
TaskTypeOK ==
    /\ pc \in [Deliveries -> TaskPC]
    /\ retries \in [Deliveries -> 0..MaxRetries]
    /\ mem \in [Deliveries -> Mem]

DbTypeOK ==
    /\ scanState \in ScanState \cup {NoState}
    /\ pausedFrom \in ScanState \cup {NoState}
    /\ reasons \in SUBSET ReasonKind
    /\ finishedAt \in BOOLEAN
    /\ rows \in [Deliveries -> [PhaseName -> RowStatus]]
    /\ available \in [Personas -> BOOLEAN]
    /\ session \in [Personas -> LoginOutcome]
    /\ endpoints \in SUBSET Identity

\* A retry keeps the task state well typed and the retry count bounded.
LEMMA RetryType ==
    ASSUME TypeOK, NEW d \in Deliveries, Retry(d)
    PROVE  TaskTypeOK'
  <1>1. pc' \in [Deliveries -> TaskPC]
    BY DEF TypeOK, Retry, TaskPC, EndPC
  <1>2. retries' \in [Deliveries -> 0..MaxRetries]
    <2>1. retries[d] < MaxRetries => retries[d] + 1 \in 0..MaxRetries
      BY RunnerAssumption DEF TypeOK
    <2> QED
      BY <2>1 DEF TypeOK, Retry
  <1>3. mem' \in [Deliveries -> Mem]
    BY NoMemType DEF TypeOK, Retry
  <1> QED
    BY <1>1, <1>2, <1>3 DEF TaskTypeOK

\* Moving a delivery on keeps the program counters and retries well typed.
LEMMA GotoType ==
    ASSUME TypeOK, NEW d \in Deliveries, NEW q \in TaskPC, Goto(d, q)
    PROVE  /\ pc' \in [Deliveries -> TaskPC]
           /\ retries' \in [Deliveries -> 0..MaxRetries]
  BY DEF TypeOK, Goto

\* degraded_reasons only ever holds known kinds of note.
LEMMA WriteNotesType ==
    ASSUME TypeOK, NEW d \in Deliveries, NEW added \in SUBSET ReasonKind,
           WriteNotes(d, added)
    PROVE  reasons' \in SUBSET ReasonKind
  BY DEF TypeOK, WriteNotes, Mem

\* Flushing the persona rows keeps them well typed.
LEMMA WritePersonasType ==
    ASSUME TypeOK, NEW d \in Deliveries, WritePersonas(d)
    PROVE  /\ available' \in [Personas -> BOOLEAN]
           /\ session' \in [Personas -> LoginOutcome]
  <1>1. available' \in [Personas -> BOOLEAN]
    <2>1. ASSUME NEW p \in Personas
          PROVE  (IF mem[d].login[p] = "untried" \/ (p \in LoggedIn(d) <=> mem[d].loaded[p])
                  THEN available[p] ELSE p \in LoggedIn(d)) \in BOOLEAN
      <3>1. available[p] \in BOOLEAN
        BY DEF TypeOK
      <3>2. (p \in LoggedIn(d)) \in BOOLEAN
        OBVIOUS
      <3> QED
        BY <3>1, <3>2, Zenon
    <2> QED
      BY <2>1 DEF WritePersonas
  <1>2. session' \in [Personas -> LoginOutcome]
    <2>1. mem[d].login \in [Personas -> LoginOutcome]
      BY DEF TypeOK, Mem
    <2> QED
      BY <2>1 DEF TypeOK, WritePersonas
  <1> QED
    BY <1>1, <1>2

\* The four reads and the two network loops change the memory of one task.
LEMMA MemType ==
    ASSUME TypeOK, NEW d \in Deliveries
    PROVE  /\ LoadScan(d) => mem' \in [Deliveries -> Mem]
           /\ LoadPhases(d) => mem' \in [Deliveries -> Mem]
           /\ LoadTarget(d) => mem' \in [Deliveries -> Mem]
           /\ Setup(d) => mem' \in [Deliveries -> Mem]
           /\ \A p \in Personas, o \in LoginOutcome : Login(d, p, o) => mem' \in [Deliveries -> Mem]
           /\ \A w \in Identity : Crawl(d, w) => mem' \in [Deliveries -> Mem]
  <1>1. mem[d] \in Mem /\ mem \in [Deliveries -> Mem]
    BY DEF TypeOK
  <1>2. LoadScan(d) => mem' \in [Deliveries -> Mem]
    <2> SUFFICES ASSUME LoadScan(d) PROVE mem' \in [Deliveries -> Mem]
      OBVIOUS
    <2>1. [mem[d] EXCEPT !.machine = scanState, !.notes = reasons] \in Mem
      BY <1>1 DEF TypeOK, Mem
    <2>2. mem' = [mem EXCEPT ![d] = [mem[d] EXCEPT !.machine = scanState, !.notes = reasons]]
      BY <1>1 DEF LoadScan, Mem
    <2> QED
      BY <1>1, <2>1, <2>2
  <1>3. LoadPhases(d) => mem' \in [Deliveries -> Mem]
    <2> SUFFICES ASSUME LoadPhases(d) PROVE mem' \in [Deliveries -> Mem]
      OBVIOUS
    <2>1. PICK v \in [PhaseName -> Deliveries \cup {NoRow}] :
            mem' = [mem EXCEPT ![d].view = v]
      BY DEF LoadPhases
    <2>2. [mem[d] EXCEPT !.view = v] \in Mem
      BY <1>1 DEF Mem
    <2>3. mem' = [mem EXCEPT ![d] = [mem[d] EXCEPT !.view = v]]
      BY <1>1, <2>1 DEF Mem
    <2> QED
      BY <1>1, <2>2, <2>3
  <1>4. LoadTarget(d) => mem' \in [Deliveries -> Mem]
    <2> SUFFICES ASSUME LoadTarget(d) PROVE mem' \in [Deliveries -> Mem]
      OBVIOUS
    <2>1. [mem[d] EXCEPT !.gate = scannable] \in Mem
      BY <1>1 DEF TypeOK, Mem
    <2>2. mem' = [mem EXCEPT ![d] = [mem[d] EXCEPT !.gate = scannable]]
      BY <1>1 DEF LoadTarget, Mem
    <2> QED
      BY <1>1, <2>1, <2>2
  <1>5. Setup(d) => mem' \in [Deliveries -> Mem]
    <2> SUFFICES ASSUME Setup(d) PROVE mem' \in [Deliveries -> Mem]
      OBVIOUS
    <2>1. [mem[d] EXCEPT !.configured = recipes, !.loaded = available] \in Mem
      BY <1>1 DEF TypeOK, Mem
    <2>2. mem' = [mem EXCEPT ![d] = [mem[d] EXCEPT !.configured = recipes, !.loaded = available]]
      BY <1>1 DEF Setup, Mem
    <2> QED
      BY <1>1, <2>1, <2>2
  <1>6. ASSUME NEW p \in Personas, NEW o \in LoginOutcome, Login(d, p, o)
        PROVE  mem' \in [Deliveries -> Mem]
    BY <1>1, <1>6 DEF TypeOK, Login, Mem
  <1>7. ASSUME NEW w \in Identity, Crawl(d, w)
        PROVE  mem' \in [Deliveries -> Mem]
    BY <1>1, <1>7 DEF TypeOK, Crawl, Mem
  <1> QED
    BY <1>2, <1>3, <1>4, <1>5, <1>6, <1>7

\* A commit of run_scan that inserts or updates phase n with status st, moves
\* the machine to t and goes to q.
LEMMA CommitType ==
    ASSUME TypeOK, NEW d \in Deliveries, NEW n \in PhaseName, NEW st \in RowStatus,
           NEW t \in ScanState \cup {NoState}, NEW added \in SUBSET ReasonKind,
           NEW q \in TaskPC,
           SetPhase(d, n, st), Remember(d, n, t, added), Goto(d, q)
    PROVE  /\ TaskTypeOK'
           /\ rows' \in [Deliveries -> [PhaseName -> RowStatus]]
           /\ UNCHANGED <<envVars, api, faults>>
  <1>1. rows' \in [Deliveries -> [PhaseName -> RowStatus]]
    BY SetPhaseType
  <1>2. mem' \in [Deliveries -> Mem]
    BY RememberType
  <1>3. pc' \in [Deliveries -> TaskPC] /\ retries' \in [Deliveries -> 0..MaxRetries]
    BY GotoType
  <1> QED
    BY <1>1, <1>2, <1>3 DEF TaskTypeOK, Goto

\* The commit that starts phase n and goes to q.
LEMMA StartCommitType ==
    ASSUME TypeOK, NEW d \in Deliveries, NEW n \in PhaseName,
           NEW t \in ScanState \cup {NoState}, NEW q \in TaskPC,
           StartPhase(d, n), Remember(d, n, t, {}), Goto(d, q)
    PROVE  /\ TaskTypeOK'
           /\ rows' \in [Deliveries -> [PhaseName -> RowStatus]]
           /\ UNCHANGED <<envVars, api, faults>>
  <1>1. rows' \in [Deliveries -> [PhaseName -> RowStatus]]
    BY StartPhaseType
  <1>2. mem' \in [Deliveries -> Mem]
    BY RememberType
  <1>3. pc' \in [Deliveries -> TaskPC] /\ retries' \in [Deliveries -> 0..MaxRetries]
    BY GotoType
  <1> QED
    BY <1>1, <1>2, <1>3 DEF TaskTypeOK, Goto

\* The commit that ends AUTH_ESTABLISHING and enters CRAWLING keeps the types.
LEMMA AuthFinishType ==
    ASSUME TypeOK, NEW d \in Deliveries, NEW st \in RowStatus,
           NEW added \in SUBSET ReasonKind, AuthFinish(d, st, added)
    PROVE  /\ TaskTypeOK'
           /\ rows' \in [Deliveries -> [PhaseName -> RowStatus]]
           /\ scanState' \in ScanState
           /\ reasons' \in SUBSET ReasonKind
           /\ UNCHANGED <<pausedFrom, finishedAt, endpoints, envVars, api, faults>>
  <1>1. /\ "auth_establishing" \in PhaseName
        /\ "crawling" \in ScanState
        /\ "crawlStart" \in TaskPC
    BY DEF PhaseName, ScanState, TaskPC, RunPC
  <1>2. /\ TaskTypeOK'
        /\ rows' \in [Deliveries -> [PhaseName -> RowStatus]]
        /\ UNCHANGED <<envVars, api, faults>>
    BY <1>1, CommitType DEF AuthFinish
  <1>3. reasons' \in SUBSET ReasonKind
    BY WriteNotesType DEF AuthFinish
  <1> QED
    BY <1>1, <1>2, <1>3 DEF AuthFinish, Transition

\* A commit that ends the run: the session is closed.
LEMMA EndType ==
    ASSUME TypeOK, NEW d \in Deliveries, mem' = [mem EXCEPT ![d] = NoMem], Goto(d, "done")
    PROVE  TaskTypeOK'
  <1>1. "done" \in TaskPC
    BY DEF TaskPC, EndPC
  <1>2. pc' \in [Deliveries -> TaskPC] /\ retries' \in [Deliveries -> 0..MaxRetries]
    BY <1>1, GotoType
  <1>3. mem' \in [Deliveries -> Mem]
    BY NoMemType DEF TypeOK
  <1> QED
    BY <1>2, <1>3 DEF TaskTypeOK

\* A worker's step keeps the types.
LEMMA WorkType ==
    ASSUME TypeOK, NEW d \in Deliveries, Work(d)
    PROVE  TypeOK'
  <1>0. SUFFICES TaskTypeOK' /\ DbTypeOK' /\ UNCHANGED <<envVars, api, faults>>
    BY DEF TypeOK, TaskTypeOK, DbTypeOK, envVars
  <1>n. /\ {"scope_verifying", "recon", "auth_establishing", "crawling", "surface_mapping"} \subseteq PhaseName
        /\ {"scope_verifying", "recon", "auth_establishing", "crawling", "surface_mapping",
            "blocked_unverified", "failed_auth", "paused"} \subseteq ScanState
        /\ {"running", "completed", "failed", "skipped"} \subseteq RowStatus
        /\ RunPC \subseteq TaskPC
        /\ {} \in SUBSET ReasonKind /\ {"recon"} \in SUBSET ReasonKind
        /\ {"no_kms"} \in SUBSET ReasonKind /\ {"no_personas"} \in SUBSET ReasonKind
        /\ {"no_oracle"} \in SUBSET ReasonKind /\ {"not_implemented"} \in SUBSET ReasonKind
    BY DEF PhaseName, ScanState, RowStatus, TaskPC, ReasonKind
  <1>q. {"loadPhases", "loadTarget", "scope", "reconStart", "recon", "setup", "authStart", "auth",
         "crawlStart", "crawl", "mapStart", "map", "loadScan"} \subseteq TaskPC
    BY DEF TaskPC, RunPC
  <1>m. mem[d].machine \in ScanState \cup {NoState}
    BY DEF TypeOK, Mem
  <1>d. DbTypeOK
    BY DEF TypeOK, DbTypeOK
  <1>u. UNCHANGED dbVars => DbTypeOK'
    BY <1>d DEF DbTypeOK, dbVars
  <1>1. CASE Receive(d)
    <2>1. TaskTypeOK'
      BY <1>1, <1>q DEF TypeOK, TaskTypeOK, Receive
    <2> QED
      BY <1>1, <1>u, <2>1 DEF Receive
  <1>2. CASE InvalidTransition(d)
    <2>1. TaskTypeOK'
      BY <1>2, RetryType DEF InvalidTransition
    <2> QED
      BY <1>2, <1>u, <2>1 DEF InvalidTransition, Retry
  <1>3. CASE LoadScan(d)
    <2>1. mem' \in [Deliveries -> Mem]
      BY <1>3, MemType
    <2>2. pc' \in [Deliveries -> TaskPC] /\ retries' \in [Deliveries -> 0..MaxRetries]
      BY <1>3, <1>q, GotoType DEF LoadScan
    <2> QED
      BY <1>3, <1>u, <2>1, <2>2 DEF LoadScan, Goto, TaskTypeOK
  <1>4. CASE LoadPhases(d)
    <2>1. mem' \in [Deliveries -> Mem]
      BY <1>4, MemType
    <2>2. pc' \in [Deliveries -> TaskPC] /\ retries' \in [Deliveries -> 0..MaxRetries]
      BY <1>4, <1>q, GotoType DEF LoadPhases
    <2> QED
      BY <1>4, <1>u, <2>1, <2>2 DEF LoadPhases, Goto, TaskTypeOK
  <1>5. CASE LoadTarget(d)
    <2>1. mem' \in [Deliveries -> Mem]
      BY <1>5, MemType
    <2>2. pc' \in [Deliveries -> TaskPC] /\ retries' \in [Deliveries -> 0..MaxRetries]
      BY <1>5, <1>q, GotoType DEF LoadTarget
    <2> QED
      BY <1>5, <1>u, <2>1, <2>2 DEF LoadTarget, Goto, TaskTypeOK
  <1>6. CASE Setup(d)
    <2>1. mem' \in [Deliveries -> Mem]
      BY <1>6, MemType
    <2>2. pc' \in [Deliveries -> TaskPC] /\ retries' \in [Deliveries -> 0..MaxRetries]
      BY <1>6, <1>q, GotoType DEF Setup
    <2> QED
      BY <1>6, <1>u, <2>1, <2>2 DEF Setup, Goto, TaskTypeOK
  <1>7. CASE \E p \in Personas, o \in LoginOutcome \ {"untried"} : Login(d, p, o)
    <2>1. mem' \in [Deliveries -> Mem]
      BY <1>7, MemType
    <2>2. pc' \in [Deliveries -> TaskPC] /\ retries' \in [Deliveries -> 0..MaxRetries]
      BY <1>7, <1>q, GotoType DEF Login
    <2> QED
      BY <1>7, <1>u, <2>1, <2>2 DEF Login, Goto, TaskTypeOK
  <1>8. CASE \E who \in Identity : Crawl(d, who)
    <2>1. mem' \in [Deliveries -> Mem]
      BY <1>8, MemType
    <2>2. pc' \in [Deliveries -> TaskPC] /\ retries' \in [Deliveries -> 0..MaxRetries]
      BY <1>8, <1>q, GotoType DEF Crawl
    <2> QED
      BY <1>8, <1>u, <2>1, <2>2 DEF Crawl, Goto, TaskTypeOK
  <1>9. CASE ScopePassed(d)
    <2>1. /\ TaskTypeOK'
          /\ rows' \in [Deliveries -> [PhaseName -> RowStatus]]
          /\ UNCHANGED <<envVars, api, faults>>
      BY <1>9, <1>n, <1>q, <1>m, CommitType DEF ScopePassed
    <2> QED
      BY <1>9, <1>n, <1>d, <2>1 DEF ScopePassed, Transition, DbTypeOK
  <1>10. CASE ReconStart(d)
    <2>1. /\ TaskTypeOK'
          /\ rows' \in [Deliveries -> [PhaseName -> RowStatus]]
          /\ UNCHANGED <<envVars, api, faults>>
      BY <1>10, <1>n, <1>q, <1>m, StartCommitType DEF ReconStart
    <2> QED
      BY <1>10, <1>n, <1>d, <2>1 DEF ReconStart, Transition, DbTypeOK
  <1>11. CASE AuthStart(d)
    <2>1. /\ TaskTypeOK'
          /\ rows' \in [Deliveries -> [PhaseName -> RowStatus]]
          /\ UNCHANGED <<envVars, api, faults>>
      BY <1>11, <1>n, <1>q, <1>m, StartCommitType DEF AuthStart
    <2> QED
      BY <1>11, <1>n, <1>d, <2>1 DEF AuthStart, Transition, DbTypeOK
  <1>12. CASE CrawlStart(d)
    <2>1. /\ TaskTypeOK'
          /\ rows' \in [Deliveries -> [PhaseName -> RowStatus]]
          /\ UNCHANGED <<envVars, api, faults>>
      BY <1>12, <1>n, <1>q, <1>m, StartCommitType DEF CrawlStart
    <2> QED
      BY <1>12, <1>n, <1>d, <2>1 DEF CrawlStart, DbTypeOK
  <1>13. CASE CrawlFinish(d)
    <2>1. /\ TaskTypeOK'
          /\ rows' \in [Deliveries -> [PhaseName -> RowStatus]]
          /\ UNCHANGED <<envVars, api, faults>>
      BY <1>13, <1>n, <1>q, <1>m, CommitType DEF CrawlFinish
    <2> QED
      BY <1>13, <1>n, <1>d, <2>1 DEF CrawlFinish, Transition, DbTypeOK
  <1>14. CASE MapStart(d)
    <2>1. /\ TaskTypeOK'
          /\ rows' \in [Deliveries -> [PhaseName -> RowStatus]]
          /\ UNCHANGED <<envVars, api, faults>>
      BY <1>14, <1>n, <1>q, <1>m, StartCommitType DEF MapStart
    <2> QED
      BY <1>14, <1>n, <1>d, <2>1 DEF MapStart, DbTypeOK
  <1>15. CASE \E added \in {{}, {"recon"}} : ReconFinish(d, added)
    <2> PICK added \in {{}, {"recon"}} : ReconFinish(d, added)
      BY <1>15
    <2>1. /\ TaskTypeOK'
          /\ rows' \in [Deliveries -> [PhaseName -> RowStatus]]
          /\ UNCHANGED <<envVars, api, faults>>
      BY <1>n, <1>q, <1>m, CommitType DEF ReconFinish
    <2>2. reasons' \in SUBSET ReasonKind
      BY <1>n, WriteNotesType DEF ReconFinish
    <2> QED
      BY <1>d, <2>1, <2>2 DEF ReconFinish, DbTypeOK
  <1>16. CASE AuthSkipped(d)
    <2>1. AuthFinish(d, "skipped", {"no_kms"})
      BY <1>16 DEF AuthSkipped
    <2> QED
      BY <1>16, <1>n, <1>d, <2>1, AuthFinishType DEF AuthSkipped, DbTypeOK
  <1>17. CASE AuthAnonymous(d)
    <2>1. AuthFinish(d, "completed", {"no_personas"})
      BY <1>17 DEF AuthAnonymous
    <2> QED
      BY <1>17, <1>n, <1>d, <2>1, AuthFinishType DEF AuthAnonymous, DbTypeOK
  <1>18. CASE AuthEstablished(d)
    <2> DEFINE added == IF \E p \in Personas : mem[d].login[p] = "no_oracle" THEN {"no_oracle"} ELSE {}
    <2>1. added \in SUBSET ReasonKind
      BY <1>n
    <2>2. AuthFinish(d, "completed", added)
      BY <1>18 DEF AuthEstablished
    <2>3. available' \in [Personas -> BOOLEAN] /\ session' \in [Personas -> LoginOutcome]
      BY <1>18, WritePersonasType DEF AuthEstablished
    <2> HIDE DEF added
    <2> QED
      BY <1>n, <1>d, <2>1, <2>2, <2>3, AuthFinishType DEF DbTypeOK
  <1>19. CASE AuthFailed(d)
    <2>1. TaskTypeOK'
      BY <1>19, EndType DEF AuthFailed
    <2>2. rows' \in [Deliveries -> [PhaseName -> RowStatus]]
      BY <1>19, <1>n, SetPhaseType DEF AuthFailed
    <2>3. available' \in [Personas -> BOOLEAN] /\ session' \in [Personas -> LoginOutcome]
      BY <1>19, WritePersonasType DEF AuthFailed
    <2> QED
      BY <1>19, <1>n, <1>d, <2>1, <2>2, <2>3 DEF AuthFailed, Transition, DbTypeOK, Goto
  <1>20. CASE ScopeBlocked(d)
    <2>1. TaskTypeOK'
      BY <1>20, EndType DEF ScopeBlocked
    <2>2. rows' \in [Deliveries -> [PhaseName -> RowStatus]]
      BY <1>20, <1>n, SetPhaseType DEF ScopeBlocked
    <2> QED
      BY <1>20, <1>n, <1>d, <2>1, <2>2 DEF ScopeBlocked, DbTypeOK, Goto
  <1>21. CASE MapFinish(d)
    <2>1. TaskTypeOK'
      BY <1>21, EndType DEF MapFinish
    <2>2. rows' \in [Deliveries -> [PhaseName -> RowStatus]]
      BY <1>21, <1>n, SetPhaseType DEF MapFinish
    <2>3. reasons' \in SUBSET ReasonKind
      BY <1>21, <1>n, WriteNotesType DEF MapFinish
    <2>4. endpoints' \in SUBSET Identity
      BY <1>21 DEF MapFinish, TypeOK, Mem
    <2> QED
      BY <1>21, <1>n, <1>d, <1>m, <2>1, <2>2, <2>3, <2>4 DEF MapFinish, Transition, DbTypeOK, Goto
  <1> QED
    BY <1>1, <1>2, <1>3, <1>4, <1>5, <1>6, <1>7, <1>8, <1>9, <1>10, <1>11, <1>12, <1>13, <1>14, <1>15, <1>16, <1>17, <1>18, <1>19, <1>20, <1>21 DEF Work

\* The initial states are well typed.
LEMMA InitTypeOK == Init => TypeOK
  <1> SUFFICES ASSUME Init PROVE TypeOK
    OBVIOUS
  <1>1. mem \in [Deliveries -> Mem]
    BY NoMemType DEF Init
  <1>2. 0 \in 0..MaxRetries /\ 0 \in 0..MaxFaults
    BY RunnerAssumption
  <1>3. DbTypeOK
    BY DEF Init, DbTypeOK, RowStatus, LoginOutcome
  <1>4. pc \in [Deliveries -> TaskPC] /\ retries \in [Deliveries -> 0..MaxRetries]
    BY <1>2 DEF Init, TaskPC
  <1> QED
    BY <1>1, <1>2, <1>3, <1>4 DEF Init, TypeOK, DbTypeOK

\* TypeOK is an invariant: every column and every session object of run_scan
\* keeps its type, retries never pass max_retries, whatever is redelivered,
\* raised or killed.
THEOREM TypeCorrect == Spec => []TypeOK
  <1>1. Init => TypeOK
    BY InitTypeOK
  <1>2. TypeOK /\ [Next]_vars => TypeOK'
    <2> SUFFICES ASSUME TypeOK, [Next]_vars PROVE TypeOK'
      OBVIOUS
    <2>1. CASE CreateCheck \/ CreateCommit \/ DispatchFails
      BY <2>1, RunnerAssumption
      DEF CreateCheck, CreateCommit, DispatchFails, TypeOK, dbVars, envVars, taskVars, ScanState
    <2>2. ASSUME NEW d \in Deliveries, Dispatch(d) PROVE TypeOK'
      BY <2>2 DEF Dispatch, TypeOK, TaskPC, dbVars, envVars
    <2>3. ASSUME NEW d \in Deliveries, Work(d) PROVE TypeOK'
      BY <2>3, WorkType
    <2>4. ASSUME NEW d \in Deliveries, Raise(d) PROVE TypeOK'
      <3>1. TaskTypeOK'
        BY <2>4, RetryType DEF Raise
      <3>2. faults' \in 0..MaxFaults
        BY <2>4, RunnerAssumption DEF Raise, TypeOK
      <3> QED
        BY <2>4, <3>1, <3>2 DEF Raise, Retry, TypeOK, TaskTypeOK, dbVars, envVars
    <2>5. ASSUME NEW d \in Deliveries, Crash(d) PROVE TypeOK'
      <3>1. mem' \in [Deliveries -> Mem]
        BY <2>5, NoMemType DEF Crash, TypeOK
      <3>2. faults' \in 0..MaxFaults
        BY <2>5, RunnerAssumption DEF Crash, TypeOK
      <3>3. pc' \in [Deliveries -> TaskPC]
        BY <2>5 DEF Crash, TypeOK, TaskPC, EndPC
      <3> QED
        BY <2>5, <3>1, <3>2, <3>3 DEF Crash, TypeOK, dbVars, envVars
    <2>6. ASSUME NEW d \in Deliveries, NEW e \in Deliveries, Redeliver(d, e) PROVE TypeOK'
      BY <2>6 DEF Redeliver, TypeOK, TaskPC, dbVars, envVars
    <2>7. ASSUME NEW b \in BOOLEAN, SetScannable(b) PROVE TypeOK'
      BY <2>7 DEF SetScannable, TypeOK, dbVars, taskVars
    <2>8. ASSUME NEW p \in Personas, CreatePersona(p) PROVE TypeOK'
      BY <2>8 DEF CreatePersona, TypeOK, dbVars, taskVars
    <2>9. CASE UNCHANGED vars
      BY <2>9 DEF vars, dbVars, envVars, taskVars, TypeOK
    <2> QED
      BY <2>1, <2>2, <2>3, <2>4, <2>5, <2>6, <2>7, <2>8, <2>9 DEF Next
  <1> QED
    BY <1>1, <1>2, PTL DEF Spec

-----------------------------------------------------------------------------
(* What holds however often the task message is delivered.                 *)

EvidenceInv == TypeOK /\ OutcomeHasEvidence /\ MapReady

\* Nothing the evidence is made of is touched by the API, the broker, a
\* fault or a read.
LEMMA EvidenceFrame ==
    ASSUME EvidenceInv, UNCHANGED dbVars,
           \A d \in Deliveries :
              pc'[d] \in {"mapStart", "map"} =>
                 pc[d] = pc'[d] /\ mem'[d].machine = mem[d].machine
                               /\ mem'[d].surfaces = mem[d].surfaces
    PROVE  (OutcomeHasEvidence /\ MapReady)'
  BY DEF EvidenceInv, OutcomeHasEvidence, MapReady, dbVars

\* A worker's commit keeps the tasks of the other deliveries.
LEMMA OthersKept ==
    ASSUME EvidenceInv, NEW d \in Deliveries,
           \A e \in Deliveries \ {d} : pc'[e] = pc[e] /\ mem'[e] = mem[e],
           pc'[d] \in {"mapStart", "map"} =>
              mem'[d].machine = "surface_mapping" /\ Anonymous \in mem'[d].surfaces
    PROVE  MapReady'
  BY DEF EvidenceInv, MapReady

\* What a commit changes in the session's objects, and what it leaves alone.
LEMMA RememberEffect ==
    ASSUME TypeOK, NEW d \in Deliveries, NEW n \in PhaseName,
           NEW t, NEW added, Remember(d, n, t, added)
    PROVE  /\ \A e \in Deliveries \ {d} : mem'[e] = mem[e]
           /\ mem'[d].machine = t
           /\ mem'[d].notes = mem[d].notes \cup added
           /\ mem'[d].surfaces = mem[d].surfaces
  BY DEF TypeOK, Mem, Remember

\* A step moves one delivery's program counter.
LEMMA GotoEffect ==
    ASSUME TypeOK, NEW d \in Deliveries, NEW q, Goto(d, q)
    PROVE  pc'[d] = q /\ \A e \in Deliveries \ {d} : pc'[e] = pc[e]
  BY DEF TypeOK, Goto

\* _start_phase and _finish_phase write one row and no row of another phase.
LEMMA SetPhaseEffect ==
    ASSUME TypeOK, NEW d \in Deliveries, NEW n \in PhaseName, NEW s \in RowStatus,
           SetPhase(d, n, s)
    PROVE  /\ rows'[RowOf(d, n)][n] = s
           /\ \A e \in Deliveries, m \in PhaseName : m # n => rows'[e][m] = rows[e][m]
  BY RowOfType DEF TypeOK, SetPhase

\* Starting a phase writes no row of another phase.
LEMMA StartPhaseEffect ==
    ASSUME TypeOK, NEW d \in Deliveries, NEW n \in PhaseName, StartPhase(d, n)
    PROVE  \A e \in Deliveries, m \in PhaseName : m # n => rows'[e][m] = rows[e][m]
  <1>1. CASE SetPhase(d, n, "running")
    BY <1>1, SetPhaseEffect DEF RowStatus
  <1>2. CASE UNCHANGED rows
    BY <1>2
  <1> QED
    BY <1>1, <1>2 DEF StartPhase

\* The constants the commits of run_scan use are of the right kinds.
LEMMA PhaseNames ==
    /\ "scope_verifying" \in PhaseName /\ "recon" \in PhaseName
    /\ "auth_establishing" \in PhaseName /\ "crawling" \in PhaseName
    /\ "surface_mapping" \in PhaseName
    /\ "running" \in RowStatus /\ "completed" \in RowStatus
    /\ "failed" \in RowStatus /\ "skipped" \in RowStatus
  BY DEF PhaseName, RowStatus

\* A worker's step keeps the evidence.
LEMMA WorkEvidence ==
    ASSUME EvidenceInv, NEW d \in Deliveries, Work(d)
    PROVE  (OutcomeHasEvidence /\ MapReady)'
  <1>t. TypeOK
    BY DEF EvidenceInv
  <1>r. pc[d] \in {"mapStart", "map"} =>
          mem[d].machine = "surface_mapping" /\ Anonymous \in mem[d].surfaces
    BY DEF EvidenceInv, MapReady
  <1>1. CASE Receive(d)
    BY <1>1, <1>t, EvidenceFrame DEF Receive, PastScope, TypeOK
  <1>2. CASE InvalidTransition(d)
    BY <1>2, <1>t, EvidenceFrame DEF InvalidTransition, Retry, PastScope, RunPC, TypeOK
  <1>3. CASE LoadScan(d)
    BY <1>3, <1>t, EvidenceFrame DEF LoadScan, Goto, PastScope, TypeOK
  <1>4. CASE LoadPhases(d)
    BY <1>4, <1>t, EvidenceFrame DEF LoadPhases, Goto, PastScope, TypeOK
  <1>5. CASE LoadTarget(d)
    BY <1>5, <1>t, EvidenceFrame DEF LoadTarget, Goto, PastScope, TypeOK
  <1>6. CASE Setup(d)
    BY <1>6, <1>t, EvidenceFrame DEF Setup, Goto, PastScope, RunPC, TypeOK, Mem
  <1>7. CASE \E p \in Personas, o \in LoginOutcome \ {"untried"} : Login(d, p, o)
    BY <1>7, <1>t, EvidenceFrame DEF Login, Goto, PastScope, RunPC, TypeOK, Mem
  <1>8. CASE \E who \in Identity : Crawl(d, who)
    BY <1>8, <1>t, EvidenceFrame DEF Crawl, Goto, PastScope, RunPC, TypeOK, Mem
  <1>9. CASE ScopePassed(d)
    <2>1. /\ mem'[d].surfaces = mem[d].surfaces
          /\ \A e \in Deliveries \ {d} : mem'[e] = mem[e]
      BY <1>9, <1>t, PhaseNames, RememberEffect DEF ScopePassed
    <2>2. pc'[d] \in {"mapStart", "map"} =>
            mem'[d].machine = "surface_mapping" /\ Anonymous \in mem'[d].surfaces
      BY <1>9, <1>t, <1>r, <2>1, PhaseNames, RememberEffect, GotoEffect DEF ScopePassed
    <2>3. MapReady'
      BY <1>9, <1>t, <2>1, <2>2, OthersKept, GotoEffect DEF ScopePassed, PastScope, RunPC
    <2>4. OutcomeHasEvidence'
      BY <1>9, <1>t, PhaseNames, SetPhaseEffect
      DEF ScopePassed, Transition, EvidenceInv, OutcomeHasEvidence
    <2> QED
      BY <2>3, <2>4
  <1>10. CASE ReconStart(d)
    <2>1. /\ mem'[d].surfaces = mem[d].surfaces
          /\ \A e \in Deliveries \ {d} : mem'[e] = mem[e]
      BY <1>10, <1>t, PhaseNames, RememberEffect DEF ReconStart
    <2>2. pc'[d] \in {"mapStart", "map"} =>
            mem'[d].machine = "surface_mapping" /\ Anonymous \in mem'[d].surfaces
      BY <1>10, <1>t, <1>r, <2>1, PhaseNames, RememberEffect, GotoEffect DEF ReconStart
    <2>3. MapReady'
      BY <1>10, <1>t, <2>1, <2>2, OthersKept, GotoEffect DEF ReconStart, PastScope, RunPC
    <2>4. OutcomeHasEvidence'
      BY <1>10, <1>t, PhaseNames, StartPhaseEffect
      DEF ReconStart, Transition, EvidenceInv, OutcomeHasEvidence
    <2> QED
      BY <2>3, <2>4
  <1>11. CASE AuthStart(d)
    <2>1. /\ mem'[d].surfaces = mem[d].surfaces
          /\ \A e \in Deliveries \ {d} : mem'[e] = mem[e]
      BY <1>11, <1>t, PhaseNames, RememberEffect DEF AuthStart
    <2>2. pc'[d] \in {"mapStart", "map"} =>
            mem'[d].machine = "surface_mapping" /\ Anonymous \in mem'[d].surfaces
      BY <1>11, <1>t, <1>r, <2>1, PhaseNames, RememberEffect, GotoEffect DEF AuthStart
    <2>3. MapReady'
      BY <1>11, <1>t, <2>1, <2>2, OthersKept, GotoEffect DEF AuthStart, PastScope, RunPC
    <2>4. OutcomeHasEvidence'
      BY <1>11, <1>t, PhaseNames, StartPhaseEffect
      DEF AuthStart, Transition, EvidenceInv, OutcomeHasEvidence
    <2> QED
      BY <2>3, <2>4
  <1>12. CASE CrawlStart(d)
    <2>1. /\ mem'[d].surfaces = mem[d].surfaces
          /\ \A e \in Deliveries \ {d} : mem'[e] = mem[e]
      BY <1>12, <1>t, PhaseNames, RememberEffect DEF CrawlStart
    <2>2. pc'[d] \in {"mapStart", "map"} =>
            mem'[d].machine = "surface_mapping" /\ Anonymous \in mem'[d].surfaces
      BY <1>12, <1>t, <1>r, <2>1, PhaseNames, RememberEffect, GotoEffect DEF CrawlStart
    <2>3. MapReady'
      BY <1>12, <1>t, <2>1, <2>2, OthersKept, GotoEffect DEF CrawlStart, PastScope, RunPC
    <2>4. OutcomeHasEvidence'
      BY <1>12, <1>t, PhaseNames, StartPhaseEffect
      DEF CrawlStart, EvidenceInv, OutcomeHasEvidence
    <2> QED
      BY <2>3, <2>4
  <1>13. CASE CrawlFinish(d)
    <2>1. /\ mem'[d].surfaces = mem[d].surfaces
          /\ \A e \in Deliveries \ {d} : mem'[e] = mem[e]
      BY <1>13, <1>t, PhaseNames, RememberEffect DEF CrawlFinish
    <2>2. pc'[d] \in {"mapStart", "map"} =>
            mem'[d].machine = "surface_mapping" /\ Anonymous \in mem'[d].surfaces
      BY <1>13, <1>t, <1>r, <2>1, PhaseNames, RememberEffect, GotoEffect DEF CrawlFinish
    <2>3. MapReady'
      BY <1>13, <1>t, <2>1, <2>2, OthersKept, GotoEffect DEF CrawlFinish, PastScope, RunPC
    <2>4. OutcomeHasEvidence'
      BY <1>13, <1>t, PhaseNames, SetPhaseEffect
      DEF CrawlFinish, Transition, EvidenceInv, OutcomeHasEvidence
    <2> QED
      BY <2>3, <2>4
  <1>14. CASE MapStart(d)
    <2>1. /\ mem'[d].surfaces = mem[d].surfaces
          /\ \A e \in Deliveries \ {d} : mem'[e] = mem[e]
      BY <1>14, <1>t, PhaseNames, RememberEffect DEF MapStart
    <2>2. pc'[d] \in {"mapStart", "map"} =>
            mem'[d].machine = "surface_mapping" /\ Anonymous \in mem'[d].surfaces
      BY <1>14, <1>t, <1>r, <2>1, PhaseNames, RememberEffect, GotoEffect DEF MapStart
    <2>3. MapReady'
      BY <1>14, <1>t, <2>1, <2>2, OthersKept, GotoEffect DEF MapStart, PastScope, RunPC
    <2>4. OutcomeHasEvidence'
      BY <1>14, <1>t, PhaseNames, StartPhaseEffect
      DEF MapStart, EvidenceInv, OutcomeHasEvidence
    <2> QED
      BY <2>3, <2>4
  <1>15. CASE \E added \in {{}, {"recon"}} : ReconFinish(d, added)
    <2> PICK added \in {{}, {"recon"}} : ReconFinish(d, added)
      BY <1>15
    <2>1. \A e \in Deliveries \ {d} : mem'[e] = mem[e]
      BY <1>t, PhaseNames, RememberEffect DEF ReconFinish
    <2>3. MapReady'
      BY <1>t, <2>1, OthersKept, GotoEffect DEF ReconFinish, PastScope, RunPC
    <2>4. OutcomeHasEvidence'
      BY <1>t, PhaseNames, SetPhaseEffect
      DEF ReconFinish, EvidenceInv, OutcomeHasEvidence
    <2> QED
      BY <2>3, <2>4
  <1>16. CASE AuthSkipped(d) \/ AuthAnonymous(d) \/ AuthEstablished(d)
    <2>1. PICK st, added : AuthFinish(d, st, added) /\ pc[d] = "auth" /\ st \in RowStatus
      BY <1>16, PhaseNames DEF AuthSkipped, AuthAnonymous, AuthEstablished
    <2>2. \A e \in Deliveries \ {d} : mem'[e] = mem[e]
      BY <1>t, <2>1, PhaseNames, RememberEffect DEF AuthFinish
    <2>3. MapReady'
      BY <1>t, <2>1, <2>2, OthersKept, GotoEffect DEF AuthFinish, PastScope, RunPC
    <2>4. OutcomeHasEvidence'
      BY <1>t, <2>1, PhaseNames, SetPhaseEffect
      DEF AuthFinish, Transition, EvidenceInv, OutcomeHasEvidence
    <2> QED
      BY <2>3, <2>4
  <1>17. CASE ScopeBlocked(d)
    <2>1. \A e \in Deliveries \ {d} : pc'[e] = pc[e] /\ mem'[e] = mem[e]
      BY <1>17, <1>t, GotoEffect DEF ScopeBlocked, TypeOK
    <2>2. pc'[d] = "done"
      BY <1>17, <1>t, GotoEffect DEF ScopeBlocked
    <2>3. MapReady'
      BY <2>1, <2>2, OthersKept DEF PastScope, RunPC
    <2>4. OutcomeHasEvidence'
      BY <1>17, <1>t, <1>r, PhaseNames, SetPhaseEffect, RowOfType
      DEF ScopeBlocked, EvidenceInv, OutcomeHasEvidence
    <2> QED
      BY <2>3, <2>4
  <1>18. CASE AuthFailed(d)
    <2>1. \A e \in Deliveries \ {d} : pc'[e] = pc[e] /\ mem'[e] = mem[e]
      BY <1>18, <1>t, GotoEffect DEF AuthFailed, TypeOK
    <2>2. pc'[d] = "done"
      BY <1>18, <1>t, GotoEffect DEF AuthFailed
    <2>3. MapReady'
      BY <2>1, <2>2, OthersKept DEF PastScope, RunPC
    <2>4. OutcomeHasEvidence'
      BY <1>18, <1>t, <1>r, PhaseNames, SetPhaseEffect, RowOfType
      DEF AuthFailed, Transition, EvidenceInv, OutcomeHasEvidence
    <2> QED
      BY <2>3, <2>4
  <1>19. CASE MapFinish(d)
    <2>1. \A e \in Deliveries \ {d} : pc'[e] = pc[e] /\ mem'[e] = mem[e]
      BY <1>19, <1>t, GotoEffect DEF MapFinish, TypeOK
    <2>2. pc'[d] = "done"
      BY <1>19, <1>t, GotoEffect DEF MapFinish
    <2>3. MapReady'
      BY <2>1, <2>2, OthersKept DEF PastScope, RunPC
    <2>4. OutcomeHasEvidence'
      BY <1>19, <1>t, <1>r, PhaseNames, SetPhaseEffect, RowOfType
      DEF MapFinish, Transition, EvidenceInv, OutcomeHasEvidence
    <2> QED
      BY <2>3, <2>4
  <1> QED
    BY <1>1, <1>2, <1>3, <1>4, <1>5, <1>6, <1>7, <1>8, <1>9, <1>10, <1>11, <1>12, <1>13, <1>14, <1>15, <1>16, <1>17, <1>18, <1>19 DEF Work

\* The steps that are no worker's keep the evidence: none writes the rows it
\* is made of, except the insertion of the QUEUED row.
LEMMA OtherStepsEvidence ==
    ASSUME EvidenceInv, [Next]_vars, \A d \in Deliveries : ~Work(d)
    PROVE  (OutcomeHasEvidence /\ MapReady)'
  <1>t. TypeOK
    BY DEF EvidenceInv
  <1>1. CASE CreateCheck \/ DispatchFails
    BY <1>1, EvidenceFrame DEF CreateCheck, DispatchFails, taskVars
  <1>2. CASE CreateCommit
    BY <1>2 DEF CreateCommit, taskVars, EvidenceInv, OutcomeHasEvidence, MapReady
  <1>3. ASSUME NEW d \in Deliveries, Dispatch(d) PROVE (OutcomeHasEvidence /\ MapReady)'
    BY <1>3, <1>t, EvidenceFrame DEF Dispatch, PastScope, RunPC, TypeOK
  <1>4. ASSUME NEW d \in Deliveries, Raise(d) PROVE (OutcomeHasEvidence /\ MapReady)'
    BY <1>4, <1>t, EvidenceFrame DEF Raise, Retry, PastScope, RunPC, TypeOK
  <1>5. ASSUME NEW d \in Deliveries, Crash(d) PROVE (OutcomeHasEvidence /\ MapReady)'
    BY <1>5, <1>t, EvidenceFrame DEF Crash, PastScope, RunPC, TypeOK
  <1>6. ASSUME NEW d \in Deliveries, NEW e \in Deliveries, Redeliver(d, e)
        PROVE  (OutcomeHasEvidence /\ MapReady)'
    BY <1>6, <1>t, EvidenceFrame DEF Redeliver, PastScope, RunPC, TypeOK
  <1>7. CASE \E b \in BOOLEAN : SetScannable(b)
    BY <1>7, EvidenceFrame DEF SetScannable, taskVars
  <1>8. CASE \E p \in Personas : CreatePersona(p)
    BY <1>8, EvidenceFrame DEF CreatePersona, taskVars
  <1>9. CASE UNCHANGED vars
    BY <1>9, EvidenceFrame DEF vars, taskVars
  <1> QED
    BY <1>1, <1>2, <1>3, <1>4, <1>5, <1>6, <1>7, <1>8, <1>9 DEF Next

\* The inductive invariant behind the theorem below.
THEOREM EvidenceInvariant == Spec => []EvidenceInv
  <1>1. Init => EvidenceInv
    <2> SUFFICES ASSUME Init PROVE OutcomeHasEvidence /\ MapReady /\ TypeOK
      BY DEF EvidenceInv
    <2>1. TypeOK
      BY InitTypeOK
    <2>2. OutcomeHasEvidence /\ MapReady
      BY DEF Init, OutcomeHasEvidence, MapReady, PastScope, RunPC, NoState
    <2> QED
      BY <2>1, <2>2
  <1>2. EvidenceInv /\ TypeOK' /\ [Next]_vars => EvidenceInv'
    BY WorkEvidence, OtherStepsEvidence DEF EvidenceInv
  <1> QED
    BY <1>1, <1>2, TypeCorrect, PTL DEF Spec

\* However often the broker delivers the message of one scan, and whatever
\* fails, BLOCKED_UNVERIFIED, FAILED_AUTH and PAUSED are only ever seen with
\* the failed phase row or the crawled surface that justifies them.
THEOREM OutcomesEvidenced == Spec => []OutcomeHasEvidence
  <1>1. EvidenceInv => OutcomeHasEvidence
    BY DEF EvidenceInv
  <1> QED
    BY <1>1, EvidenceInvariant, PTL

-----------------------------------------------------------------------------
(* A withdrawal of the verification before the target is read.             *)

\* Nothing was sent, and no worker is about to: those that have read the
\* target found it withdrawn.
Quiet ==
    /\ Untouched
    /\ \A d \in Deliveries : pc[d] \notin PastScope /\ (pc[d] = "scope" => ~mem[d].gate)

\* A step that writes no row and lets no worker past the gate.
LEMMA QuietFrame ==
    ASSUME Quiet, UNCHANGED dbVars,
           \A d \in Deliveries :
              /\ pc'[d] \notin PastScope
              /\ pc'[d] = "scope" => pc[d] = "scope" /\ mem'[d] = mem[d]
    PROVE  Quiet'
  BY DEF Quiet, Untouched, dbVars

\* A worker's step, while the verification is withdrawn.
LEMMA WorkQuiet ==
    ASSUME TypeOK, Quiet, ~scannable, NEW d \in Deliveries, Work(d)
    PROVE  Quiet'
  <1>q. pc[d] \notin PastScope /\ (pc[d] = "scope" => ~mem[d].gate)
    BY DEF Quiet
  <1>o. \A e \in Deliveries : pc[e] \notin PastScope
    BY DEF Quiet
  <1>1. CASE Receive(d)
    BY <1>1, <1>o, QuietFrame DEF Receive, PastScope, RunPC, TypeOK
  <1>2. CASE InvalidTransition(d)
    BY <1>2, <1>o, QuietFrame DEF InvalidTransition, Retry, PastScope, RunPC, TypeOK
  <1>3. CASE LoadScan(d) \/ LoadPhases(d)
    BY <1>3, <1>o, QuietFrame DEF LoadScan, LoadPhases, Goto, PastScope, RunPC, TypeOK
  <1>4. CASE LoadTarget(d)
    <2>1. /\ pc'[d] = "scope" /\ \A e \in Deliveries \ {d} : pc'[e] = pc[e] /\ mem'[e] = mem[e]
          /\ UNCHANGED dbVars
      BY <1>4, GotoEffect DEF LoadTarget, TypeOK
    <2>2. ~mem'[d].gate
      BY <1>4 DEF LoadTarget, TypeOK, Mem
    <2> QED
      BY <2>1, <2>2 DEF Quiet, Untouched, dbVars, PastScope
  <1>5. CASE ScopeBlocked(d)
    <2>1. pc'[d] = "done" /\ \A e \in Deliveries \ {d} : pc'[e] = pc[e] /\ mem'[e] = mem[e]
      BY <1>5, GotoEffect DEF ScopeBlocked, TypeOK
    <2>2. /\ scanState' = "blocked_unverified" /\ UNCHANGED <<session, endpoints, reasons>>
          /\ \A e \in Deliveries, m \in PhaseName \ {"scope_verifying"} : rows'[e][m] = rows[e][m]
      BY <1>5, PhaseNames, SetPhaseEffect DEF ScopeBlocked
    <2>3. Untouched'
      BY <2>2 DEF Quiet, Untouched
    <2> QED
      BY <2>1, <2>3 DEF Quiet, PastScope, RunPC
  <1>6. CASE ScopePassed(d)
    BY <1>6, <1>q DEF ScopePassed
  <1>7. CASE \/ ReconStart(d) \/ (\E added \in {{}, {"recon"}} : ReconFinish(d, added))
            \/ Setup(d) \/ AuthStart(d)
            \/ (\E p \in Personas, o \in LoginOutcome \ {"untried"} : Login(d, p, o))
            \/ AuthSkipped(d) \/ AuthAnonymous(d) \/ AuthEstablished(d) \/ AuthFailed(d)
            \/ CrawlStart(d) \/ (\E who \in Identity : Crawl(d, who)) \/ CrawlFinish(d)
            \/ MapStart(d) \/ MapFinish(d)
    <2>1. pc[d] \in PastScope
      BY <1>7 DEF ReconStart, ReconFinish, Setup, AuthStart, Login, AuthSkipped, AuthAnonymous,
                  AuthEstablished, AuthFailed, CrawlStart, Crawl, CrawlFinish, MapStart,
                  MapFinish, PastScope, RunPC
    <2> QED
      BY <1>q, <2>1
  <1> QED
    BY <1>1, <1>2, <1>3, <1>4, <1>5, <1>6, <1>7 DEF Work

\* Any step, while the verification is withdrawn.
LEMMA QuietStep == TypeOK /\ Quiet /\ ~scannable /\ [Next]_vars => Quiet'
  <1> SUFFICES ASSUME TypeOK, Quiet, ~scannable, [Next]_vars PROVE Quiet'
    OBVIOUS
  <1>o. \A e \in Deliveries : pc[e] \notin PastScope
    BY DEF Quiet
  <1>1. ASSUME NEW d \in Deliveries, Work(d) PROVE Quiet'
    BY <1>1, WorkQuiet
  <1>2. CASE CreateCheck \/ DispatchFails
    BY <1>2, <1>o, QuietFrame DEF CreateCheck, DispatchFails, taskVars
  <1>3. CASE CreateCommit
    BY <1>3 DEF CreateCommit, taskVars, Quiet, Untouched
  <1>4. ASSUME NEW d \in Deliveries, Dispatch(d) PROVE Quiet'
    BY <1>4, <1>o, QuietFrame DEF Dispatch, PastScope, RunPC, TypeOK
  <1>5. ASSUME NEW d \in Deliveries, Raise(d) \/ Crash(d) PROVE Quiet'
    BY <1>5, <1>o, QuietFrame DEF Raise, Retry, Crash, PastScope, RunPC, TypeOK
  <1>6. ASSUME NEW d \in Deliveries, NEW e \in Deliveries, Redeliver(d, e) PROVE Quiet'
    BY <1>6, <1>o, QuietFrame DEF Redeliver, PastScope, RunPC, TypeOK
  <1>7. CASE (\E b \in BOOLEAN : SetScannable(b)) \/ (\E p \in Personas : CreatePersona(p))
    BY <1>7, <1>o, QuietFrame DEF SetScannable, CreatePersona, taskVars
  <1>8. CASE UNCHANGED vars
    BY <1>8, <1>o, QuietFrame DEF vars, taskVars
  <1> QED
    BY <1>1, <1>2, <1>3, <1>4, <1>5, <1>6, <1>7, <1>8 DEF Next

\* However often the message of a scan is delivered or retried: once the
\* verification is withdrawn before the target is read, and stays withdrawn,
\* no phase beyond the gate runs, nobody is logged in and nothing is crawled.
THEOREM WithdrawalAlwaysHeeded == Spec => WithdrawalHeeded
  <1>1. Untouched /\ TargetUnread => Quiet
    BY DEF Quiet, TargetUnread
  <1>2. Quiet => Untouched
    BY DEF Quiet
  <1> QED
    BY <1>1, <1>2, QuietStep, TypeCorrect, PTL DEF Spec, WithdrawalHeeded

-----------------------------------------------------------------------------
(* A single delivery, retried and interrupted any number of times.         *)

RunnerInv == TypeOK /\ RowsTellTheState /\ WorkerPosition

\* SCOPE_VERIFYING is entered from QUEUED and from nowhere else: this is what
\* turns every retry after the first commit into an InvalidTransition.
LEMMA OnlyFromQueued ==
    ASSUME NEW s \in ScanState \cup {NoState}, CanTransition(s, "scope_verifying")
    PROVE  s = "queued"
  BY DEF CanTransition, LinearTransitions, ScanState, NoState

\* With a single delivery _get_or_create_phase finds its own row, so the write
\* lands there.
LEMMA SingleSetPhase ==
    ASSUME SingleDelivery, TypeOK, NEW d \in Deliveries, NEW n \in PhaseName,
           NEW s \in RowStatus, SetPhase(d, n, s)
    PROVE  rows'[d][n] = s /\ \A m \in PhaseName : m # n => rows'[d][m] = rows[d][m]
  <1>1. RowOf(d, n) = d
    BY RowOfType DEF SingleDelivery
  <1> QED
    BY <1>1, SetPhaseEffect

\* A single delivery starts its phases itself.
LEMMA SingleStartPhase ==
    ASSUME SingleDelivery, TypeOK, NEW d \in Deliveries, NEW n \in PhaseName,
           StartPhase(d, n)
    PROVE  rows'[d][n] = "running" /\ \A m \in PhaseName : m # n => rows'[d][m] = rows[d][m]
  <1>1. mem[d].view[n] \in {NoRow, d}
    BY DEF SingleDelivery, TypeOK, Mem
  <1> QED
    BY <1>1, SingleSetPhase DEF StartPhase, RowStatus

\* A commit without notes keeps the notes.
LEMMA RememberNoNotes ==
    ASSUME TypeOK, NEW d \in Deliveries, NEW n \in PhaseName, NEW t, Remember(d, n, t, {})
    PROVE  mem'[d].notes = mem[d].notes
  <1>1. mem'[d].notes = mem[d].notes \cup {}
    BY RememberEffect
  <1> QED
    BY <1>1

\* A worker's step keeps the invariant.
LEMMA SingleWork ==
    ASSUME SingleDelivery, RunnerInv, NEW d \in Deliveries, Work(d)
    PROVE  (RowsTellTheState /\ WorkerPosition)'
  <1>t. TypeOK
    BY DEF RunnerInv
  <1>r. RowsAt(d) /\ PositionAt(d)
    BY DEF RunnerInv, RowsTellTheState, WorkerPosition
  <1>0. SUFFICES RowsAt(d)' /\ PositionAt(d)'
    BY DEF SingleDelivery, RowsTellTheState, WorkerPosition
  <1>1. CASE Receive(d)
    <2>1. RowsAt(d)'
      BY <1>1, <1>r DEF Receive, RowsAt, Phases, None, Ok, AuthOk, NoState, dbVars
    <2>2. PositionAt(d)'
      BY <1>1, <1>t, <1>r DEF Receive, PositionAt, AtPC, RunPC, TypeOK, Mem, dbVars, NoMem
    <2> QED
      BY <2>1, <2>2
  <1>2. CASE InvalidTransition(d)
    <2>1. RowsAt(d)'
      BY <1>2, <1>r DEF InvalidTransition, Retry, RowsAt, Phases, None, Ok, AuthOk, NoState, dbVars
    <2>2. pc[d] \in RunPC /\ pc'[d] \in {"queued", "failed"}
      BY <1>2, <1>t DEF InvalidTransition, Retry, Goal, RunPC, TypeOK
    <2>3. PositionAt(d)'
      BY <1>2, <1>r, <2>2 DEF InvalidTransition, Retry, PositionAt, AtPC, RunPC, dbVars
    <2> QED
      BY <2>1, <2>3
  <1>3. CASE LoadScan(d)
    <2>1. RowsAt(d)'
      BY <1>3, <1>r DEF LoadScan, Goto, RowsAt, Phases, None, Ok, AuthOk, NoState, dbVars
    <2>2. PositionAt(d)'
      BY <1>3, <1>t, <1>r DEF LoadScan, Goto, PositionAt, AtPC, RunPC, TypeOK, Mem, dbVars, NoMem
    <2> QED
      BY <2>1, <2>2
  <1>4. CASE LoadPhases(d)
    <2>1. RowsAt(d)'
      BY <1>4, <1>r DEF LoadPhases, Goto, RowsAt, Phases, None, Ok, AuthOk, NoState, dbVars
    <2>2. PositionAt(d)'
      BY <1>4, <1>t, <1>r DEF LoadPhases, Goto, PositionAt, AtPC, RunPC, TypeOK, Mem, dbVars, NoMem
    <2> QED
      BY <2>1, <2>2
  <1>5. CASE LoadTarget(d)
    <2>1. RowsAt(d)'
      BY <1>5, <1>r DEF LoadTarget, Goto, RowsAt, Phases, None, Ok, AuthOk, NoState, dbVars
    <2>2. PositionAt(d)'
      BY <1>5, <1>t, <1>r DEF LoadTarget, Goto, PositionAt, AtPC, RunPC, TypeOK, Mem, dbVars, NoMem
    <2> QED
      BY <2>1, <2>2
  <1>6. CASE Setup(d)
    <2>1. RowsAt(d)'
      BY <1>6, <1>r DEF Setup, Goto, RowsAt, Phases, None, Ok, AuthOk, NoState, dbVars
    <2>2. PositionAt(d)'
      BY <1>6, <1>t, <1>r DEF Setup, Goto, PositionAt, AtPC, RunPC, TypeOK, Mem, dbVars, NoMem
    <2> QED
      BY <2>1, <2>2
  <1>7. CASE \E p \in Personas, o \in LoginOutcome \ {"untried"} : Login(d, p, o)
    <2>1. RowsAt(d)'
      BY <1>7, <1>r DEF Login, Goto, RowsAt, Phases, None, Ok, AuthOk, NoState, dbVars
    <2>2. PositionAt(d)'
      BY <1>7, <1>t, <1>r DEF Login, Goto, PositionAt, AtPC, RunPC, TypeOK, Mem, dbVars, NoMem
    <2> QED
      BY <2>1, <2>2
  <1>8. CASE \E who \in Identity : Crawl(d, who)
    <2>1. RowsAt(d)'
      BY <1>8, <1>r DEF Crawl, Goto, RowsAt, Phases, None, Ok, AuthOk, NoState, dbVars
    <2>2. PositionAt(d)'
      BY <1>8, <1>t, <1>r DEF Crawl, Goto, PositionAt, AtPC, RunPC, TypeOK, Mem, dbVars, NoMem
    <2> QED
      BY <2>1, <2>2
  <1>9. CASE ScopePassed(d)
    <2>0. pc[d] = "scope" /\ mem[d].machine = scanState /\ mem[d].notes = reasons
      BY <1>9, <1>r DEF ScopePassed, PositionAt, RunPC
    <2>1. /\ rows'[d]["scope_verifying"] = "completed"
          /\ \A m \in PhaseName : m # "scope_verifying" => rows'[d][m] = rows[d][m]
      BY <1>9, <1>t, PhaseNames, SingleSetPhase DEF ScopePassed
    <2>2. scanState' = "scope_verifying" /\ mem'[d].machine = "scope_verifying" /\ pc'[d] = "reconStart"
      BY <1>9, <1>t, <1>r, <2>0, PhaseNames, RememberEffect, GotoEffect DEF ScopePassed, Transition, PositionAt, AtPC
    <2>4. mem'[d].notes = reasons'
      BY <1>9, <1>t, <2>0, PhaseNames, RememberNoNotes DEF ScopePassed
    <2>3. scanState = "queued"
      BY <1>9, <1>t, <1>r, OnlyFromQueued DEF ScopePassed, Transition, PositionAt, RunPC, TypeOK
    <2>5. RowsAt(d)'
      BY <1>r, <2>0, <2>1, <2>2, PhaseNames, <2>3 DEF RowsAt, Phases, None, Ok, AuthOk, NoState, PositionAt, AtPC
    <2>6. api' = api /\ api \notin {"idle", "checked", "refused", "committed"}
      BY <1>9, <1>r, <2>0 DEF ScopePassed, Goto, PositionAt
    <2>8. PositionAt(d)'
      BY <1>r, <2>0, <2>1, <2>2, <2>4, <2>6, PhaseNames, <2>3 DEF PositionAt, AtPC, RowsAt, Phases, None, Ok, AuthOk, NoState
    <2> QED
      BY <2>5, <2>8
  <1>10. CASE ReconStart(d)
    <2>0. pc[d] = "reconStart" /\ mem[d].machine = scanState /\ mem[d].notes = reasons
      BY <1>10, <1>r DEF ReconStart, PositionAt, RunPC
    <2>1. /\ rows'[d]["recon"] = "running"
          /\ \A m \in PhaseName : m # "recon" => rows'[d][m] = rows[d][m]
      BY <1>10, <1>t, PhaseNames, SingleStartPhase DEF ReconStart
    <2>2. scanState' = "recon" /\ mem'[d].machine = "recon" /\ pc'[d] = "recon"
      BY <1>10, <1>t, <1>r, <2>0, PhaseNames, RememberEffect, GotoEffect DEF ReconStart, Transition, PositionAt, AtPC
    <2>3. mem'[d].notes = reasons'
      BY <1>10, <1>t, <2>0, PhaseNames, RememberNoNotes DEF ReconStart
    <2>5. scanState = "scope_verifying"
      BY <1>r, <2>0 DEF PositionAt, AtPC
    <2>4. RowsAt(d)'
      BY <1>r, <2>0, <2>1, <2>2, PhaseNames, <2>5 DEF RowsAt, Phases, None, Ok, AuthOk, NoState, PositionAt, AtPC
    <2>6. api' = api /\ api \notin {"idle", "checked", "refused", "committed"}
      BY <1>10, <1>r, <2>0 DEF ReconStart, Goto, PositionAt
    <2>8. PositionAt(d)'
      BY <1>r, <2>0, <2>1, <2>2, <2>3, <2>6, PhaseNames, <2>5 DEF PositionAt, AtPC, RowsAt, Phases, None, Ok, AuthOk, NoState
    <2> QED
      BY <2>4, <2>8
  <1>11. CASE \E added \in {{}, {"recon"}} : ReconFinish(d, added)
    <2> PICK added \in {{}, {"recon"}} : ReconFinish(d, added)
      BY <1>11
    <2>0. pc[d] = "recon" /\ mem[d].machine = scanState /\ mem[d].notes = reasons
      BY <1>r DEF ReconFinish, PositionAt, RunPC
    <2>1. /\ rows'[d]["recon"] = "completed"
          /\ \A m \in PhaseName : m # "recon" => rows'[d][m] = rows[d][m]
      BY <1>t, PhaseNames, SingleSetPhase DEF ReconFinish
    <2>2. scanState' = "recon" /\ mem'[d].machine = "recon" /\ pc'[d] = "setup"
      BY <1>t, <1>r, <2>0, PhaseNames, RememberEffect, GotoEffect DEF ReconFinish, PositionAt, AtPC
    <2>3. mem'[d].notes = reasons'
      <3>1. mem'[d].notes = mem[d].notes \cup added
        BY <1>t, PhaseNames, RememberEffect DEF ReconFinish
      <3>2. CASE added = {}
        BY <2>0, <3>1, <3>2 DEF ReconFinish, WriteNotes
      <3>3. CASE added # {}
        BY <3>1, <3>3 DEF ReconFinish, WriteNotes
      <3> QED
        BY <3>2, <3>3
    <2>5. scanState = "recon"
      BY <1>r, <2>0 DEF PositionAt, AtPC
    <2>4. RowsAt(d)'
      BY <1>r, <2>0, <2>1, <2>2, PhaseNames, <2>5 DEF RowsAt, Phases, None, Ok, AuthOk, NoState, PositionAt, AtPC
    <2>6. api' = api /\ api \notin {"idle", "checked", "refused", "committed"}
      BY <1>r, <2>0 DEF ReconFinish, Goto, PositionAt
    <2>8. PositionAt(d)'
      BY <1>r, <2>0, <2>1, <2>2, <2>3, <2>6, PhaseNames, <2>5 DEF PositionAt, AtPC, RowsAt, Phases, None, Ok, AuthOk, NoState
    <2> QED
      BY <2>4, <2>8
  <1>12. CASE AuthStart(d)
    <2>0. pc[d] = "authStart" /\ mem[d].machine = scanState /\ mem[d].notes = reasons
      BY <1>12, <1>r DEF AuthStart, PositionAt, RunPC
    <2>1. /\ rows'[d]["auth_establishing"] = "running"
          /\ \A m \in PhaseName : m # "auth_establishing" => rows'[d][m] = rows[d][m]
      BY <1>12, <1>t, PhaseNames, SingleStartPhase DEF AuthStart
    <2>2. scanState' = "auth_establishing" /\ mem'[d].machine = "auth_establishing" /\ pc'[d] = "auth"
      BY <1>12, <1>t, <1>r, <2>0, PhaseNames, RememberEffect, GotoEffect DEF AuthStart, Transition, PositionAt, AtPC
    <2>3. mem'[d].notes = reasons'
      BY <1>12, <1>t, <2>0, PhaseNames, RememberNoNotes DEF AuthStart
    <2>5. scanState = "recon"
      BY <1>r, <2>0 DEF PositionAt, AtPC
    <2>4. RowsAt(d)'
      BY <1>r, <2>0, <2>1, <2>2, PhaseNames, <2>5 DEF RowsAt, Phases, None, Ok, AuthOk, NoState, PositionAt, AtPC
    <2>6. api' = api /\ api \notin {"idle", "checked", "refused", "committed"}
      BY <1>12, <1>r, <2>0 DEF AuthStart, Goto, PositionAt
    <2>8. PositionAt(d)'
      BY <1>r, <2>0, <2>1, <2>2, <2>3, <2>6, PhaseNames, <2>5 DEF PositionAt, AtPC, RowsAt, Phases, None, Ok, AuthOk, NoState
    <2> QED
      BY <2>4, <2>8
  <1>13. CASE CrawlStart(d)
    <2>0. pc[d] = "crawlStart" /\ mem[d].machine = scanState /\ mem[d].notes = reasons
      BY <1>13, <1>r DEF CrawlStart, PositionAt, RunPC
    <2>1. /\ rows'[d]["crawling"] = "running"
          /\ \A m \in PhaseName : m # "crawling" => rows'[d][m] = rows[d][m]
      BY <1>13, <1>t, PhaseNames, SingleStartPhase DEF CrawlStart
    <2>2. scanState' = "crawling" /\ mem'[d].machine = "crawling" /\ pc'[d] = "crawl"
      BY <1>13, <1>t, <1>r, <2>0, PhaseNames, RememberEffect, GotoEffect DEF CrawlStart, PositionAt, AtPC
    <2>3. mem'[d].notes = reasons'
      BY <1>13, <1>t, <2>0, PhaseNames, RememberNoNotes DEF CrawlStart
    <2>5. scanState = "crawling"
      BY <1>r, <2>0 DEF PositionAt, AtPC
    <2>4. RowsAt(d)'
      BY <1>r, <2>0, <2>1, <2>2, PhaseNames, <2>5 DEF RowsAt, Phases, None, Ok, AuthOk, NoState, PositionAt, AtPC
    <2>6. api' = api /\ api \notin {"idle", "checked", "refused", "committed"}
      BY <1>13, <1>r, <2>0 DEF CrawlStart, Goto, PositionAt
    <2>8. PositionAt(d)'
      BY <1>r, <2>0, <2>1, <2>2, <2>3, <2>6, PhaseNames, <2>5 DEF PositionAt, AtPC, RowsAt, Phases, None, Ok, AuthOk, NoState
    <2> QED
      BY <2>4, <2>8
  <1>14. CASE CrawlFinish(d)
    <2>0. pc[d] = "crawl" /\ mem[d].machine = scanState /\ mem[d].notes = reasons
      BY <1>14, <1>r DEF CrawlFinish, PositionAt, RunPC
    <2>1. /\ rows'[d]["crawling"] = "completed"
          /\ \A m \in PhaseName : m # "crawling" => rows'[d][m] = rows[d][m]
      BY <1>14, <1>t, PhaseNames, SingleSetPhase DEF CrawlFinish
    <2>2. scanState' = "surface_mapping" /\ mem'[d].machine = "surface_mapping" /\ pc'[d] = "mapStart"
      BY <1>14, <1>t, <1>r, <2>0, PhaseNames, RememberEffect, GotoEffect DEF CrawlFinish, Transition, PositionAt, AtPC
    <2>3. mem'[d].notes = reasons'
      BY <1>14, <1>t, <2>0, PhaseNames, RememberNoNotes DEF CrawlFinish
    <2>5. scanState = "crawling"
      BY <1>r, <2>0 DEF PositionAt, AtPC
    <2>4. RowsAt(d)'
      BY <1>r, <2>0, <2>1, <2>2, PhaseNames, <2>5 DEF RowsAt, Phases, None, Ok, AuthOk, NoState, PositionAt, AtPC
    <2>6. api' = api /\ api \notin {"idle", "checked", "refused", "committed"}
      BY <1>14, <1>r, <2>0 DEF CrawlFinish, Goto, PositionAt
    <2>8. PositionAt(d)'
      BY <1>r, <2>0, <2>1, <2>2, <2>3, <2>6, PhaseNames, <2>5 DEF PositionAt, AtPC, RowsAt, Phases, None, Ok, AuthOk, NoState
    <2> QED
      BY <2>4, <2>8
  <1>15. CASE MapStart(d)
    <2>0. pc[d] = "mapStart" /\ mem[d].machine = scanState /\ mem[d].notes = reasons
      BY <1>15, <1>r DEF MapStart, PositionAt, RunPC
    <2>1. /\ rows'[d]["surface_mapping"] = "running"
          /\ \A m \in PhaseName : m # "surface_mapping" => rows'[d][m] = rows[d][m]
      BY <1>15, <1>t, PhaseNames, SingleStartPhase DEF MapStart
    <2>2. scanState' = "surface_mapping" /\ mem'[d].machine = "surface_mapping" /\ pc'[d] = "map"
      BY <1>15, <1>t, <1>r, <2>0, PhaseNames, RememberEffect, GotoEffect DEF MapStart, PositionAt, AtPC
    <2>3. mem'[d].notes = reasons'
      BY <1>15, <1>t, <2>0, PhaseNames, RememberNoNotes DEF MapStart
    <2>5. scanState = "surface_mapping"
      BY <1>r, <2>0 DEF PositionAt, AtPC
    <2>4. RowsAt(d)'
      BY <1>r, <2>0, <2>1, <2>2, PhaseNames, <2>5 DEF RowsAt, Phases, None, Ok, AuthOk, NoState, PositionAt, AtPC
    <2>6. api' = api /\ api \notin {"idle", "checked", "refused", "committed"}
      BY <1>15, <1>r, <2>0 DEF MapStart, Goto, PositionAt
    <2>8. PositionAt(d)'
      BY <1>r, <2>0, <2>1, <2>2, <2>3, <2>6, PhaseNames, <2>5 DEF PositionAt, AtPC, RowsAt, Phases, None, Ok, AuthOk, NoState
    <2> QED
      BY <2>4, <2>8
  <1>16. CASE AuthSkipped(d) \/ AuthAnonymous(d) \/ AuthEstablished(d)
    <2>1. PICK st, added : AuthFinish(d, st, added) /\ pc[d] = "auth" /\ st \in AuthOk
      BY <1>16 DEF AuthSkipped, AuthAnonymous, AuthEstablished, AuthOk
    <2>2. /\ rows'[d]["auth_establishing"] \in AuthOk
          /\ \A m \in PhaseName : m # "auth_establishing" => rows'[d][m] = rows[d][m]
      BY <1>t, <2>1, PhaseNames, SingleSetPhase DEF AuthFinish, AuthOk
    <2>0. mem[d].machine = scanState /\ mem[d].notes = reasons /\ scanState = "auth_establishing"
      BY <1>r, <2>1 DEF PositionAt, AtPC, RunPC
    <2>3. scanState' = "crawling" /\ mem'[d].machine = "crawling" /\ pc'[d] = "crawlStart"
      BY <1>t, <2>1, PhaseNames, RememberEffect, GotoEffect DEF AuthFinish, Transition
    <2>4. mem'[d].notes = reasons'
      <3>1. mem'[d].notes = mem[d].notes \cup added
        BY <1>t, <2>1, PhaseNames, RememberEffect DEF AuthFinish
      <3>2. CASE added = {}
        BY <2>0, <2>1, <3>1, <3>2 DEF AuthFinish, WriteNotes
      <3>3. CASE added # {}
        BY <2>1, <3>1, <3>3 DEF AuthFinish, WriteNotes
      <3> QED
        BY <3>2, <3>3
    <2>5. RowsAt(d)'
      BY <1>r, <2>0, <2>2, <2>3, PhaseNames DEF RowsAt, Phases, None, Ok, AuthOk, NoState
    <2>6. api' = api /\ api \notin {"idle", "checked", "refused", "committed"}
      BY <1>r, <2>1 DEF AuthFinish, Goto, PositionAt
    <2>7. PositionAt(d)'
      BY <1>r, <2>0, <2>2, <2>3, <2>4, <2>6, PhaseNames DEF PositionAt, AtPC, RowsAt, Phases, None, Ok, AuthOk, NoState
    <2> QED
      BY <2>5, <2>7
  <1>17. CASE ScopeBlocked(d)
    <2>1. /\ rows'[d]["scope_verifying"] = "failed"
          /\ \A m \in PhaseName : m # "scope_verifying" => rows'[d][m] = rows[d][m]
      BY <1>17, <1>t, PhaseNames, SingleSetPhase DEF ScopeBlocked
    <2>2. pc'[d] = "done"
      BY <1>17, <1>t, GotoEffect DEF ScopeBlocked
    <2>3. scanState = "queued"
      BY <1>17, <1>t, <1>r, OnlyFromQueued DEF ScopeBlocked, PositionAt, RunPC, TypeOK
    <2>4. RowsAt(d)'
      BY <1>17, <1>r, <2>1, PhaseNames, <2>3 DEF ScopeBlocked, RowsAt, Phases, None, Ok, AuthOk, NoState, PositionAt, AtPC, RunPC
    <2>5. PositionAt(d)'
      BY <1>17, <1>r, <2>2 DEF ScopeBlocked, Goto, PositionAt, AtPC, RunPC
    <2> QED
      BY <2>4, <2>5
  <1>18. CASE AuthFailed(d)
    <2>1. /\ rows'[d]["auth_establishing"] = "failed"
          /\ \A m \in PhaseName : m # "auth_establishing" => rows'[d][m] = rows[d][m]
      BY <1>18, <1>t, PhaseNames, SingleSetPhase DEF AuthFailed
    <2>2. pc'[d] = "done"
      BY <1>18, <1>t, GotoEffect DEF AuthFailed
    <2>3. RowsAt(d)'
      BY <1>18, <1>r, <2>1, PhaseNames DEF AuthFailed, Transition, RowsAt, Phases, None, Ok, AuthOk, NoState, PositionAt, AtPC, RunPC
    <2>4. PositionAt(d)'
      BY <1>18, <1>r, <2>2 DEF AuthFailed, Goto, PositionAt, AtPC, RunPC
    <2> QED
      BY <2>3, <2>4
  <1>19. CASE MapFinish(d)
    <2>1. /\ rows'[d]["surface_mapping"] = "completed"
          /\ \A m \in PhaseName : m # "surface_mapping" => rows'[d][m] = rows[d][m]
      BY <1>19, <1>t, PhaseNames, SingleSetPhase DEF MapFinish
    <2>2. pc'[d] = "done"
      BY <1>19, <1>t, GotoEffect DEF MapFinish
    <2>3. RowsAt(d)'
      BY <1>19, <1>r, <2>1, PhaseNames DEF MapFinish, Transition, RowsAt, Phases, None, Ok, AuthOk, NoState, PositionAt, AtPC, RunPC
    <2>4. PositionAt(d)'
      BY <1>19, <1>r, <2>2 DEF MapFinish, Goto, PositionAt, AtPC, RunPC
    <2> QED
      BY <2>3, <2>4
  <1> QED
    BY <1>1, <1>2, <1>3, <1>4, <1>5, <1>6, <1>7, <1>8, <1>9, <1>10, <1>11, <1>12, <1>13, <1>14, <1>15, <1>16, <1>17, <1>18, <1>19 DEF Work

\* The steps that are no worker's leave the rows alone or insert the QUEUED
\* row, and put no worker past LoadScan.
LEMMA SingleOther ==
    ASSUME SingleDelivery, RunnerInv, [Next]_vars, \A d \in Deliveries : ~Work(d)
    PROVE  (RowsTellTheState /\ WorkerPosition)'
  <1> SUFFICES ASSUME NEW d \in Deliveries PROVE RowsAt(d)' /\ PositionAt(d)'
    BY DEF RowsTellTheState, WorkerPosition
  <1>t. TypeOK
    BY DEF RunnerInv
  <1>r. RowsAt(d) /\ PositionAt(d)
    BY DEF RunnerInv, RowsTellTheState, WorkerPosition
  <1>1. CASE CreateCheck \/ DispatchFails
    BY <1>1, <1>r DEF CreateCheck, DispatchFails, taskVars, dbVars, RowsAt, Phases, PositionAt, AtPC
  <1>2. CASE CreateCommit
    BY <1>2, <1>r DEF CreateCommit, taskVars, RowsAt, Phases, PositionAt, AtPC, NoState, RunPC
  <1>3. CASE \E e \in Deliveries : Dispatch(e)
    <2>1. Dispatch(d)
      BY <1>3 DEF SingleDelivery
    <2>2. pc'[d] = "queued"
      BY <1>t, <2>1 DEF Dispatch, TypeOK
    <2> QED
      BY <1>r, <2>1, <2>2 DEF Dispatch, dbVars, RowsAt, Phases, PositionAt, AtPC, RunPC
  <1>4. CASE \E e \in Deliveries : Raise(e) \/ Crash(e)
    <2>1. Raise(d) \/ Crash(d)
      BY <1>4 DEF SingleDelivery
    <2>2. pc[d] \in RunPC /\ pc'[d] \in {"queued", "failed", "lost"}
      BY <1>t, <2>1 DEF Raise, Retry, Crash, TypeOK
    <2>3. UNCHANGED <<dbVars, api>>
      BY <2>1 DEF Raise, Retry, Crash
    <2> QED
      BY <1>r, <2>2, <2>3 DEF dbVars, RowsAt, Phases, PositionAt, AtPC, RunPC
  <1>5. CASE \E e, f \in Deliveries : Redeliver(e, f)
    <2>1. Redeliver(d, d)
      BY <1>5 DEF SingleDelivery
    <2> QED
      BY <2>1 DEF Redeliver
  <1>6. CASE \E b \in BOOLEAN : SetScannable(b)
    BY <1>6, <1>r DEF SetScannable, taskVars, dbVars, RowsAt, Phases, PositionAt, AtPC
  <1>7. CASE \E p \in Personas : CreatePersona(p)
    BY <1>7, <1>r DEF CreatePersona, taskVars, dbVars, RowsAt, Phases, PositionAt, AtPC
  <1>8. CASE UNCHANGED vars
    BY <1>8, <1>r DEF vars, taskVars, dbVars, RowsAt, Phases, PositionAt, AtPC
  <1> QED
    BY <1>1, <1>2, <1>3, <1>4, <1>5, <1>6, <1>7, <1>8 DEF Next

\* The inductive invariant behind the three theorems below.
THEOREM RunnerInvariant ==
    ASSUME SingleDelivery
    PROVE  Spec => []RunnerInv
  <1>1. Init => RunnerInv
    <2> SUFFICES ASSUME Init PROVE RunnerInv
      OBVIOUS
    <2>1. TypeOK
      BY InitTypeOK
    <2>2. RowsTellTheState
      BY PhaseNames DEF Init, RowsTellTheState, RowsAt, Phases, None
    <2>3. WorkerPosition
      BY DEF Init, WorkerPosition, PositionAt, AtPC, RunPC
    <2> QED
      BY <2>1, <2>2, <2>3 DEF RunnerInv
  <1>2. RunnerInv /\ TypeOK' /\ [Next]_vars => RunnerInv'
    BY SingleWork, SingleOther DEF RunnerInv
  <1> QED
    BY <1>1, <1>2, TypeCorrect, PTL DEF Spec

\* A task delivered once, however it is retried, raised out of or killed, and
\* for any number of personas: the committed phase rows tell exactly how far
\* the committed state says the scan got.
THEOREM RowsAlwaysTell ==
    ASSUME SingleDelivery
    PROVE  Spec => []RowsTellTheState
  <1>1. RunnerInv => RowsTellTheState
    BY DEF RunnerInv
  <1> QED
    BY <1>1, RunnerInvariant, PTL

\* Under the same assumption the worker's in-memory machine and notes are the
\* committed ones whenever it is past the gate.
THEOREM MachineAlwaysInSync ==
    ASSUME SingleDelivery
    PROVE  Spec => []MachineInSync
  <1>1. RunnerInv => MachineInSync
    BY DEF RunnerInv, WorkerPosition, PositionAt, MachineInSync, PastScope
  <1> QED
    BY <1>1, RunnerInvariant, PTL

-----------------------------------------------------------------------------
(* What a scan says about its logins, for a single delivery.               *)

\* The states of a scan for which nobody has been logged in yet.
BeforeLogins ==
    {NoState, "queued", "scope_verifying", "blocked_unverified", "recon", "auth_establishing"}

\* Until AUTH_ESTABLISHING ends no persona column is written, and until the
\* scan pauses no surface is.
TablesOK ==
    /\ scanState \in BeforeLogins => \A p \in Personas : session[p] = "untried"
    /\ scanState # "paused" => endpoints = {}

\* What the session's objects hold at each point of run_scan, and how the
\* committed rows follow from them once the logins are over.
LoginsAt(d) ==
    /\ pc[d] \notin {"auth"} \cup AfterLogins => \A p \in Personas : mem[d].login[p] = "untried"
    /\ pc[d] \notin {"crawl", "mapStart", "map"} => mem[d].surfaces = {}
    /\ pc[d] \in {"authStart", "auth"} => mem[d].loaded = available
    /\ pc[d] = "auth" =>
          \A p \in Personas : mem[d].login[p] # "untried" => kmsKey /\ p \in mem[d].configured
    /\ pc[d] \in AfterLogins =>
          /\ \A p \in Personas : session[p] # "untried" <=> p \in LoggedIn(d)
          /\ \A p \in LoggedIn(d) : available[p]
          /\ LoggedIn(d) = {} => reasons \cap {"no_kms", "no_personas"} # {}
    /\ pc[d] \in {"mapStart", "map"} => mem[d].surfaces = LoggedIn(d) \cup {Anonymous}

\* What the committed tables say.
TablesTell == DegradedIsSaid /\ SurfaceMatchesLogins /\ FailedAuthMeansNobody /\ TablesOK

LoginsInv == RunnerInv /\ TablesTell /\ \A d \in Deliveries : LoginsAt(d)

\* A commit leaves what the login loop assigned alone.
LEMMA RememberKeepsLogins ==
    ASSUME TypeOK, NEW d \in Deliveries, NEW n \in PhaseName,
           NEW t, NEW added, Remember(d, n, t, added)
    PROVE  /\ mem'[d].login = mem[d].login
           /\ mem'[d].loaded = mem[d].loaded
           /\ mem'[d].configured = mem[d].configured
  BY DEF TypeOK, Mem, Remember

\* A commit before the end of AUTH_ESTABLISHING leaves the persona and the
\* endpoint tables as they were.
LEMMA EarlyCommit ==
    ASSUME TablesTell, scanState \in BeforeLogins, scanState' \in BeforeLogins,
           UNCHANGED <<available, session, endpoints>>
    PROVE  TablesTell'
  BY DEF TablesTell, TablesOK, BeforeLogins, DegradedIsSaid, SurfaceMatchesLogins,
         FailedAuthMeansNobody, NoState

\* A step before the logins keeps the session's objects as empty as they were.
LEMMA EarlyTask ==
    ASSUME NEW d \in Deliveries, LoginsAt(d),
           pc[d] \notin {"auth"} \cup AfterLogins, pc'[d] \notin AfterLogins,
           mem'[d].login = mem[d].login, mem'[d].surfaces = mem[d].surfaces,
           pc'[d] \in {"authStart", "auth"} => mem'[d].loaded = available'
    PROVE  LoginsAt(d)'
  BY DEF LoginsAt, AfterLogins

\* The session is closed, or was never opened.
LEMMA ClosedTask ==
    ASSUME NEW d \in Deliveries, mem'[d] = NoMem,
           pc'[d] \notin {"authStart", "auth"} \cup AfterLogins
    PROVE  LoginsAt(d)'
  BY DEF LoginsAt, AfterLogins, NoMem

\* A commit after the logins writes neither persona rows nor fewer notes.
LEMMA LateCommit ==
    ASSUME NEW d \in Deliveries, TablesTell, LoginsAt(d), TypeOK,
           NEW n \in PhaseName, NEW t, Remember(d, n, t, {}),
           pc[d] \in AfterLogins, pc'[d] \in {"crawl", "mapStart", "map"},
           pc'[d] \in {"mapStart", "map"} =>
              mem[d].surfaces = LoggedIn(d) \cup {Anonymous},
           scanState \in {"crawling", "surface_mapping"},
           scanState' \in {"crawling", "surface_mapping"},
           UNCHANGED <<pausedFrom, reasons, available, session, endpoints>>
    PROVE  TablesTell' /\ LoginsAt(d)'
  <1>1. TablesTell'
    BY DEF TablesTell, TablesOK, BeforeLogins, DegradedIsSaid, SurfaceMatchesLogins,
           FailedAuthMeansNobody, NoState
  <1>2. mem'[d].login = mem[d].login /\ mem'[d].surfaces = mem[d].surfaces
    BY RememberEffect, RememberKeepsLogins
  <1>3. LoggedIn(d)' = LoggedIn(d)
    BY <1>2 DEF LoggedIn
  <1>4. LoginsAt(d)'
    BY <1>2, <1>3 DEF LoginsAt, AfterLogins
  <1> QED
    BY <1>1, <1>4

\* The commits that end AUTH_ESTABLISHING and enter CRAWLING: the persona rows
\* now say who logged in, and the notes say why nobody did.
LEMMA AuthFinishTells ==
    ASSUME NEW d \in Deliveries, TypeOK, TablesTell, LoginsAt(d), PositionAt(d),
           pc[d] = "auth", NEW st, NEW added, AuthFinish(d, st, added),
           \A p \in Personas : session'[p] # "untried" <=> p \in LoggedIn(d),
           \A p \in LoggedIn(d) : available'[p],
           LoggedIn(d) = {} => added \cap {"no_kms", "no_personas"} # {},
           (\E p \in Personas : session'[p] = "no_oracle") => "no_oracle" \in added
    PROVE  TablesTell' /\ LoginsAt(d)'
  <1>1. scanState = "auth_establishing" /\ mem[d].notes = reasons /\ endpoints = {}
    BY DEF PositionAt, AtPC, RunPC, TablesTell, TablesOK
  <1>2. scanState' = "crawling" /\ pc'[d] = "crawlStart" /\ endpoints' = {}
    BY <1>1, GotoEffect DEF AuthFinish, Transition
  <1>3. mem'[d].login = mem[d].login /\ mem'[d].surfaces = mem[d].surfaces
    BY PhaseNames, RememberEffect, RememberKeepsLogins DEF AuthFinish
  <1>4. LoggedIn(d)' = LoggedIn(d)
    BY <1>3 DEF LoggedIn
  <1>5. added \subseteq reasons'
    BY DEF AuthFinish, WriteNotes
  <1>6. TablesTell'
    BY <1>2, <1>5 DEF TablesTell, TablesOK, BeforeLogins, DegradedIsSaid, SurfaceMatchesLogins,
         FailedAuthMeansNobody, NoState
  <1>7. LoginsAt(d)'
    BY <1>2, <1>3, <1>4, <1>5 DEF LoginsAt, AfterLogins
  <1> QED
    BY <1>6, <1>7

\* A worker's step keeps what the tables tell.
LEMMA WorkTells ==
    ASSUME SingleDelivery, LoginsInv, NEW d \in Deliveries, Work(d)
    PROVE  (TablesTell /\ \A e \in Deliveries : LoginsAt(e))'
  <1>t. TypeOK /\ TablesTell /\ LoginsAt(d) /\ PositionAt(d) /\ RowsAt(d)
    BY DEF LoginsInv, RunnerInv, RowsTellTheState, WorkerPosition
  <1>0. SUFFICES TablesTell' /\ LoginsAt(d)'
    BY DEF SingleDelivery
  <1>u. UNCHANGED dbVars => TablesTell'
    BY <1>t DEF dbVars, TablesTell, TablesOK, DegradedIsSaid, SurfaceMatchesLogins,
         FailedAuthMeansNobody
  <1>1. CASE Receive(d)
    <2>1. LoginsAt(d)'
      BY <1>1, <1>t, EarlyTask DEF Receive, TypeOK, AfterLogins
    <2> QED
      BY <1>1, <1>u, <2>1 DEF Receive
  <1>2. CASE InvalidTransition(d)
    <2>1. mem'[d] = NoMem /\ pc'[d] \in {"queued", "failed"} /\ UNCHANGED dbVars
      BY <1>2, <1>t DEF InvalidTransition, Retry, TypeOK
    <2> QED
      BY <1>u, <2>1, ClosedTask DEF AfterLogins
  <1>3. CASE LoadScan(d)
    <2>1. pc[d] = "loadScan" /\ pc'[d] = "loadPhases" /\ UNCHANGED dbVars
      BY <1>3, <1>t, GotoEffect DEF LoadScan
    <2>2. mem'[d].login = mem[d].login /\ mem'[d].surfaces = mem[d].surfaces
      BY <1>3, <1>t DEF LoadScan, TypeOK, Mem
    <2> QED
      BY <1>t, <1>u, <2>1, <2>2, EarlyTask DEF AfterLogins
  <1>4. CASE LoadPhases(d)
    <2>1. pc[d] = "loadPhases" /\ pc'[d] = "loadTarget" /\ UNCHANGED dbVars
      BY <1>4, <1>t, GotoEffect DEF LoadPhases
    <2>2. mem'[d].login = mem[d].login /\ mem'[d].surfaces = mem[d].surfaces
      BY <1>4, <1>t DEF LoadPhases, TypeOK, Mem
    <2> QED
      BY <1>t, <1>u, <2>1, <2>2, EarlyTask DEF AfterLogins
  <1>5. CASE LoadTarget(d)
    <2>1. pc[d] = "loadTarget" /\ pc'[d] = "scope" /\ UNCHANGED dbVars
      BY <1>5, <1>t, GotoEffect DEF LoadTarget
    <2>2. mem'[d].login = mem[d].login /\ mem'[d].surfaces = mem[d].surfaces
      BY <1>5, <1>t DEF LoadTarget, TypeOK, Mem
    <2> QED
      BY <1>t, <1>u, <2>1, <2>2, EarlyTask DEF AfterLogins
  <1>6. CASE Setup(d)
    <2>1. pc[d] = "setup" /\ pc'[d] = "authStart" /\ UNCHANGED dbVars
      BY <1>6, <1>t, GotoEffect DEF Setup
    <2>2. /\ mem'[d].login = mem[d].login /\ mem'[d].surfaces = mem[d].surfaces
          /\ mem'[d].loaded = available
      BY <1>6, <1>t DEF Setup, TypeOK, Mem
    <2>3. available' = available
      BY <2>1 DEF dbVars
    <2> QED
      BY <1>t, <1>u, <2>1, <2>2, <2>3, EarlyTask DEF AfterLogins
  <1>7. ASSUME NEW p \in Personas, NEW o \in LoginOutcome \ {"untried"}, Login(d, p, o)
        PROVE  TablesTell' /\ LoginsAt(d)'
    <2>1. pc[d] = "auth" /\ pc'[d] = "auth" /\ UNCHANGED dbVars
      BY <1>7, <1>t, GotoEffect DEF Login
    <2>2. /\ mem'[d].login = [mem[d].login EXCEPT ![p] = o]
          /\ mem'[d].surfaces = mem[d].surfaces
          /\ mem'[d].loaded = mem[d].loaded
          /\ mem'[d].configured = mem[d].configured
      BY <1>7, <1>t DEF Login, TypeOK, Mem
    <2>3. kmsKey /\ kmsKey' = kmsKey /\ p \in mem[d].configured
      BY <1>7 DEF Login, Goto, envVars
    <2>4. \A q \in Personas : q # p => mem'[d].login[q] = mem[d].login[q]
      BY <1>t, <2>2 DEF TypeOK, Mem
    <2>5. LoginsAt(d)'
      BY <1>t, <2>1, <2>2, <2>3, <2>4 DEF LoginsAt, AfterLogins, dbVars
    <2> QED
      BY <1>u, <2>1, <2>5
  <1>8. ASSUME NEW who \in Identity, Crawl(d, who)
        PROVE  TablesTell' /\ LoginsAt(d)'
    <2>1. pc[d] = "crawl" /\ pc'[d] = "crawl" /\ UNCHANGED dbVars
      BY <1>8, <1>t, GotoEffect DEF Crawl
    <2>2. mem'[d].login = mem[d].login
      BY <1>8, <1>t DEF Crawl, TypeOK, Mem
    <2>3. LoggedIn(d)' = LoggedIn(d)
      BY <2>2 DEF LoggedIn
    <2>4. LoginsAt(d)'
      BY <1>t, <2>1, <2>2, <2>3 DEF LoginsAt, AfterLogins, dbVars
    <2> QED
      BY <1>u, <2>1, <2>4
  <1>9. CASE ScopePassed(d)
    <2>1. pc[d] = "scope" /\ pc'[d] = "reconStart" /\ scanState' = "scope_verifying"
      BY <1>9, <1>t, GotoEffect DEF ScopePassed, Transition
    <2>2. scanState = "queued"
      BY <1>9, <1>t, OnlyFromQueued DEF ScopePassed, Transition, PositionAt, RunPC, TypeOK
    <2>3. mem'[d].login = mem[d].login /\ mem'[d].surfaces = mem[d].surfaces
      BY <1>9, <1>t, PhaseNames, RememberEffect, RememberKeepsLogins DEF ScopePassed
    <2>4. TablesTell'
      BY <1>9, <1>t, <2>1, <2>2, EarlyCommit DEF ScopePassed, BeforeLogins
    <2>5. LoginsAt(d)'
      BY <1>t, <2>1, <2>3, EarlyTask DEF AfterLogins
    <2> QED
      BY <2>4, <2>5
  <1>10. CASE ScopeBlocked(d)
    <2>1. pc'[d] = "done" /\ scanState' = "blocked_unverified"
      BY <1>10, <1>t, GotoEffect DEF ScopeBlocked
    <2>2. scanState = "queued"
      BY <1>10, <1>t, OnlyFromQueued DEF ScopeBlocked, PositionAt, RunPC, TypeOK
    <2>3. mem'[d] = NoMem
      BY <1>10, <1>t DEF ScopeBlocked, TypeOK
    <2>4. TablesTell'
      BY <1>10, <1>t, <2>1, <2>2, EarlyCommit DEF ScopeBlocked, BeforeLogins
    <2>5. LoginsAt(d)'
      BY <2>1, <2>3, ClosedTask DEF AfterLogins
    <2> QED
      BY <2>4, <2>5
  <1>11. CASE ReconStart(d)
    <2>1. pc[d] = "reconStart" /\ pc'[d] = "recon" /\ scanState' = "recon"
      BY <1>11, <1>t, GotoEffect DEF ReconStart, Transition
    <2>2. scanState = "scope_verifying"
      BY <1>t, <2>1 DEF PositionAt, AtPC
    <2>3. mem'[d].login = mem[d].login /\ mem'[d].surfaces = mem[d].surfaces
      BY <1>11, <1>t, PhaseNames, RememberEffect, RememberKeepsLogins DEF ReconStart
    <2>4. TablesTell'
      BY <1>11, <1>t, <2>1, <2>2, EarlyCommit DEF ReconStart, BeforeLogins
    <2>5. LoginsAt(d)'
      BY <1>t, <2>1, <2>3, EarlyTask DEF AfterLogins
    <2> QED
      BY <2>4, <2>5
  <1>12. ASSUME NEW added \in {{}, {"recon"}}, ReconFinish(d, added)
         PROVE  TablesTell' /\ LoginsAt(d)'
    <2>1. pc[d] = "recon" /\ pc'[d] = "setup" /\ scanState' = scanState
      BY <1>12, <1>t, GotoEffect DEF ReconFinish
    <2>2. scanState = "recon"
      BY <1>t, <2>1 DEF PositionAt, AtPC
    <2>3. mem'[d].login = mem[d].login /\ mem'[d].surfaces = mem[d].surfaces
      BY <1>12, <1>t, PhaseNames, RememberEffect, RememberKeepsLogins DEF ReconFinish
    <2>4. TablesTell'
      BY <1>12, <1>t, <2>1, <2>2, EarlyCommit DEF ReconFinish, BeforeLogins
    <2>5. LoginsAt(d)'
      BY <1>t, <2>1, <2>3, EarlyTask DEF AfterLogins
    <2> QED
      BY <2>4, <2>5
  <1>13. CASE AuthStart(d)
    <2>1. pc[d] = "authStart" /\ pc'[d] = "auth" /\ scanState' = "auth_establishing"
      BY <1>13, <1>t, GotoEffect DEF AuthStart, Transition
    <2>2. scanState = "recon"
      BY <1>t, <2>1 DEF PositionAt, AtPC
    <2>3. /\ mem'[d].login = mem[d].login /\ mem'[d].surfaces = mem[d].surfaces
          /\ mem'[d].loaded = mem[d].loaded
      BY <1>13, <1>t, PhaseNames, RememberEffect, RememberKeepsLogins DEF AuthStart
    <2>4. TablesTell'
      BY <1>13, <1>t, <2>1, <2>2, EarlyCommit DEF AuthStart, BeforeLogins
    <2>5. mem'[d].loaded = available'
      BY <1>13, <1>t, <2>1, <2>3 DEF LoginsAt, AuthStart
    <2>6. LoginsAt(d)'
      BY <1>t, <2>1, <2>3, <2>5, EarlyTask DEF AfterLogins
    <2> QED
      BY <2>4, <2>6
  <1>14. CASE AuthSkipped(d) \/ AuthAnonymous(d)
    <2>1. pc[d] = "auth" /\ UNCHANGED <<available, session>>
      BY <1>14 DEF AuthSkipped, AuthAnonymous
    <2>2. PICK st, added : AuthFinish(d, st, added) /\ added \in {{"no_kms"}, {"no_personas"}}
      BY <1>14 DEF AuthSkipped, AuthAnonymous
    <2>3. \A p \in Personas : session'[p] = "untried"
      BY <1>t, <2>1 DEF PositionAt, AtPC, TablesTell, TablesOK, BeforeLogins
    <2>4. LoggedIn(d) = {}
      <3>1. \A p \in Personas : mem[d].login[p] = "untried"
        BY <1>14, <1>t, <2>1 DEF LoginsAt, AuthSkipped, AuthAnonymous
      <3> QED
        BY <3>1 DEF LoggedIn
    <2> QED
      BY <1>t, <2>1, <2>2, <2>3, <2>4, AuthFinishTells
  <1>15. CASE AuthEstablished(d)
    <2>1. pc[d] = "auth" /\ LoggedIn(d) # {} /\ WritePersonas(d)
      BY <1>15 DEF AuthEstablished
    <2>2. PICK added : /\ AuthFinish(d, "completed", added)
                       /\ (\E p \in Personas : mem[d].login[p] = "no_oracle") => "no_oracle" \in added
      BY <1>15 DEF AuthEstablished
    <2>3. \A p \in Personas :
              session[p] = "untried" /\ mem[d].loaded[p] = available[p] /\ available[p] \in BOOLEAN
      BY <1>t, <2>1 DEF PositionAt, AtPC, TablesTell, TablesOK, BeforeLogins, LoginsAt, TypeOK
    <2>4. \A p \in Personas : session'[p] = IF p \in LoggedIn(d) THEN mem[d].login[p] ELSE "untried"
      BY <2>1, <2>3 DEF WritePersonas
    <2>5. \A p \in LoggedIn(d) : p \in Personas /\ mem[d].login[p] # "untried"
      BY DEF LoggedIn
    <2>6. \A p \in LoggedIn(d) : available'[p]
      BY <2>1, <2>3, <2>5 DEF WritePersonas
    <2>7. \A p \in Personas : session'[p] # "untried" <=> p \in LoggedIn(d)
      BY <2>4, <2>5
    <2>8. (\E p \in Personas : session'[p] = "no_oracle") => "no_oracle" \in added
      BY <2>2, <2>4
    <2> QED
      BY <1>t, <2>1, <2>2, <2>6, <2>7, <2>8, AuthFinishTells
  <1>16. CASE AuthFailed(d)
    <2>1. pc[d] = "auth" /\ AllTried(d) /\ LoggedIn(d) = {} /\ WritePersonas(d)
      BY <1>16 DEF AuthFailed
    <2>2. pc'[d] = "done" /\ scanState' = "failed_auth" /\ mem'[d] = NoMem
      BY <1>16, <1>t, GotoEffect DEF AuthFailed, Transition, TypeOK
    <2>3. \A p \in Personas :
              session[p] = "untried" /\ mem[d].loaded[p] = available[p] /\ available[p] \in BOOLEAN
      BY <1>t, <2>1 DEF PositionAt, AtPC, TablesTell, TablesOK, BeforeLogins, LoginsAt, TypeOK
    <2>4. \A p \in Personas : session'[p] = "untried"
      BY <2>1, <2>3 DEF WritePersonas
    <2>5. endpoints' = {}
      BY <1>16, <1>t, <2>1 DEF AuthFailed, PositionAt, AtPC, TablesTell, TablesOK
    <2>6. PICK p \in Personas : mem[d].login[p] # "untried"
      BY <1>t, <2>1 DEF AllTried, TypeOK, Mem
    <2>7. ~available'[p]
      BY <2>1, <2>3, <2>6 DEF WritePersonas
    <2>8. TablesTell'
      BY <2>2, <2>4, <2>5, <2>7 DEF TablesTell, TablesOK, BeforeLogins, DegradedIsSaid,
           SurfaceMatchesLogins, FailedAuthMeansNobody, NoState
    <2>9. LoginsAt(d)'
      BY <2>2, ClosedTask DEF AfterLogins
    <2> QED
      BY <2>8, <2>9
  <1>17. CASE CrawlStart(d)
    <2>1. pc[d] = "crawlStart" /\ pc'[d] = "crawl" /\ scanState' = scanState
      BY <1>17, <1>t, GotoEffect DEF CrawlStart
    <2>2. scanState = "crawling"
      BY <1>t, <2>1 DEF PositionAt, AtPC
    <2> QED
      BY <1>17, <1>t, <2>1, <2>2, PhaseNames, LateCommit DEF CrawlStart, AfterLogins
  <1>18. CASE CrawlFinish(d)
    <2>1. pc[d] = "crawl" /\ pc'[d] = "mapStart" /\ scanState' = "surface_mapping"
      BY <1>18, <1>t, GotoEffect DEF CrawlFinish, Transition
    <2>2. scanState = "crawling"
      BY <1>t, <2>1 DEF PositionAt, AtPC
    <2> QED
      BY <1>18, <1>t, <2>1, <2>2, PhaseNames, LateCommit DEF CrawlFinish, AfterLogins
  <1>19. CASE MapStart(d)
    <2>1. pc[d] = "mapStart" /\ pc'[d] = "map" /\ scanState' = scanState
      BY <1>19, <1>t, GotoEffect DEF MapStart
    <2>2. scanState = "surface_mapping" /\ mem[d].surfaces = LoggedIn(d) \cup {Anonymous}
      BY <1>t, <2>1 DEF PositionAt, AtPC, LoginsAt
    <2> QED
      BY <1>19, <1>t, <2>1, <2>2, PhaseNames, LateCommit DEF MapStart, AfterLogins
  <1>20. CASE MapFinish(d)
    <2>1. /\ pc[d] = "map" /\ pc'[d] = "done" /\ scanState' = "paused" /\ mem'[d] = NoMem
          /\ UNCHANGED <<available, session>>
      BY <1>20, <1>t, GotoEffect DEF MapFinish, Transition, TypeOK
    <2>2. /\ scanState = "surface_mapping" /\ mem[d].machine = scanState
          /\ mem[d].notes = reasons /\ endpoints = {}
      BY <1>t, <2>1 DEF PositionAt, AtPC, RunPC, TablesTell, TablesOK
    <2>3. endpoints' = LoggedIn(d) \cup {Anonymous} /\ pausedFrom' = "surface_mapping"
      BY <1>20, <1>t, <2>1, <2>2 DEF MapFinish, LoginsAt
    <2>4. reasons' = reasons \cup {"not_implemented"}
      BY <1>20, <2>2 DEF MapFinish, WriteNotes
    <2>5. /\ \A p \in Personas : session'[p] # "untried" <=> p \in LoggedIn(d)
          /\ \A p \in LoggedIn(d) : available'[p]
          /\ LoggedIn(d) = {} => reasons \cap {"no_kms", "no_personas"} # {}
      BY <1>t, <2>1 DEF LoginsAt, AfterLogins
    <2>6. LoggedIn(d) \subseteq Personas /\ Anonymous \notin Personas
      BY RunnerAssumption DEF LoggedIn
    <2>7. DegradedIsSaid'
      BY <1>t, <2>1, <2>3, <2>4, <2>5, <2>6 DEF TablesTell, DegradedIsSaid
    <2>8. SurfaceMatchesLogins'
      BY <2>1, <2>3, <2>5, <2>6 DEF SurfaceMatchesLogins
    <2>9. FailedAuthMeansNobody' /\ TablesOK'
      BY <2>1 DEF FailedAuthMeansNobody, TablesOK, BeforeLogins, NoState
    <2>10. LoginsAt(d)'
      BY <2>1, ClosedTask DEF AfterLogins
    <2> QED
      BY <2>7, <2>8, <2>9, <2>10 DEF TablesTell
  <1> QED
    BY <1>1, <1>2, <1>3, <1>4, <1>5, <1>6, <1>7, <1>8, <1>9, <1>10, <1>11, <1>12, <1>13,
       <1>14, <1>15, <1>16, <1>17, <1>18, <1>19, <1>20 DEF Work

\* The steps that are no worker's log nobody in and write no table but the
\* QUEUED row.
LEMMA OtherTells ==
    ASSUME SingleDelivery, LoginsInv, [Next]_vars, \A d \in Deliveries : ~Work(d)
    PROVE  (TablesTell /\ \A d \in Deliveries : LoginsAt(d))'
  <1>t. TypeOK /\ TablesTell /\ \A d \in Deliveries : LoginsAt(d) /\ PositionAt(d)
    BY DEF LoginsInv, RunnerInv, WorkerPosition
  <1>u. UNCHANGED dbVars => TablesTell'
    BY <1>t DEF dbVars, TablesTell, TablesOK, DegradedIsSaid, SurfaceMatchesLogins,
         FailedAuthMeansNobody
  <1>v. UNCHANGED <<taskVars, reasons, available, session, kmsKey>> =>
            \A d \in Deliveries : LoginsAt(d)'
    BY <1>t DEF taskVars, LoginsAt, LoggedIn
  <1>1. CASE CreateCheck \/ DispatchFails
    BY <1>1, <1>u, <1>v DEF CreateCheck, DispatchFails, dbVars, envVars
  <1>2. CASE CreateCommit
    <2>1. PICK d \in Deliveries : TRUE
      BY RunnerAssumption
    <2>2. scanState = NoState /\ scanState' = "queued" /\ UNCHANGED <<available, session, endpoints>>
      BY <1>2, <1>t, <2>1 DEF CreateCommit, PositionAt
    <2>3. TablesTell'
      BY <1>t, <2>2, EarlyCommit DEF BeforeLogins
    <2> QED
      BY <1>2, <1>v, <2>3 DEF CreateCommit, envVars
  <1>3. ASSUME NEW d \in Deliveries, Dispatch(d)
        PROVE  (TablesTell /\ \A e \in Deliveries : LoginsAt(e))'
    <2>1. pc[d] = "unsent" /\ pc'[d] = "queued" /\ mem' = mem /\ UNCHANGED dbVars
      BY <1>3, <1>t DEF Dispatch, PositionAt, TypeOK
    <2>2. LoginsAt(d)'
      BY <1>t, <2>1, EarlyTask DEF AfterLogins
    <2> QED
      BY <1>u, <2>1, <2>2 DEF SingleDelivery
  <1>4. ASSUME NEW d \in Deliveries, Raise(d) \/ Crash(d)
        PROVE  (TablesTell /\ \A e \in Deliveries : LoginsAt(e))'
    <2>1. mem'[d] = NoMem /\ pc'[d] \in {"queued", "failed", "lost"} /\ UNCHANGED dbVars
      BY <1>4, <1>t DEF Raise, Retry, Crash, TypeOK
    <2>2. LoginsAt(d)'
      BY <2>1, ClosedTask DEF AfterLogins
    <2> QED
      BY <1>u, <2>1, <2>2 DEF SingleDelivery
  <1>5. CASE \E e, f \in Deliveries : Redeliver(e, f)
    BY <1>5 DEF SingleDelivery, Redeliver
  <1>6. CASE \E b \in BOOLEAN : SetScannable(b)
    BY <1>6, <1>u, <1>v DEF SetScannable, dbVars
  <1>7. CASE \E p \in Personas : CreatePersona(p)
    BY <1>7, <1>u, <1>v DEF CreatePersona, dbVars
  <1>8. CASE UNCHANGED vars
    BY <1>8, <1>u, <1>v DEF vars, dbVars, envVars
  <1> QED
    BY <1>1, <1>2, <1>3, <1>4, <1>5, <1>6, <1>7, <1>8 DEF Next

\* The inductive invariant behind the three theorems below.
THEOREM LoginsInvariant ==
    ASSUME SingleDelivery
    PROVE  Spec => []LoginsInv
  <1>1. Init => TablesTell /\ \A d \in Deliveries : LoginsAt(d)
    <2> SUFFICES ASSUME Init PROVE TablesTell /\ \A d \in Deliveries : LoginsAt(d)
      OBVIOUS
    <2>1. TablesTell
      BY DEF Init, TablesTell, TablesOK, DegradedIsSaid, SurfaceMatchesLogins,
           FailedAuthMeansNobody, NoState
    <2>2. \A d \in Deliveries : LoginsAt(d)
      BY DEF Init, LoginsAt, AfterLogins, NoMem
    <2> QED
      BY <2>1, <2>2
  <1>2. LoginsInv /\ RunnerInv' /\ [Next]_vars => LoginsInv'
    BY WorkTells, OtherTells DEF LoginsInv
  <1>3. Init /\ RunnerInv => LoginsInv
    BY <1>1 DEF LoginsInv
  <1> QED
    BY <1>2, <1>3, RunnerInvariant, PTL DEF Spec

\* A task delivered once, whatever fails and for any personas: a paused scan
\* says what is missing, an anonymous-only surface says why it is anonymous
\* and a session without an oracle is noted on the scan.
THEOREM DegradedAlwaysSaid ==
    ASSUME SingleDelivery
    PROVE  Spec => []DegradedIsSaid
  <1>1. LoginsInv => DegradedIsSaid
    BY DEF LoginsInv, TablesTell
  <1> QED
    BY <1>1, LoginsInvariant, PTL

\* Under the same assumption the surface is all or nothing, and covers exactly
\* the identities whose sessions the scan stored, all of them available.
THEOREM SurfaceAlwaysMatchesLogins ==
    ASSUME SingleDelivery
    PROVE  Spec => []SurfaceMatchesLogins
  <1>1. LoginsInv => SurfaceMatchesLogins
    BY DEF LoginsInv, TablesTell
  <1> QED
    BY <1>1, LoginsInvariant, PTL

\* Under the same assumption FAILED_AUTH is only reported when nobody logged
\* in: no session, no surface, and a persona marked unavailable.
THEOREM FailedAuthAlwaysMeansNobody ==
    ASSUME SingleDelivery
    PROVE  Spec => []FailedAuthMeansNobody
  <1>1. LoginsInv => FailedAuthMeansNobody
    BY DEF LoginsInv, TablesTell
  <1> QED
    BY <1>1, LoginsInvariant, PTL

-----------------------------------------------------------------------------
(* The scan row implements ScanLifecycle.                                  *)

\* The abstract module's vocabulary is the concrete one.
LEMMA SameVocabulary ==
    /\ Lifecycle!ScanState = ScanState
    /\ Lifecycle!NoState = NoState
    /\ \A s, t : Lifecycle!CanTransition(s, t) <=> CanTransition(s, t)
  <1>1. \A s : Lifecycle!LinearTransitions(s) = LinearTransitions(s)
    BY DEF Lifecycle!LinearTransitions, LinearTransitions
  <1>2. Lifecycle!ScanState = ScanState /\ Lifecycle!NoState = NoState
    BY DEF Lifecycle!ScanState, ScanState, Lifecycle!NoState, NoState
  <1>3. Lifecycle!TERMINAL_STATES = TERMINAL_STATES
    BY DEF Lifecycle!TERMINAL_STATES, TERMINAL_STATES
  <1> QED
    BY <1>1, <1>2, <1>3 DEF Lifecycle!CanTransition, CanTransition

\* A committed transition of a machine in sync is a step of the lifecycle.
LEMMA TransitionAdvances ==
    ASSUME NEW d \in Deliveries, mem[d].machine = scanState, scanState \in ScanState,
           NEW t \in ScanState \ {"paused"}, Transition(d, t), UNCHANGED pausedFrom
    PROVE  Lifecycle!Next
  BY SameVocabulary DEF Transition, Lifecycle!Next, Lifecycle!Advance

\* Every step of a worker is a step of the lifecycle or leaves the scan row's
\* state as it was.
LEMMA WorkRefines ==
    ASSUME SingleDelivery, RunnerInv, NEW d \in Deliveries, Work(d)
    PROVE  Lifecycle!Next \/ UNCHANGED <<scanState, pausedFrom>>
  <1>t. TypeOK
    BY DEF RunnerInv
  <1>p. PositionAt(d)
    BY DEF RunnerInv, WorkerPosition
  <1>n. {"scope_verifying", "recon", "auth_establishing", "failed_auth", "crawling",
         "surface_mapping", "blocked_unverified"} \subseteq ScanState \ {"paused"}
    BY DEF ScanState
  <1>s. pc[d] \in RunPC \ {"loadScan"} => mem[d].machine = scanState
    BY <1>p DEF PositionAt
  <1>1. CASE \/ Receive(d) \/ InvalidTransition(d) \/ LoadScan(d) \/ LoadPhases(d) \/ LoadTarget(d)
            \/ Setup(d) \/ CrawlStart(d) \/ MapStart(d)
            \/ (\E added \in {{}, {"recon"}} : ReconFinish(d, added))
            \/ (\E p \in Personas, o \in LoginOutcome \ {"untried"} : Login(d, p, o))
            \/ (\E who \in Identity : Crawl(d, who))
    BY <1>1 DEF Receive, InvalidTransition, Retry, LoadScan, LoadPhases, LoadTarget, Setup,
              CrawlStart, MapStart, ReconFinish, Login, Crawl, dbVars
  <1>2. CASE ScopePassed(d)
    <2>1. scanState = "queued" /\ mem[d].machine = scanState
      BY <1>2, <1>t, <1>s, OnlyFromQueued DEF ScopePassed, Transition, RunPC, TypeOK
    <2> QED
      BY <1>2, <1>n, <2>1, TransitionAdvances DEF ScopePassed, ScanState
  <1>3. CASE ScopeBlocked(d)
    <2>1. scanState = "queued"
      BY <1>3, <1>t, <1>s, OnlyFromQueued DEF ScopeBlocked, RunPC, TypeOK
    <2>2. /\ CanTransition("queued", "scope_verifying")
          /\ CanTransition("scope_verifying", "blocked_unverified")
      BY DEF CanTransition, LinearTransitions, TERMINAL_STATES
    <2>3. scanState' = "blocked_unverified" /\ UNCHANGED pausedFrom
      BY <1>3 DEF ScopeBlocked
    <2>4. Lifecycle!Advance
      BY <1>n, <2>1, <2>2, <2>3, SameVocabulary DEF Lifecycle!Advance, ScanState
    <2> QED
      BY <2>4 DEF Lifecycle!Next
  <1>4. CASE ReconStart(d)
    <2>1. scanState = "scope_verifying" /\ mem[d].machine = scanState
      BY <1>4, <1>p, <1>s DEF ReconStart, PositionAt, AtPC, RunPC
    <2> QED
      BY <1>4, <1>n, <2>1, TransitionAdvances DEF ReconStart
  <1>5. CASE AuthStart(d)
    <2>1. scanState = "recon" /\ mem[d].machine = scanState
      BY <1>5, <1>p, <1>s DEF AuthStart, PositionAt, AtPC, RunPC
    <2> QED
      BY <1>5, <1>n, <2>1, TransitionAdvances DEF AuthStart
  <1>6. CASE AuthFailed(d)
    <2>1. scanState = "auth_establishing" /\ mem[d].machine = scanState
      BY <1>6, <1>p, <1>s DEF AuthFailed, PositionAt, AtPC, RunPC
    <2> QED
      BY <1>6, <1>n, <2>1, TransitionAdvances DEF AuthFailed
  <1>7. CASE CrawlFinish(d)
    <2>1. scanState = "crawling" /\ mem[d].machine = scanState
      BY <1>7, <1>p, <1>s DEF CrawlFinish, PositionAt, AtPC, RunPC
    <2> QED
      BY <1>7, <1>n, <2>1, TransitionAdvances DEF CrawlFinish
  <1>8. CASE AuthSkipped(d) \/ AuthAnonymous(d) \/ AuthEstablished(d)
    <2>1. PICK st, added : AuthFinish(d, st, added) /\ pc[d] = "auth"
      BY <1>8 DEF AuthSkipped, AuthAnonymous, AuthEstablished
    <2>2. scanState = "auth_establishing" /\ mem[d].machine = scanState
      BY <1>p, <1>s, <2>1 DEF PositionAt, AtPC, RunPC
    <2> QED
      BY <1>n, <2>1, <2>2, TransitionAdvances DEF AuthFinish
  <1>9. CASE MapFinish(d)
    <2>1. scanState = "surface_mapping" /\ mem[d].machine = scanState
      BY <1>9, <1>p, <1>s DEF MapFinish, PositionAt, AtPC, RunPC
    <2>2. Lifecycle!Pause
      BY <1>9, <1>n, <2>1, SameVocabulary DEF MapFinish, Transition, Lifecycle!Pause
    <2> QED
      BY <2>2 DEF Lifecycle!Next
  <1> QED
    BY <1>1, <1>2, <1>3, <1>4, <1>5, <1>6, <1>7, <1>8, <1>9 DEF Work

\* For a task delivered once the committed scan row implements ScanLifecycle:
\* what a polling client sees of (state, paused_from) is a path of legal
\* ScanStateMachine transitions from QUEUED, whatever fails and is retried.
THEOREM RunnerImplementsLifecycle ==
    ASSUME SingleDelivery
    PROVE  Spec => LifecycleSpec
  <1>1. Init => Lifecycle!Init
    BY SameVocabulary DEF Init, Lifecycle!Init
  <1>2. RunnerInv /\ [Next]_vars => [Lifecycle!Next]_(Lifecycle!vars)
    <2> SUFFICES ASSUME RunnerInv, [Next]_vars
                 PROVE  Lifecycle!Next \/ UNCHANGED <<scanState, pausedFrom>>
      BY DEF Lifecycle!vars
    <2>1. CASE \E d \in Deliveries : Work(d)
      BY <2>1, WorkRefines
    <2>2. CASE CreateCommit
      <3>1. scanState = NoState
        BY <2>2, RunnerAssumption DEF CreateCommit, RunnerInv, WorkerPosition, PositionAt
      <3>2. Lifecycle!Create
        BY <2>2, <3>1, SameVocabulary DEF CreateCommit, Lifecycle!Create
      <3> QED
        BY <3>2 DEF Lifecycle!Next
    <2>3. CASE CreateCheck \/ DispatchFails
      BY <2>3 DEF CreateCheck, DispatchFails, dbVars
    <2>4. CASE \E d \in Deliveries : Dispatch(d) \/ Raise(d) \/ Crash(d)
      BY <2>4 DEF Dispatch, Raise, Retry, Crash, dbVars
    <2>5. CASE \E d, e \in Deliveries : Redeliver(d, e)
      BY <2>5 DEF Redeliver, dbVars
    <2>6. CASE \/ \E b \in BOOLEAN : SetScannable(b)
               \/ \E p \in Personas : CreatePersona(p)
      BY <2>6 DEF SetScannable, CreatePersona, dbVars
    <2>7. CASE UNCHANGED vars
      BY <2>7 DEF vars, dbVars
    <2> QED
      BY <2>1, <2>2, <2>3, <2>4, <2>5, <2>6, <2>7 DEF Next
  <1> QED
    BY <1>1, <1>2, RunnerInvariant, PTL DEF Spec, LifecycleSpec, Lifecycle!Spec

-----------------------------------------------------------------------------
(* What is recorded is never taken back, for a single delivery.            *)

\* The phase rows other than those that are absent or in progress stay.
RowsKept ==
    \A d \in Deliveries, n \in PhaseName :
        rows[d][n] \notin {"absent", "running"} => rows'[d][n] = rows[d][n]

\* Writing the row of a phase that has not ended takes nothing back.
LEMMA OpenPhaseWritten ==
    ASSUME SingleDelivery, TypeOK, NEW d \in Deliveries, NEW n \in PhaseName,
           NEW s \in RowStatus, SetPhase(d, n, s) \/ (s = "running" /\ StartPhase(d, n)),
           rows[d][n] \in {"absent", "running"}
    PROVE  RowsKept
  <1>1. \A m \in PhaseName : m # n => rows'[d][m] = rows[d][m]
    BY SingleSetPhase, SingleStartPhase
  <1> QED
    BY <1>1 DEF RowsKept, SingleDelivery

\* The whole-list write of the notes a worker has in memory adds to the list.
LEMMA NotesAdded ==
    ASSUME NEW d \in Deliveries, NEW added, mem[d].notes = reasons, WriteNotes(d, added)
    PROVE  reasons \subseteq reasons'
  <1>1. CASE added = {}
    BY <1>1 DEF WriteNotes
  <1>2. CASE added # {}
    BY <1>2 DEF WriteNotes
  <1> QED
    BY <1>1, <1>2

\* A commit that writes no persona and no endpoint keeps the record if it
\* keeps the notes and the phases that ended.
LEMMA CommitKeeps ==
    ASSUME reasons \subseteq reasons', RowsKept, finishedAt' = finishedAt \/ finishedAt' = TRUE,
           UNCHANGED <<session, endpoints>>
    PROVE  Kept
  BY DEF Kept, RowsKept

\* Every commit of run_scan adds to the record: the phase it writes was open,
\* the notes in memory are the committed ones, no persona had a session before
\* the logins and no endpoint was there before the pause.
LEMMA WorkKeepsRecord ==
    ASSUME SingleDelivery, LoginsInv, NEW d \in Deliveries, Work(d)
    PROVE  Kept \/ UNCHANGED dbVars
  <1>t. TypeOK /\ RowsAt(d) /\ PositionAt(d) /\ TablesOK
    BY DEF LoginsInv, TablesTell, RunnerInv, RowsTellTheState, WorkerPosition
  <1>s. pc[d] \in RunPC \ {"loadScan"} => mem[d].machine = scanState /\ mem[d].notes = reasons
    BY <1>t DEF PositionAt
  <1>o. {"absent", "running", "completed", "skipped", "failed"} \subseteq RowStatus
    BY DEF RowStatus
  <1>1. CASE \/ Receive(d) \/ InvalidTransition(d) \/ LoadScan(d) \/ LoadPhases(d) \/ LoadTarget(d)
            \/ Setup(d)
            \/ (\E p \in Personas, o \in LoginOutcome \ {"untried"} : Login(d, p, o))
            \/ (\E who \in Identity : Crawl(d, who))
    BY <1>1 DEF Receive, InvalidTransition, Retry, LoadScan, LoadPhases, LoadTarget, Setup,
              Login, Crawl
  <1>2. CASE ScopePassed(d) \/ ScopeBlocked(d)
    <2>1. scanState = "queued"
      BY <1>2, <1>t, <1>s, OnlyFromQueued DEF ScopePassed, ScopeBlocked, Transition, RunPC, TypeOK
    <2>2. rows[d]["scope_verifying"] \in {"absent", "running"}
      BY <1>t, <2>1 DEF RowsAt, Phases, None, NoState
    <2>3. RowsKept
      BY <1>2, <1>t, <1>o, <2>2, PhaseNames, OpenPhaseWritten DEF ScopePassed, ScopeBlocked
    <2> QED
      BY <1>2, <2>3, CommitKeeps DEF ScopePassed, ScopeBlocked
  <1>3. CASE ReconStart(d)
    <2>1. rows[d]["recon"] \in {"absent", "running"}
      BY <1>3, <1>t DEF ReconStart, PositionAt, AtPC
    <2>2. RowsKept
      BY <1>3, <1>t, <1>o, <2>1, PhaseNames, OpenPhaseWritten DEF ReconStart
    <2> QED
      BY <1>3, <2>2, CommitKeeps DEF ReconStart
  <1>4. CASE \E added \in {{}, {"recon"}} : ReconFinish(d, added)
    <2>0. PICK added \in {{}, {"recon"}} : ReconFinish(d, added)
      BY <1>4
    <2>1. rows[d]["recon"] \in {"absent", "running"} /\ mem[d].notes = reasons
      BY <1>t, <1>s, <2>0 DEF ReconFinish, PositionAt, AtPC, RunPC
    <2>2. RowsKept
      BY <1>t, <1>o, <2>0, <2>1, PhaseNames, OpenPhaseWritten DEF ReconFinish
    <2>3. reasons \subseteq reasons'
      BY <2>0, <2>1, NotesAdded DEF ReconFinish
    <2> QED
      BY <2>0, <2>2, <2>3, CommitKeeps DEF ReconFinish
  <1>5. CASE AuthStart(d)
    <2>1. scanState = "recon"
      BY <1>5, <1>t DEF AuthStart, PositionAt, AtPC
    <2>2. rows[d]["auth_establishing"] \in {"absent", "running"}
      BY <1>t, <2>1 DEF RowsAt, Phases, None, NoState
    <2>3. RowsKept
      BY <1>5, <1>t, <1>o, <2>2, PhaseNames, OpenPhaseWritten DEF AuthStart
    <2> QED
      BY <1>5, <2>3, CommitKeeps DEF AuthStart
  <1>6. CASE AuthSkipped(d) \/ AuthAnonymous(d) \/ AuthEstablished(d)
    <2>1. PICK st, added : /\ AuthFinish(d, st, added) /\ pc[d] = "auth"
                              /\ st \in {"completed", "skipped"}
      BY <1>6 DEF AuthSkipped, AuthAnonymous, AuthEstablished
    <2>2. /\ rows[d]["auth_establishing"] \in {"absent", "running"} /\ mem[d].notes = reasons
          /\ scanState = "auth_establishing"
      BY <1>t, <1>s, <2>1 DEF PositionAt, AtPC, RunPC
    <2>3. RowsKept
      BY <1>t, <1>o, <2>1, <2>2, PhaseNames, OpenPhaseWritten DEF AuthFinish
    <2>4. reasons \subseteq reasons'
      BY <2>1, <2>2, NotesAdded DEF AuthFinish
    <2>5. \A p \in Personas : session[p] = "untried"
      BY <1>t, <2>2 DEF TablesOK, BeforeLogins
    <2> QED
      BY <2>1, <2>3, <2>4, <2>5 DEF Kept, RowsKept, AuthFinish
  <1>7. CASE AuthFailed(d)
    <2>1. rows[d]["auth_establishing"] \in {"absent", "running"} /\ scanState = "auth_establishing"
      BY <1>7, <1>t DEF AuthFailed, PositionAt, AtPC
    <2>2. RowsKept
      BY <1>7, <1>t, <1>o, <2>1, PhaseNames, OpenPhaseWritten DEF AuthFailed
    <2>3. \A p \in Personas : session[p] = "untried"
      BY <1>t, <2>1 DEF TablesOK, BeforeLogins
    <2> QED
      BY <1>7, <2>2, <2>3 DEF Kept, RowsKept, AuthFailed
  <1>8. CASE CrawlStart(d) \/ CrawlFinish(d)
    <2>1. rows[d]["crawling"] \in {"absent", "running"}
      BY <1>8, <1>t DEF CrawlStart, CrawlFinish, PositionAt, AtPC
    <2>2. RowsKept
      BY <1>8, <1>t, <1>o, <2>1, PhaseNames, OpenPhaseWritten DEF CrawlStart, CrawlFinish
    <2> QED
      BY <1>8, <2>2, CommitKeeps DEF CrawlStart, CrawlFinish
  <1>9. CASE MapStart(d)
    <2>1. rows[d]["surface_mapping"] \in {"absent", "running"}
      BY <1>9, <1>t DEF MapStart, PositionAt, AtPC
    <2>2. RowsKept
      BY <1>9, <1>t, <1>o, <2>1, PhaseNames, OpenPhaseWritten DEF MapStart
    <2> QED
      BY <1>9, <2>2, CommitKeeps DEF MapStart
  <1>10. CASE MapFinish(d)
    <2>1. /\ rows[d]["surface_mapping"] \in {"absent", "running"} /\ mem[d].notes = reasons
          /\ scanState = "surface_mapping"
      BY <1>10, <1>t, <1>s DEF MapFinish, PositionAt, AtPC, RunPC
    <2>2. RowsKept
      BY <1>10, <1>t, <1>o, <2>1, PhaseNames, OpenPhaseWritten DEF MapFinish
    <2>3. reasons \subseteq reasons'
      BY <1>10, <2>1, NotesAdded DEF MapFinish
    <2>4. endpoints = {}
      BY <1>t, <2>1 DEF TablesOK
    <2> QED
      BY <1>10, <2>2, <2>3, <2>4 DEF Kept, RowsKept, MapFinish
  <1> QED
    BY <1>1, <1>2, <1>3, <1>4, <1>5, <1>6, <1>7, <1>8, <1>9, <1>10 DEF Work

\* For a task delivered once, with any number of personas, retries, exceptions
\* and worker deaths, nothing the scan's rows have recorded is ever taken back.
THEOREM RecordAlwaysKept ==
    ASSUME SingleDelivery
    PROVE  Spec => RecordIsKept
  <1>1. LoginsInv /\ [Next]_vars => [Kept]_dbVars
    <2> SUFFICES ASSUME LoginsInv, [Next]_vars PROVE Kept \/ UNCHANGED dbVars
      OBVIOUS
    <2>1. CASE \E d \in Deliveries : Work(d)
      BY <2>1, WorkKeepsRecord
    <2>2. CASE CreateCommit
      BY <2>2 DEF CreateCommit, Kept
    <2>3. CASE CreateCheck \/ DispatchFails
      BY <2>3 DEF CreateCheck, DispatchFails
    <2>4. CASE \E d \in Deliveries : Dispatch(d) \/ Raise(d) \/ Crash(d)
      BY <2>4 DEF Dispatch, Raise, Retry, Crash
    <2>5. CASE \E d, e \in Deliveries : Redeliver(d, e)
      BY <2>5 DEF Redeliver
    <2>6. CASE \/ \E b \in BOOLEAN : SetScannable(b)
               \/ \E p \in Personas : CreatePersona(p)
      BY <2>6 DEF SetScannable, CreatePersona
    <2>7. CASE UNCHANGED vars
      BY <2>7 DEF vars
    <2> QED
      BY <2>1, <2>2, <2>3, <2>4, <2>5, <2>6, <2>7 DEF Next
  <1> QED
    BY <1>1, LoginsInvariant, PTL DEF Spec, RecordIsKept

-----------------------------------------------------------------------------
(* The sessions behind the surface, for any number of deliveries.          *)

SessionsInv == SurfaceHasSessions /\ LoginsStored

\* What no step takes back: recipes, the configured key and stored sessions.
SessionsStay ==
    /\ recipes \subseteq recipes'
    /\ kmsKey' = kmsKey
    /\ \A p \in Personas : session[p] # "untried" => session'[p] # "untried"

\* The tasks that do not move keep what they know.
LEMMA StoredElsewhere ==
    ASSUME LoginsStored, SessionsStay, NEW d \in Deliveries, StoredAt(d)',
           \A e \in Deliveries \ {d} : pc'[e] = pc[e] /\ mem'[e] = mem[e]
    PROVE  LoginsStored'
  <1> SUFFICES ASSUME NEW e \in Deliveries, e # d PROVE StoredAt(e)'
    BY DEF LoginsStored
  <1>1. LoggedIn(e)' = LoggedIn(e)
    BY DEF LoggedIn
  <1> QED
    BY <1>1 DEF LoginsStored, StoredAt, SessionsStay, LoggedIn

\* A step that leaves the login results and the surfaces of a task alone.
LEMMA StoredHere ==
    ASSUME LoginsStored, SessionsStay, NEW d \in Deliveries,
           mem'[d].configured = mem[d].configured, mem'[d].login = mem[d].login,
           mem'[d].surfaces = mem[d].surfaces,
           pc'[d] \in AfterLogins => pc[d] \in AfterLogins
    PROVE  StoredAt(d)'
  <1>1. LoggedIn(d)' = LoggedIn(d)
    BY DEF LoggedIn
  <1> QED
    BY <1>1 DEF LoginsStored, StoredAt, SessionsStay, LoggedIn

\* A closed session knows of no login.
LEMMA StoredClosed ==
    ASSUME NEW d \in Deliveries, mem'[d] = NoMem
    PROVE  StoredAt(d)'
  <1>1. LoggedIn(d)' = {}
    BY DEF LoggedIn, NoMem
  <1> QED
    BY <1>1 DEF StoredAt, NoMem

\* The persona rows a worker writes keep every stored session, its own or not,
\* and store one for each of its logins.
LEMMA SessionsWritten ==
    ASSUME NEW d \in Deliveries, WritePersonas(d)
    PROVE  /\ \A p \in Personas : session[p] # "untried" => session'[p] # "untried"
           /\ \A p \in LoggedIn(d) : session'[p] # "untried"
  BY DEF WritePersonas, LoggedIn

\* With the sessions kept, the surface stays covered unless it grows.
LEMMA SurfaceCovered ==
    ASSUME SurfaceHasSessions, SessionsStay, TypeOK, UNCHANGED endpoints
    PROVE  SurfaceHasSessions'
  BY DEF SurfaceHasSessions, SessionsStay, TypeOK, Identity

\* A commit that touches a phase and no persona keeps the sessions.
LEMMA CommitStores ==
    ASSUME SessionsInv, TypeOK, NEW d \in Deliveries, NEW n \in PhaseName, NEW t, NEW added,
           NEW q, Remember(d, n, t, added), Goto(d, q),
           q \in AfterLogins => pc[d] \in AfterLogins, UNCHANGED <<session, endpoints>>
    PROVE  SessionsInv'
  <1>1. SessionsStay
    BY DEF SessionsStay, Goto, envVars
  <1>2. StoredAt(d)'
    BY <1>1, RememberEffect, RememberKeepsLogins, GotoEffect, StoredHere DEF SessionsInv
  <1>3. LoginsStored'
    BY <1>1, <1>2, RememberEffect, GotoEffect, StoredElsewhere DEF SessionsInv
  <1> QED
    BY <1>1, <1>3, SurfaceCovered DEF SessionsInv

\* The commit that ends AUTH_ESTABLISHING, when whoever logged in is stored.
LEMMA AuthStores ==
    ASSUME SessionsInv, TypeOK, NEW d \in Deliveries, NEW st, NEW added,
           AuthFinish(d, st, added), SessionsStay,
           \A p \in LoggedIn(d) : session'[p] # "untried"
    PROVE  SessionsInv'
  <1>1. /\ mem'[d].login = mem[d].login /\ mem'[d].surfaces = mem[d].surfaces
        /\ mem'[d].configured = mem[d].configured
        /\ \A e \in Deliveries \ {d} : pc'[e] = pc[e] /\ mem'[e] = mem[e]
    BY PhaseNames, RememberEffect, RememberKeepsLogins, GotoEffect DEF AuthFinish
  <1>2. LoggedIn(d)' = LoggedIn(d)
    BY <1>1 DEF LoggedIn
  <1>3. StoredAt(d)'
    BY <1>1, <1>2 DEF SessionsInv, LoginsStored, StoredAt, SessionsStay
  <1>4. LoginsStored'
    BY <1>1, <1>3, StoredElsewhere DEF SessionsInv
  <1> QED
    BY <1>4, SurfaceCovered DEF SessionsInv, AuthFinish

\* A worker's step keeps the sessions behind the surface.
LEMMA WorkStores ==
    ASSUME SessionsInv, TypeOK, MapReady, NEW d \in Deliveries, Work(d)
    PROVE  SessionsInv'
  <1>s. LoginsStored /\ SurfaceHasSessions /\ StoredAt(d)
    BY DEF SessionsInv, LoginsStored
  <1>u. ASSUME UNCHANGED <<dbVars, envVars>>, StoredAt(d)',
               \A e \in Deliveries \ {d} : pc'[e] = pc[e] /\ mem'[e] = mem[e]
        PROVE  SessionsInv'
    <2>1. SessionsStay /\ UNCHANGED endpoints
      BY <1>u DEF SessionsStay, dbVars, envVars
    <2> QED
      BY <1>s, <1>u, <2>1, StoredElsewhere, SurfaceCovered DEF SessionsInv
  <1>l. UNCHANGED <<dbVars, envVars>> => SessionsStay
    BY DEF SessionsStay, dbVars, envVars
  <1>1. CASE Receive(d)
    <2>1. StoredAt(d)'
      BY <1>1, <1>s, <1>l, StoredHere DEF Receive, TypeOK, AfterLogins
    <2> QED
      BY <1>1, <1>u, <2>1 DEF Receive, TypeOK
  <1>2. CASE InvalidTransition(d)
    <2>1. StoredAt(d)'
      BY <1>2, StoredClosed DEF InvalidTransition, Retry, TypeOK
    <2> QED
      BY <1>2, <1>u, <2>1 DEF InvalidTransition, Retry, TypeOK
  <1>3. CASE LoadScan(d) \/ LoadPhases(d) \/ LoadTarget(d)
    <2>1. /\ UNCHANGED <<dbVars, envVars>>
          /\ \A e \in Deliveries \ {d} : pc'[e] = pc[e] /\ mem'[e] = mem[e]
          /\ pc'[d] \notin AfterLogins
      BY <1>3 DEF LoadScan, LoadPhases, LoadTarget, Goto, TypeOK, AfterLogins
    <2>2. /\ mem'[d].configured = mem[d].configured /\ mem'[d].login = mem[d].login
          /\ mem'[d].surfaces = mem[d].surfaces
      BY <1>3 DEF LoadScan, LoadPhases, LoadTarget, TypeOK, Mem
    <2> QED
      BY <1>s, <1>l, <1>u, <2>1, <2>2, StoredHere
  <1>4. CASE Setup(d)
    <2>1. /\ UNCHANGED <<dbVars, envVars>>
          /\ \A e \in Deliveries \ {d} : pc'[e] = pc[e] /\ mem'[e] = mem[e]
          /\ pc'[d] \notin AfterLogins
      BY <1>4 DEF Setup, Goto, TypeOK, AfterLogins
    <2>2. /\ mem'[d].configured = recipes /\ mem'[d].login = mem[d].login
          /\ mem'[d].surfaces = mem[d].surfaces
      BY <1>4 DEF Setup, TypeOK, Mem
    <2>3. LoggedIn(d)' = LoggedIn(d)
      BY <2>2 DEF LoggedIn
    <2>4. StoredAt(d)'
      BY <1>s, <2>1, <2>2, <2>3 DEF StoredAt, envVars
    <2> QED
      BY <1>u, <2>1, <2>4
  <1>5. ASSUME NEW p \in Personas, NEW o \in LoginOutcome \ {"untried"}, Login(d, p, o)
        PROVE  SessionsInv'
    <2>1. /\ UNCHANGED <<dbVars, envVars>>
          /\ \A e \in Deliveries \ {d} : pc'[e] = pc[e] /\ mem'[e] = mem[e]
          /\ pc'[d] \notin AfterLogins
      BY <1>5 DEF Login, Goto, TypeOK, AfterLogins
    <2>2. /\ mem'[d].configured = mem[d].configured /\ mem'[d].surfaces = mem[d].surfaces
          /\ mem'[d].login = [mem[d].login EXCEPT ![p] = o]
          /\ mem[d].login \in [Personas -> LoginOutcome]
      BY <1>5 DEF Login, TypeOK, Mem
    <2>3. LoggedIn(d) \subseteq LoggedIn(d)'
      BY <1>5, <2>2 DEF LoggedIn, Login
    <2>4. StoredAt(d)'
      BY <1>5, <1>s, <2>1, <2>2, <2>3 DEF StoredAt, Login, envVars
    <2> QED
      BY <1>u, <2>1, <2>4
  <1>6. ASSUME NEW who \in Identity, Crawl(d, who)
        PROVE  SessionsInv'
    <2>1. /\ UNCHANGED <<dbVars, envVars>>
          /\ \A e \in Deliveries \ {d} : pc'[e] = pc[e] /\ mem'[e] = mem[e]
          /\ pc[d] = "crawl"
      BY <1>6 DEF Crawl, Goto, TypeOK
    <2>2. /\ mem'[d].configured = mem[d].configured /\ mem'[d].login = mem[d].login
          /\ mem'[d].surfaces = mem[d].surfaces \cup {who}
      BY <1>6 DEF Crawl, TypeOK, Mem
    <2>3. LoggedIn(d)' = LoggedIn(d)
      BY <2>2 DEF LoggedIn
    <2>4. who \in LoggedIn(d) \cup {Anonymous}
      BY <1>6 DEF Crawl
    <2>5. StoredAt(d)'
      BY <1>s, <2>1, <2>2, <2>3, <2>4 DEF StoredAt, AfterLogins, dbVars, envVars
    <2> QED
      BY <1>u, <2>1, <2>5
  <1>7. CASE ScopePassed(d)
    BY <1>7, PhaseNames, CommitStores DEF ScopePassed, AfterLogins
  <1>8. CASE ReconStart(d)
    BY <1>8, PhaseNames, CommitStores DEF ReconStart, AfterLogins
  <1>9. CASE \E added \in {{}, {"recon"}} : ReconFinish(d, added)
    BY <1>9, PhaseNames, CommitStores DEF ReconFinish, AfterLogins
  <1>10. CASE AuthStart(d)
    BY <1>10, PhaseNames, CommitStores DEF AuthStart, AfterLogins
  <1>11. CASE CrawlStart(d)
    BY <1>11, PhaseNames, CommitStores DEF CrawlStart, AfterLogins
  <1>12. CASE CrawlFinish(d)
    BY <1>12, PhaseNames, CommitStores DEF CrawlFinish, AfterLogins
  <1>13. CASE MapStart(d)
    BY <1>13, PhaseNames, CommitStores DEF MapStart, AfterLogins
  <1>14. CASE AuthSkipped(d) \/ AuthAnonymous(d)
    <2>1. LoggedIn(d) = {}
      BY <1>14, <1>s DEF AuthSkipped, AuthAnonymous, StoredAt, LoggedIn
    <2>2. PICK st, added : AuthFinish(d, st, added) /\ UNCHANGED session
      BY <1>14 DEF AuthSkipped, AuthAnonymous
    <2>3. SessionsStay
      BY <2>2 DEF SessionsStay, AuthFinish, Goto, envVars
    <2> QED
      BY <2>1, <2>2, <2>3, AuthStores
  <1>15. CASE AuthEstablished(d)
    <2>1. PICK st, added : AuthFinish(d, st, added) /\ WritePersonas(d)
      BY <1>15 DEF AuthEstablished
    <2>2. SessionsStay /\ \A p \in LoggedIn(d) : session'[p] # "untried"
      BY <2>1, SessionsWritten DEF SessionsStay, AuthFinish, Goto, envVars
    <2> QED
      BY <2>1, <2>2, AuthStores
  <1>16. CASE ScopeBlocked(d) \/ AuthFailed(d)
    <2>1. SessionsStay /\ UNCHANGED endpoints
      BY <1>16, SessionsWritten DEF ScopeBlocked, AuthFailed, SessionsStay, Goto, envVars
    <2>2. /\ StoredAt(d)'
          /\ \A e \in Deliveries \ {d} : pc'[e] = pc[e] /\ mem'[e] = mem[e]
      BY <1>16, StoredClosed DEF ScopeBlocked, AuthFailed, Goto, TypeOK
    <2> QED
      BY <1>s, <2>1, <2>2, StoredElsewhere, SurfaceCovered DEF SessionsInv
  <1>17. CASE MapFinish(d)
    <2>1. SessionsStay /\ UNCHANGED <<session, recipes>>
      BY <1>17 DEF MapFinish, SessionsStay, Goto, envVars
    <2>2. /\ StoredAt(d)'
          /\ \A e \in Deliveries \ {d} : pc'[e] = pc[e] /\ mem'[e] = mem[e]
      BY <1>17, StoredClosed DEF MapFinish, Goto, TypeOK
    <2>3. /\ Anonymous \in mem[d].surfaces
          /\ \A p \in mem[d].surfaces \ {Anonymous} : p \in recipes /\ session[p] # "untried"
      BY <1>17, <1>s DEF MapFinish, MapReady, StoredAt, AfterLogins, LoggedIn
    <2>4. SurfaceHasSessions'
      BY <1>17, <1>s, <2>1, <2>3 DEF MapFinish, SurfaceHasSessions
    <2> QED
      BY <1>s, <2>1, <2>2, <2>4, StoredElsewhere DEF SessionsInv
  <1> QED
    BY <1>1, <1>2, <1>3, <1>4, <1>5, <1>6, <1>7, <1>8, <1>9, <1>10, <1>11, <1>12, <1>13,
       <1>14, <1>15, <1>16, <1>17 DEF Work

\* So do the steps that are no worker's: a new persona only adds a recipe.
LEMMA OtherStores ==
    ASSUME SessionsInv, TypeOK, [Next]_vars, \A d \in Deliveries : ~Work(d)
    PROVE  SessionsInv'
  <1>s. LoginsStored /\ SurfaceHasSessions
    BY DEF SessionsInv
  <1>1. SessionsStay /\ UNCHANGED endpoints
    BY DEF Next, CreateCheck, CreateCommit, DispatchFails, Dispatch, Raise, Crash, Retry,
           Redeliver, SetScannable, CreatePersona, SessionsStay, dbVars, envVars, vars
  <1>2. ASSUME NEW e \in Deliveries PROVE StoredAt(e)'
    <2>1. \/ mem'[e] = NoMem
          \/ mem'[e] = mem[e] /\ (pc'[e] \in AfterLogins => pc[e] \in AfterLogins)
      BY DEF Next, CreateCheck, CreateCommit, DispatchFails, Dispatch, Raise, Crash, Retry,
             Redeliver, SetScannable, CreatePersona, AfterLogins, taskVars, vars, TypeOK
    <2> QED
      BY <1>s, <1>1, <2>1, StoredHere, StoredClosed
  <1> QED
    BY <1>s, <1>1, <1>2, SurfaceCovered DEF SessionsInv, LoginsStored

\* However often the message is delivered, whatever fails and in whatever order
\* the runs log in, crawl and merge, every persona with endpoints has a stored
\* session, and the anonymous endpoints are there to compare with.
THEOREM SurfaceAlwaysHasSessions == Spec => []SurfaceHasSessions
  <1>1. Init => SessionsInv
    <2> SUFFICES ASSUME Init PROVE SessionsInv
      OBVIOUS
    <2>1. SurfaceHasSessions
      BY DEF Init, SurfaceHasSessions
    <2>2. \A d \in Deliveries : mem[d] = NoMem /\ pc[d] = "unsent"
      BY DEF Init
    <2>3. LoginsStored
      BY <2>2 DEF LoginsStored, StoredAt, NoMem, LoggedIn, AfterLogins
    <2> QED
      BY <2>1, <2>3 DEF SessionsInv
  <1>2. SessionsInv /\ EvidenceInv /\ [Next]_vars => SessionsInv'
    BY WorkStores, OtherStores DEF EvidenceInv
  <1>3. SessionsInv => SurfaceHasSessions
    BY DEF SessionsInv
  <1> QED
    BY <1>1, <1>2, <1>3, EvidenceInvariant, PTL DEF Spec
=============================================================================

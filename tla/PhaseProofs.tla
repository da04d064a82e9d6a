---------------------------- MODULE PhaseProofs ----------------------------
(***************************************************************************)
(* The scan's state machine and what two of its phases do: a recon phase   *)
(* and the login of a persona.  The modules share no state; each has its   *)
(* own specification and its own inductive invariant.                      *)
(***************************************************************************)
EXTENDS ScanStateMachine, PersonaLogin, Recon, TLAPS

-----------------------------------------------------------------------------
(* The state machine.                                                      *)

\* A new machine is well typed.
LEMMA MachineTypeInit == MachineInit => MachineTypeOK
  BY DEF MachineInit, MachineTypeOK, ScanState

\* transition() and resume() keep the types.
LEMMA MachineTypeStep == MachineTypeOK /\ [MachineNext]_machineVars => MachineTypeOK'
  <1> SUFFICES ASSUME MachineTypeOK, [MachineNext]_machineVars PROVE MachineTypeOK'
    OBVIOUS
  <1>1. ASSUME NEW t \in ScanState, NEW r \in Reasons \cup {NoReason}, Transition(t, r)
        PROVE  MachineTypeOK'
    <2>1. Append(trail, t) \in Seq(ScanState)
      BY DEF MachineTypeOK
    <2> QED
      BY <1>1, <2>1 DEF Transition, MachineTypeOK
  <1>2. CASE Resume
    <2>1. pausedFrom \in ScanState
      BY <1>2 DEF Resume, MachineTypeOK
    <2>2. Append(trail, pausedFrom) \in Seq(ScanState)
      BY <2>1 DEF MachineTypeOK
    <2> QED
      BY <1>2, <2>1, <2>2 DEF Resume, MachineTypeOK
  <1>3. CASE UNCHANGED machineVars
    BY <1>3 DEF machineVars, MachineTypeOK
  <1> QED
    BY <1>1, <1>2, <1>3 DEF MachineNext

\* transition() and resume() keep every attribute of the machine in its type.
THEOREM MachineTyped == MachineSpec => []MachineTypeOK
  BY MachineTypeInit, MachineTypeStep, PTL DEF MachineSpec

\* A legal transition other than a pause, a cancel or a failure leaves a
\* pipeline state that is neither terminal nor PAUSED.
LEMMA LinearFrom ==
    ASSUME NEW s, NEW t, CanTransition(s, t), t \notin {"paused", "cancelled", "failed"}
    PROVE  s \notin TERMINAL_STATES \cup {"paused"} /\ t \in LinearTransitions(s)
  <1>1. LinearTransitions("paused") = {}
    BY DEF LinearTransitions
  <1> QED
    BY <1>1 DEF CanTransition

\* transition() records the state it pauses, and resume() clears it.
LEMMA PauseStep ==
    MachineTypeOK /\ PausePointKnown /\ [MachineNext]_machineVars => PausePointKnown'
  <1> SUFFICES ASSUME MachineTypeOK, PausePointKnown, [MachineNext]_machineVars
               PROVE  PausePointKnown'
    OBVIOUS
  <1>1. ASSUME NEW t \in ScanState, NEW r, Transition(t, r) PROVE PausePointKnown'
    <2>1. current' = t /\ pausedFrom' = (IF t = "paused" THEN current ELSE pausedFrom)
      BY <1>1 DEF Transition
    <2>2. CASE t = "paused"
      <3>1. current \in INTERRUPTIBLE_STATES
        BY <1>1, <2>2 DEF Transition, CanTransition, LinearTransitions, INTERRUPTIBLE_STATES,
                          MachineTypeOK
      <3> QED
        BY <2>1, <2>2, <3>1 DEF PausePointKnown
    <2>3. CASE t \in {"cancelled", "failed"}
      BY <2>1, <2>3 DEF PausePointKnown
    <2>4. CASE t \notin {"paused", "cancelled", "failed"}
      <3>1. current \notin TERMINAL_STATES \cup {"paused"}
        BY <1>1, <2>4, LinearFrom DEF Transition
      <3>2. pausedFrom = NoState
        BY <3>1 DEF PausePointKnown, TERMINAL_STATES
      <3> QED
        BY <2>1, <2>4, <3>2 DEF PausePointKnown
    <2> QED
      BY <2>2, <2>3, <2>4
  <1>2. CASE Resume
    BY <1>2 DEF Resume, PausePointKnown, INTERRUPTIBLE_STATES
  <1>3. CASE UNCHANGED machineVars
    BY <1>3 DEF machineVars, PausePointKnown
  <1> QED
    BY <1>1, <1>2, <1>3 DEF MachineNext

\* resume() always has a state to go back to, and nothing but a pause, or the
\* end of a paused scan, leaves one behind.
THEOREM PauseAlwaysKnown == MachineSpec => []PausePointKnown
  <1>1. MachineInit => PausePointKnown
    BY DEF MachineInit, PausePointKnown
  <1> QED
    BY <1>1, MachineTypeInit, MachineTypeStep, PauseStep, PTL DEF MachineSpec

\* Where the pipeline states stand in LinearPath.
LEMMA PathFacts ==
    /\ Len(LinearPath) = 12
    /\ \A i, j \in 1..12 : LinearPath[i] = LinearPath[j] => i = j
    /\ \A i \in 1..12 : LinearPath[i] \in ScanState
    /\ \A i \in 1..12 : LinearPath[i] \notin
          {"paused", "cancelled", "failed", "blocked_unverified", "failed_auth"}
  <1>1. /\ LinearPath[1] = "queued" /\ LinearPath[2] = "scope_verifying"
        /\ LinearPath[3] = "recon" /\ LinearPath[4] = "auth_establishing"
        /\ LinearPath[5] = "crawling" /\ LinearPath[6] = "surface_mapping"
        /\ LinearPath[7] = "passive_checks" /\ LinearPath[8] = "testing"
        /\ LinearPath[9] = "verifying" /\ LinearPath[10] = "triaging"
        /\ LinearPath[11] = "reporting" /\ LinearPath[12] = "complete"
        /\ Len(LinearPath) = 12
    BY DEF LinearPath
  <1>2. \A i \in 1..12 : i \in {1, 2, 3, 4, 5, 6, 7, 8, 9, 10, 11, 12}
    OBVIOUS
  <1> QED
    BY <1>1, <1>2 DEF ScanState

\* What follows a pipeline state on the path.
LEMMA PathSteps ==
    ASSUME NEW m \in 1..12, NEW t \in LinearTransitions(LinearPath[m])
    PROVE  t \in {"blocked_unverified", "failed_auth"} \/ (m < 12 /\ t = LinearPath[m + 1])
  <1>1. m \in {1, 2, 3, 4, 5, 6, 7, 8, 9, 10, 11, 12}
    OBVIOUS
  <1> QED
    BY <1>1 DEF LinearPath, LinearTransitions

\* The pipeline states the scan has been in.
Entered == {i \in 1..12 : \E k \in 1..Len(trail) : trail[k] = LinearPath[i]}

\* They are the first m of the path, and the scan is in the m-th, is paused
\* in it, or has left the path for good.
PathInv ==
    \E m \in 1..12 :
        /\ Entered = 1..m
        /\ \/ current = LinearPath[m]
           \/ current = "paused" /\ pausedFrom = LinearPath[m]
           \/ current \in {"cancelled", "failed", "blocked_unverified", "failed_auth"}

\* What an appended state adds to them.
LEMMA EnteredNext ==
    ASSUME MachineTypeOK, NEW t \in ScanState, trail' = Append(trail, t)
    PROVE  Entered' = Entered \cup {i \in 1..12 : t = LinearPath[i]}
  <1>1. /\ Len(trail') = Len(trail) + 1 /\ Len(trail) \in Nat
        /\ \A k \in 1..Len(trail) : trail'[k] = trail[k]
        /\ trail'[Len(trail) + 1] = t
    BY DEF MachineTypeOK
  <1>2. \A k \in 1..Len(trail') : k \in 1..Len(trail) \/ k = Len(trail) + 1
    BY <1>1
  <1>3. 1..Len(trail) \subseteq 1..Len(trail') /\ Len(trail) + 1 \in 1..Len(trail')
    BY <1>1
  <1> QED
    BY <1>1, <1>2, <1>3 DEF Entered

\* A step goes to the next state of the path, leaves it for good, pauses, or
\* returns to the state that was paused.
LEMMA PathStep ==
    MachineTypeOK /\ PausePointKnown /\ PathInv /\ [MachineNext]_machineVars => PathInv'
  <1> SUFFICES ASSUME MachineTypeOK, PausePointKnown, PathInv, [MachineNext]_machineVars
               PROVE  PathInv'
    OBVIOUS
  <1>m. PICK m \in 1..12 :
          /\ Entered = 1..m
          /\ \/ current = LinearPath[m]
             \/ current = "paused" /\ pausedFrom = LinearPath[m]
             \/ current \in {"cancelled", "failed", "blocked_unverified", "failed_auth"}
    BY DEF PathInv
  <1>1. ASSUME NEW t \in ScanState, NEW r, Transition(t, r) PROVE PathInv'
    <2>1. /\ CanTransition(current, t) /\ current' = t /\ trail' = Append(trail, t)
          /\ pausedFrom' = IF t = "paused" THEN current ELSE pausedFrom
      BY <1>1 DEF Transition
    <2>2. Entered' = Entered \cup {i \in 1..12 : t = LinearPath[i]}
      BY <2>1, EnteredNext
    <2>3. current \notin TERMINAL_STATES
      BY <2>1 DEF CanTransition
    <2>4. CASE t \in {"paused", "cancelled", "failed", "blocked_unverified", "failed_auth"}
      <3>1. Entered' = 1..m
        BY <1>m, <2>2, <2>4, PathFacts
      <3>2. t = "paused" => current = LinearPath[m]
        BY <1>m, <2>1, <2>3 DEF CanTransition, LinearTransitions, TERMINAL_STATES
      <3> QED
        BY <2>1, <2>4, <3>1, <3>2 DEF PathInv
    <2>5. CASE t \notin {"paused", "cancelled", "failed", "blocked_unverified", "failed_auth"}
      <3>1. current # "paused" /\ t \in LinearTransitions(current)
        BY <2>1, <2>5, LinearFrom
      <3>2. current = LinearPath[m]
        BY <1>m, <2>3, <3>1 DEF TERMINAL_STATES
      <3>3. m < 12 /\ t = LinearPath[m + 1]
        BY <2>5, <3>1, <3>2, PathSteps
      <3>4. m + 1 \in 1..12 /\ {i \in 1..12 : t = LinearPath[i]} = {m + 1}
        BY <3>3, PathFacts
      <3>5. Entered' = 1..(m + 1)
        BY <1>m, <2>2, <3>4
      <3> QED
        BY <2>1, <3>3, <3>4, <3>5 DEF PathInv
    <2> QED
      BY <2>4, <2>5
  <1>2. CASE Resume
    <2>1. /\ current' = LinearPath[m] /\ pausedFrom = LinearPath[m]
          /\ trail' = Append(trail, pausedFrom)
      BY <1>2, <1>m, PathFacts DEF Resume
    <2>2. Entered' = Entered \cup {i \in 1..12 : pausedFrom = LinearPath[i]}
      BY <2>1, PathFacts, EnteredNext
    <2>3. Entered' = 1..m
      BY <1>m, <2>1, <2>2, PathFacts
    <2> QED
      BY <2>1, <2>3 DEF PathInv
  <1>3. CASE UNCHANGED machineVars
    <2>1. Entered' = Entered /\ UNCHANGED <<current, pausedFrom>>
      BY <1>3 DEF machineVars, Entered
    <2> QED
      BY <1>m, <2>1 DEF PathInv
  <1> QED
    BY <1>1, <1>2, <1>3 DEF MachineNext

\* However often a scan is paused and resumed, it enters the stages of the
\* pipeline one after the other and goes back to none.
THEOREM NoStageEverSkipped == MachineSpec => []NoStageSkipped
  <1>1. MachineInit => PausePointKnown /\ PathInv
    <2> SUFFICES ASSUME MachineInit PROVE PausePointKnown /\ PathInv
      OBVIOUS
    <2>1. LinearPath[1] = "queued"
      BY DEF LinearPath
    <2>2. Len(trail) = 1 /\ trail[1] = "queued"
      BY DEF MachineInit
    <2>3. Entered = 1..1
      BY <2>1, <2>2, PathFacts DEF Entered
    <2> QED
      BY <2>1, <2>3 DEF MachineInit, PathInv, PausePointKnown
  <1>2. PathInv => NoStageSkipped
    <2> SUFFICES ASSUME PathInv PROVE NoStageSkipped
      OBVIOUS
    <2>1. PICK m \in 1..12 :
          /\ Entered = 1..m
          /\ \/ current = LinearPath[m]
             \/ current \in {"paused", "cancelled", "failed", "blocked_unverified", "failed_auth"}
      BY DEF PathInv
    <2>2. \A i \in Entered : \A j \in 1..i : j \in Entered
      BY <2>1
    <2>3. \A i \in Entered : current = LinearPath[i] => \A j \in Entered : j =< i
      BY <2>1, PathFacts
    <2> QED
      BY <2>2, <2>3, PathFacts DEF Entered, NoStageSkipped
  <1> QED
    BY <1>1, <1>2, MachineTypeInit, MachineTypeStep, PauseStep, PathStep, PTL DEF MachineSpec

-----------------------------------------------------------------------------
(* The recon phase.                                                        *)

\* A tool that counts as available runs.  The root domain is a candidate until
\* the cap, and afterwards it still is or the cap is on record; until the
\* fallback's probes are done, every probed host led to itself or a redirect
\* is on record.
ReconInv ==
    /\ recon # "check_tools" => \A t \in ToolNames : available[t] => tools[t] \in Working
    /\ recon \in {"check_tools", "enumerate"} => RootDomain \in candidates
    /\ recon \in {"resolve", "probe", "done"} => RootDomain \in candidates \/ "cap" \in mishaps
    /\ DOMAIN probed = AllHosts /\ resolved \subseteq AllHosts
    /\ recon \in {"check_tools", "enumerate", "resolve"} => \A h \in AllHosts : probed[h] = NoProbe
    /\ recon = "probe" =>
          \A h \in resolved : probed[h] \in {NoProbe, h} \/ "redirect" \in mishaps
    /\ recon = "done" => \A a \in resolved :
          \/ probed[a] = a
          \/ available["httpx"] /\ "probe" \in mishaps
          \/ ~available["httpx"] /\ "redirect" \in mishaps

\* Every step of run_recon keeps the invariant.
LEMMA ReconStep == ReconInv /\ [ReconNext]_reconVars => ReconInv'
  <1> SUFFICES ASSUME ReconInv, [ReconNext]_reconVars PROVE ReconInv'
    OBVIOUS
  <1>1. CASE CheckTools
    BY <1>1 DEF CheckTools, LooksLikeProjectdiscoveryTool, RunTool, ReconInv
  <1>2. ASSUME NEW found, NEW ok, Enumerate(found, ok) PROVE ReconInv'
    <2>1. candidates' = candidates \cup found \/ "cap" \in mishaps'
      BY <1>2 DEF Enumerate
    <2> QED
      BY <1>2, <2>1 DEF Enumerate, ReconInv
  <1>3. ASSUME NEW answered \in SUBSET AllHosts, Resolve(answered) PROVE ReconInv'
    BY <1>3 DEF Resolve, ReconInv
  <1>4. ASSUME NEW seen, NEW ok \in BOOLEAN, ProbeViaBinary(seen, ok) PROVE ReconInv'
    <2>1. /\ recon = "probe" /\ available["httpx"] /\ recon' = "done"
          /\ probed' = [h \in AllHosts |->
                           IF ok /\ h \in resolved \cap seen THEN h ELSE NoProbe]
          /\ mishaps' = IF ok /\ resolved \subseteq seen THEN mishaps ELSE mishaps \cup {"probe"}
          /\ UNCHANGED <<tools, available, candidates, resolved>>
      BY <1>4 DEF ProbeViaBinary
    <2>2. CASE ok /\ resolved \subseteq seen
      BY <2>1, <2>2 DEF ReconInv
    <2>3. CASE ~(ok /\ resolved \subseteq seen)
      BY <2>1, <2>3 DEF ReconInv
    <2> QED
      BY <2>2, <2>3
  <1>5. ASSUME NEW h \in AllHosts, NEW end \in AllHosts, ProbeViaPython(h, end) PROVE ReconInv'
    <2>1. /\ recon = "probe" /\ probed' = [probed EXCEPT ![h] = end]
          /\ mishaps' = IF end = h THEN mishaps ELSE mishaps \cup {"redirect"}
          /\ UNCHANGED <<recon, tools, available, candidates, resolved>>
      BY <1>5 DEF ProbeViaPython
    <2>2. ASSUME NEW a \in resolved PROVE probed'[a] \in {NoProbe, a} \/ "redirect" \in mishaps'
      <3>1. CASE a = h
        BY <2>1, <2>2, <3>1 DEF ReconInv
      <3>2. CASE a # h
        BY <2>1, <2>2, <3>2 DEF ReconInv
      <3> QED
        BY <3>1, <3>2
    <2> QED
      BY <2>1, <2>2 DEF ReconInv
  <1>6. CASE ProbesDone
    BY <1>6 DEF ProbesDone, ReconInv
  <1>7. CASE UNCHANGED reconVars
    BY <1>7 DEF reconVars, ReconInv
  <1> QED
    BY <1>1, <1>2, <1>3, <1>4, <1>5, <1>6, <1>7 DEF ReconNext

\* run_recon reports no result that an impostor or a missing tool made, and
\* what is missing from a result has its cause on record.
THEOREM ReconAlwaysHonest == ReconSpec => []ReconHonest
  <1>1. ReconInit => ReconInv
    BY DEF ReconInit, ReconInv
  <1>2. ReconInv => ReconHonest
    BY DEF ReconInv, ReconHonest, Degraded, ProbesOf, ToolNames
  <1> QED
    BY <1>1, <1>2, ReconStep, PTL DEF ReconSpec
-----------------------------------------------------------------------------
(* The login of a persona.                                                 *)

\* A persona row, and the state of a login, have their columns and no other.
IsPersona(r) ==
    r = [available |-> r.available, reason |-> r.reason, session |-> r.session,
         oracle |-> r.oracle]

IsLogin(l) ==
    /\ l = [at |-> l.at, loaded |-> l.loaded, now |-> l.now, step |-> l.step,
            cookies |-> l.cookies, asPersona |-> l.asPersona, asNobody |-> l.asNobody,
            tainted |-> l.tainted]
    /\ IsPersona(l.loaded) /\ IsPersona(l.now)

\* A login that failed before it was probed: a reason, and the rest as loaded.
LoginFailed(l) ==
    /\ ~l.now.available /\ l.now.available \in BOOLEAN /\ l.now.reason # None
    /\ l.now.session = l.loaded.session /\ l.now.oracle = l.loaded.oracle
    /\ l.asNobody = NoAnswer

\* A login that came through.
LoginEstablished(w, l) ==
    /\ l.now.available = TRUE /\ l.now.reason = None /\ l.now.session = w
    /\ l.now.oracle = OracleOf(l.asPersona, l.asNobody)
    /\ l.asNobody # NoAnswer

\* Where login w is says what it has assigned so far.
LoginOK(w, l) ==
    /\ IsLogin(l)
    /\ l.at \in {"start", "replay", "probe", "commit", "end"}
    /\ l.at = "start" => l = NotStarted
    /\ l.at \in {"replay", "probe"} =>
          /\ l.now.available = l.loaded.available /\ l.now.reason = l.loaded.reason
          /\ l.now.oracle = l.loaded.oracle
    /\ l.at = "replay" =>
          l.now.session = l.loaded.session /\ l.asPersona = NoAnswer /\ l.asNobody = NoAnswer
    /\ l.at = "probe" => l.now.session = w
    /\ l.at = "commit" => LoginFailed(l) \/ LoginEstablished(w, l)

\* A login under way.
Active(l) == l.at \notin {"start", "end"}

\* The oracle in the row was made by a login that has ended.
OracleMade ==
    persona.oracle # NoOracle => \E w \in Logins :
        login[w].at = "end" /\ persona.oracle = OracleOf(login[w].asPersona, login[w].asNobody)

\* The strengthening of RowTellsLastLogin.  A login never loads its own
\* session; those that have not overlapped another one still hold the row as
\* they loaded it, so that their commit writes all they assigned.
LoginInv ==
    /\ site \in Sites
    /\ DOMAIN login = Logins /\ IsPersona(persona)
    /\ \A w \in Logins : LoginOK(w, login[w])
    /\ \A w \in Logins : login[w].at # "end" => \A v \in Logins : login[v].loaded.session # w
    /\ ~overlap => \A v, w \in Logins : Active(login[v]) /\ Active(login[w]) => v = w
    /\ ~overlap => \A w \in Logins : Active(login[w]) => login[w].loaded = persona
    /\ lastLogin \in Logins \cup {None}
    /\ lastLogin # None => login[lastLogin].at = "end"
    /\ RowTellsLastLogin /\ OracleMade

\* Login w goes on, and does not end in a commit.
LEMMA ProceedStep ==
    ASSUME LoginInv, NEW w \in Logins, NEW l, Proceed(w, l), LoginOK(w, l),
           Active(login[w]), l.loaded = login[w].loaded, l.at # "start"
    PROVE  LoginInv'
  <1>1. /\ login' = [login EXCEPT ![w] = l]
        /\ UNCHANGED <<site, recipe, hasCredential, persona, lastLogin, overlap>>
    BY DEF Proceed
  <1>2. /\ DOMAIN login' = Logins /\ login'[w] = l
        /\ \A v \in Logins : v # w => login'[v] = login[v]
    BY <1>1 DEF LoginInv
  <1>3. login[w].at # "end" /\ login[w].at # "start"
    BY DEF Active
  <1>4. \A v \in Logins : LoginOK(v, login'[v])
    BY <1>2 DEF LoginInv
  <1>5. \A v \in Logins : login'[v].loaded = login[v].loaded
    BY <1>2
  <1>6. \A v \in Logins : login'[v].at # "end" => login[v].at # "end"
    BY <1>2, <1>3
  <1>7. \A v \in Logins : Active(login'[v]) => Active(login[v])
    BY <1>2
  <1>8. lastLogin # None => lastLogin # w /\ login'[lastLogin] = login[lastLogin]
    BY <1>2, <1>3 DEF LoginInv
  <1>9. persona.session # w
    BY <1>3 DEF LoginInv, RowTellsLastLogin
  <1>10. RowTellsLastLogin'
    BY <1>1, <1>2, <1>8, <1>9 DEF LoginInv, RowTellsLastLogin
  <1>11. OracleMade'
    <2>1. \A v \in Logins : login[v].at = "end" => login'[v] = login[v]
      BY <1>2, <1>3
    <2> QED
      BY <1>1, <2>1 DEF LoginInv, OracleMade
  <1> QED
    BY <1>1, <1>2, <1>4, <1>5, <1>6, <1>7, <1>8, <1>10, <1>11 DEF LoginInv

\* _unavailable assigns two columns and ends the login.
FailedFrom(m, l, reason) ==
    /\ IsLogin(m) /\ m.at = "commit" /\ m.loaded = l.loaded
    /\ m.now.available = FALSE /\ m.now.reason = reason
    /\ m.now.session = l.now.session /\ m.now.oracle = l.now.oracle
    /\ m.asNobody = l.asNobody

\* _unavailable assigns the availability and the reason, nothing else.
LEMMA UnavailableFields ==
    ASSUME NEW l, IsLogin(l), NEW reason
    PROVE  FailedFrom(Unavailable(l, reason), l, reason)
  <1> SUFFICES ASSUME NEW m, m = Unavailable(l, reason) PROVE FailedFrom(m, l, reason)
    OBVIOUS
  <1>1. /\ m.at = "commit" /\ m.loaded = l.loaded /\ m.asNobody = l.asNobody
        /\ m.now = [l.now EXCEPT !.available = FALSE, !.reason = reason]
    BY DEF IsLogin, Unavailable
  <1>2. m = [at |-> m.at, loaded |-> m.loaded, now |-> m.now, step |-> m.step,
             cookies |-> m.cookies, asPersona |-> m.asPersona, asNobody |-> m.asNobody,
             tainted |-> m.tainted]
    BY DEF IsLogin, Unavailable
  <1>3. IsPersona(l.now) /\ IsPersona(l.loaded)
    BY DEF IsLogin
  <1>4. /\ IsPersona(m.now) /\ m.now.available = FALSE /\ m.now.reason = reason
        /\ m.now.session = l.now.session /\ m.now.oracle = l.now.oracle
    BY <1>1, <1>3 DEF IsPersona
  <1> QED
    BY <1>1, <1>2, <1>3, <1>4 DEF IsLogin, FailedFrom

\* The end of a login leaves what it assigned.
LEMMA EndFields ==
    ASSUME NEW l, IsLogin(l), NEW m, m = [l EXCEPT !.at = "end"]
    PROVE  /\ IsLogin(m) /\ m.at = "end" /\ m.loaded = l.loaded /\ m.now = l.now
           /\ m.asPersona = l.asPersona /\ m.asNobody = l.asNobody
  BY DEF IsLogin

\* A step of establish_persona fails.
FailsAs(w, l, m) == LoginOK(w, m) /\ m.loaded = l.loaded /\ m.at = "commit"

\* A login that fails during the replay is a failed login.
LEMMA FailStep ==
    ASSUME NEW w, NEW l, LoginOK(w, l), l.at = "replay", NEW reason, reason # None
    PROVE  FailsAs(w, l, Unavailable(l, reason))
  <1> DEFINE m == Unavailable(l, reason)
  <1>1. IsLogin(l) /\ l.now.session = l.loaded.session /\ l.now.oracle = l.loaded.oracle
        /\ l.asNobody = NoAnswer
    BY DEF LoginOK
  <1>2. FailedFrom(m, l, reason)
    BY <1>1, UnavailableFields
  <1> HIDE DEF m
  <1>3. LoginFailed(m)
    BY <1>1, <1>2 DEF FailedFrom, LoginFailed
  <1>4. LoginOK(w, m) /\ m.loaded = l.loaded /\ m.at = "commit"
    BY <1>2, <1>3 DEF FailedFrom, LoginOK
  <1> QED
    BY <1>4 DEF m, FailsAs

\* The beginning of a login: the row is loaded.
LEMMA StartStep ==
    ASSUME LoginInv, NEW w \in Logins, StartLogin(w)
    PROVE  LoginInv'
  <1>0. login[w].at = "start" /\ login[w] = NotStarted /\ IsPersona(persona)
    BY DEF StartLogin, LoginInv, LoginOK
  <1> SUFFICES ASSUME NEW l, l = [NotStarted EXCEPT !.loaded = persona, !.now = persona],
                      NEW r, r = [l EXCEPT !.at = "replay", !.step = 1],
                      NEW m, m = IF recipe = <<>> THEN Unavailable(l, "no recipe")
                                 ELSE IF ~hasCredential THEN Unavailable(l, "no credential")
                                 ELSE IF SecretRefs = {} THEN Unavailable(l, "no fill_secret step")
                                 ELSE r
               PROVE  LoginInv'
    OBVIOUS
  <1>1. /\ login[w].at = "start" /\ login' = [login EXCEPT ![w] = m]
        /\ overlap' = (overlap \/ \E v \in Logins : login[v].at \notin {"start", "end"})
        /\ UNCHANGED <<site, recipe, hasCredential, persona, lastLogin>>
    BY <1>0 DEF StartLogin
  <1>2. IsPersona(persona)
    BY <1>0
  <1>3. /\ IsLogin(l) /\ l.loaded = persona /\ l.now = persona /\ l.asNobody = NoAnswer
        /\ IsLogin(r) /\ r.at = "replay" /\ r.loaded = persona /\ r.now = persona
        /\ r.asPersona = NoAnswer /\ r.asNobody = NoAnswer
    <2>1. /\ l.at = "start" /\ l.loaded = persona /\ l.now = persona
          /\ l.asPersona = NoAnswer /\ l.asNobody = NoAnswer
          /\ l = [at |-> l.at, loaded |-> l.loaded, now |-> l.now, step |-> l.step,
                  cookies |-> l.cookies, asPersona |-> l.asPersona, asNobody |-> l.asNobody,
                  tainted |-> l.tainted]
      BY DEF NotStarted
    <2>2. /\ r.at = "replay" /\ r.loaded = persona /\ r.now = persona
          /\ r.asPersona = NoAnswer /\ r.asNobody = NoAnswer
          /\ r = [at |-> r.at, loaded |-> r.loaded, now |-> r.now, step |-> r.step,
                  cookies |-> r.cookies, asPersona |-> r.asPersona, asNobody |-> r.asNobody,
                  tainted |-> r.tainted]
      BY <2>1
    <2> QED
      BY <1>2, <2>1, <2>2 DEF IsLogin
  <1>4. LoginOK(w, r)
    BY <1>3 DEF LoginOK
  <1>5. ASSUME NEW reason, reason # None, NEW u, u = Unavailable(l, reason)
        PROVE  LoginOK(w, u) /\ u.loaded = persona /\ u.at = "commit"
    <2>1. FailedFrom(u, l, reason)
      BY <1>3, <1>5, UnavailableFields
    <2>2. LoginFailed(u)
      BY <1>3, <1>5, <2>1 DEF FailedFrom, LoginFailed
    <2> QED
      BY <1>3, <2>1, <2>2 DEF FailedFrom, LoginOK
  <1>6. LoginOK(w, m) /\ m.loaded = persona /\ m.at \in {"replay", "commit"}
    <2>1. "no recipe" # None /\ "no credential" # None /\ "no fill_secret step" # None
      BY DEF None
    <2> QED
      BY <1>3, <1>4, <1>5, <2>1
  <1>7. /\ DOMAIN login' = Logins /\ login'[w] = m
        /\ \A v \in Logins : v # w => login'[v] = login[v]
    BY <1>1 DEF LoginInv
  <1>8. \A v \in Logins : LoginOK(v, login'[v])
    BY <1>6, <1>7 DEF LoginInv
  <1>9. \A v \in Logins : login'[v].at # "end" => \A u \in Logins : login'[u].loaded.session # v
    <2>1. \A v \in Logins : persona.session = v => login[v].at = "end"
      BY DEF LoginInv, RowTellsLastLogin
    <2>2. \A v \in Logins : login[v].at = "end" => login'[v].at = "end"
      BY <1>1, <1>7
    <2> QED
      BY <1>6, <1>7, <2>1, <2>2 DEF LoginInv
  <1>10. ~overlap' => ~overlap /\ \A v \in Logins : ~Active(login[v])
    BY <1>1 DEF Active
  <1>11. lastLogin # None => lastLogin # w /\ login'[lastLogin] = login[lastLogin]
    BY <1>1, <1>7 DEF LoginInv
  <1>12. persona.session # w
    BY <1>1 DEF LoginInv, RowTellsLastLogin
  <1>13. RowTellsLastLogin'
    BY <1>1, <1>7, <1>10, <1>11, <1>12 DEF LoginInv, RowTellsLastLogin
  <1>14. OracleMade'
    <2>1. \A v \in Logins : login[v].at = "end" => login'[v] = login[v]
      BY <1>1, <1>7
    <2> QED
      BY <1>1, <2>1 DEF LoginInv, OracleMade
  <1> QED
    BY <1>1, <1>6, <1>7, <1>8, <1>9, <1>10, <1>11, <1>13, <1>14 DEF LoginInv

\* The commit of the phase: what the row holds afterwards.
LEMMA CommitStep ==
    ASSUME LoginInv, NEW w \in Logins, CommitLogin(w)
    PROVE  LoginInv'
  <1> SUFFICES ASSUME NEW l, l = login[w], NEW m, m = [l EXCEPT !.at = "end"]
               PROVE  LoginInv'
    OBVIOUS
  <1>1. /\ l.at = "commit" /\ lastLogin' = w
        /\ persona' = [c \in DOMAIN persona |-> Flush(l.loaded[c], l.now[c], persona[c])]
        /\ login' = [login EXCEPT ![w] = m]
        /\ UNCHANGED <<site, recipe, hasCredential, overlap>>
    BY DEF CommitLogin
  <1>2. LoginOK(w, l) /\ IsLogin(l) /\ (LoginFailed(l) \/ LoginEstablished(w, l))
    BY <1>1 DEF LoginInv, LoginOK
  <1>3. /\ IsLogin(m) /\ m.at = "end" /\ m.loaded = l.loaded /\ m.now = l.now
        /\ m.asPersona = l.asPersona /\ m.asNobody = l.asNobody
    BY <1>2, EndFields
  <1>4. LoginOK(w, m)
    BY <1>3 DEF LoginOK
  <1>5. /\ DOMAIN login' = Logins /\ login'[w] = m
        /\ \A v \in Logins : v # w => login'[v] = login[v]
    BY <1>1 DEF LoginInv
  <1>6. /\ IsPersona(persona')
        /\ persona'.available = Flush(l.loaded.available, l.now.available, persona.available)
        /\ persona'.reason = Flush(l.loaded.reason, l.now.reason, persona.reason)
        /\ persona'.session = Flush(l.loaded.session, l.now.session, persona.session)
        /\ persona'.oracle = Flush(l.loaded.oracle, l.now.oracle, persona.oracle)
    <2>1. IsPersona(persona)
      BY DEF LoginInv
    <2>2. DOMAIN persona = {"available", "reason", "session", "oracle"}
      BY <2>1 DEF IsPersona
    <2> QED
      BY <1>1, <2>2 DEF IsPersona
  <1>7. l.loaded.session # w /\ w # None
    BY <1>1, LoginAssumption DEF LoginInv
  <1>8. persona'.session \in {w, persona.session}
    BY <1>2, <1>6 DEF Flush, LoginFailed, LoginEstablished
  <1>9. persona'.oracle # NoOracle => persona'.session # None
    <2>1. CASE LoginFailed(l)
      BY <1>6, <2>1 DEF Flush, LoginFailed, LoginInv, RowTellsLastLogin
    <2>2. CASE LoginEstablished(w, l)
      BY <1>6, <1>7, <2>2 DEF Flush, LoginEstablished
    <2> QED
      BY <1>2, <2>1, <2>2
  <1>10. ASSUME ~overlap PROVE persona' = l.now
    <2>1. l.loaded = persona
      BY <1>1, <1>10 DEF LoginInv, Active
    <2>2. IsPersona(l.now)
      BY <1>2 DEF IsLogin
    <2>3. /\ persona'.available = l.now.available /\ persona'.reason = l.now.reason
          /\ persona'.session = l.now.session /\ persona'.oracle = l.now.oracle
      BY <1>6, <2>1 DEF Flush
    <2> QED
      BY <1>6, <2>2, <2>3 DEF IsPersona
  <1>11. RowTellsLastLogin'
    <2>1. \A v \in Logins : persona'.session = v => login'[v].at = "end"
      <3>1. \A v \in Logins : persona.session = v => login[v].at = "end"
        BY DEF LoginInv, RowTellsLastLogin
      <3>2. \A v \in Logins : login[v].at = "end" \/ v = w => login'[v].at = "end"
        BY <1>3, <1>5
      <3> QED
        BY <1>8, <3>1, <3>2
    <2>2. ASSUME ~overlap
          PROVE  /\ persona' = m.now
                 /\ persona'.available <=> persona'.reason = None
                 /\ persona'.available <=> m.asNobody # NoAnswer
                 /\ persona'.available => persona'.session = w
      <3>1. persona' = m.now
        BY <1>3, <1>10, <2>2
      <3>2. CASE LoginFailed(l)
        BY <1>3, <3>1, <3>2 DEF LoginFailed
      <3>3. CASE LoginEstablished(w, l)
        BY <1>3, <3>1, <3>3 DEF LoginEstablished
      <3> QED
        BY <1>2, <3>1, <3>2, <3>3
    <2> QED
      BY <1>1, <1>5, <1>7, <1>9, <2>1, <2>2 DEF RowTellsLastLogin
  <1>12. \A v \in Logins : LoginOK(v, login'[v])
    BY <1>4, <1>5 DEF LoginInv
  <1>13. \A v \in Logins : login'[v].loaded = login[v].loaded
    BY <1>3, <1>5
  <1>14. \A v \in Logins : login'[v].at # "end" => login[v].at # "end"
    BY <1>3, <1>5
  <1>15. /\ \A v \in Logins : Active(login'[v]) => Active(login[v]) /\ v # w
         /\ Active(login[w])
    BY <1>1, <1>3, <1>5 DEF Active
  <1>16. ~overlap => \A v \in Logins : ~Active(login'[v])
    BY <1>15 DEF LoginInv
  <1>17. OracleMade'
    <2>1. persona'.oracle = persona.oracle \/ persona'.oracle = OracleOf(l.asPersona, l.asNobody)
      BY <1>2, <1>6 DEF Flush, LoginFailed, LoginEstablished
    <2>2. \A v \in Logins : login[v].at = "end" => login'[v] = login[v]
      BY <1>1, <1>5
    <2>3. CASE persona'.oracle = persona.oracle
      BY <2>2, <2>3 DEF LoginInv, OracleMade
    <2>4. CASE persona'.oracle = OracleOf(l.asPersona, l.asNobody)
      <3>1. /\ login'[w].at = "end"
            /\ persona'.oracle = OracleOf(login'[w].asPersona, login'[w].asNobody)
        BY <1>3, <1>5, <2>4
      <3> QED
        BY <3>1 DEF OracleMade
    <2> QED
      BY <2>1, <2>3, <2>4
  <1> QED
    BY <1>1, <1>3, <1>5, <1>6, <1>11, <1>12, <1>13, <1>14, <1>16, <1>17 DEF LoginInv

\* Every step of a login keeps the invariant.
LEMMA LoginStep == LoginInv /\ [LoginNext]_loginVars => LoginInv'
  <1> SUFFICES ASSUME LoginInv, [LoginNext]_loginVars PROVE LoginInv'
    OBVIOUS
  <1>a. \A w \in Logins : LoginOK(w, login[w]) /\ IsLogin(login[w])
    BY DEF LoginInv, LoginOK
  <1>1. ASSUME NEW w \in Logins, StartLogin(w) PROVE LoginInv'
    BY <1>1, StartStep
  <1>2. ASSUME NEW w \in Logins, NEW ok, RunStep(w, ok) PROVE LoginInv'
    <2> SUFFICES ASSUME NEW l, l = login[w], NEW step, step = [l EXCEPT !.step = @ + 1],
                        NEW m, Proceed(w, m),
                        m \in {Unavailable(l, "missing credential"), step, Unavailable(l, "timeout")}
                 PROVE  LoginInv'
      BY <1>2 DEF RunStep
    <2>1. l.at = "replay" /\ LoginOK(w, l) /\ IsLogin(l) /\ Active(l)
      BY <1>2, <1>a DEF RunStep, Active
    <2>2. "missing credential" # None /\ "timeout" # None
      BY DEF None
    <2>3. LoginOK(w, step) /\ step.loaded = l.loaded /\ step.at = "replay"
      <3>1. /\ IsLogin(step) /\ step.at = l.at /\ step.loaded = l.loaded /\ step.now = l.now
            /\ step.asPersona = l.asPersona /\ step.asNobody = l.asNobody
        BY <2>1 DEF IsLogin
      <3> QED
        BY <2>1, <3>1 DEF LoginOK
    <2>4. LoginOK(w, m) /\ m.loaded = l.loaded /\ m.at \in {"replay", "commit"}
      <3>1. ASSUME NEW reason, reason # None
            PROVE  FailsAs(w, l, Unavailable(l, reason))
        BY <2>1, <3>1, FailStep
      <3>2. ASSUME FailsAs(w, l, m)
            PROVE  LoginOK(w, m) /\ m.loaded = l.loaded /\ m.at = "commit"
        BY <3>2 DEF FailsAs
      <3> QED
        BY <2>2, <2>3, <3>1, <3>2
    <2> QED
      BY <2>1, <2>4, ProceedStep
  <1>3. ASSUME NEW w \in Logins, NEW ok, NEW state, CheckAssertion(w, ok, state) PROVE LoginInv'
    <2> SUFFICES ASSUME NEW l, l = login[w],
                        NEW live, live = [l EXCEPT !.at = "probe", !.cookies = state,
                                                   !.now = [@ EXCEPT !.session = w]],
                        NEW m, Proceed(w, m), m \in {live, Unavailable(l, "assertion")}
                 PROVE  LoginInv'
      BY <1>3 DEF CheckAssertion
    <2>1. l.at = "replay" /\ LoginOK(w, l) /\ IsLogin(l) /\ Active(l)
      BY <1>3, <1>a DEF CheckAssertion, Active
    <2>2. "assertion" # None
      BY DEF None
    <2>3. LoginOK(w, live) /\ live.loaded = l.loaded /\ live.at = "probe"
      <3>1. /\ IsLogin(live) /\ live.at = "probe" /\ live.loaded = l.loaded
            /\ live.now.session = w /\ live.now.available = l.now.available
            /\ live.now.reason = l.now.reason /\ live.now.oracle = l.now.oracle
        <4>1. /\ live.at = "probe" /\ live.loaded = l.loaded /\ live.now = [l.now EXCEPT !.session = w]
          BY <2>1 DEF IsLogin
        <4>2. live = [at |-> live.at, loaded |-> live.loaded, now |-> live.now, step |-> live.step,
                   cookies |-> live.cookies, asPersona |-> live.asPersona, asNobody |-> live.asNobody,
                   tainted |-> live.tainted]
          BY <2>1 DEF IsLogin
        <4>3. IsPersona(l.now) /\ IsPersona(l.loaded)
          BY <2>1 DEF IsLogin
        <4>4. /\ IsPersona(live.now) /\ live.now.session = w /\ live.now.available = l.now.available
              /\ live.now.reason = l.now.reason /\ live.now.oracle = l.now.oracle
          BY <4>1, <4>3 DEF IsPersona
        <4> QED
          BY <4>1, <4>2, <4>3, <4>4 DEF IsLogin
      <3> QED
        BY <2>1, <3>1 DEF LoginOK
    <2>4. LoginOK(w, m) /\ m.loaded = l.loaded /\ m.at \in {"probe", "commit"}
      <3>1. ASSUME NEW reason, reason # None
            PROVE  FailsAs(w, l, Unavailable(l, reason))
        BY <2>1, <3>1, FailStep
      <3>2. ASSUME FailsAs(w, l, m)
            PROVE  LoginOK(w, m) /\ m.loaded = l.loaded /\ m.at = "commit"
        BY <3>2 DEF FailsAs
      <3> QED
        BY <2>2, <2>3, <3>1, <3>2
    <2> QED
      BY <2>1, <2>4, ProceedStep
  <1>4. ASSUME NEW w \in Logins, NEW alive, NEW sets, NEW a, ProbeAsPersona(w, alive, a, sets)
        PROVE  LoginInv'
    <2> SUFFICES ASSUME NEW l, l = login[w], NEW t,
                        NEW m, Proceed(w, m), m = [l EXCEPT !.asPersona = a, !.tainted = t]
                 PROVE  LoginInv'
      BY <1>4 DEF ProbeAsPersona
    <2>1. l.at = "probe" /\ LoginOK(w, l) /\ IsLogin(l) /\ Active(l)
      BY <1>4, <1>a DEF ProbeAsPersona, Active
    <2>2. IsLogin(m) /\ m.at = l.at /\ m.loaded = l.loaded /\ m.now = l.now
      BY <2>1 DEF IsLogin
    <2>3. LoginOK(w, m)
      BY <2>1, <2>2 DEF LoginOK
    <2> QED
      BY <2>1, <2>2, <2>3, ProceedStep
  <1>5. ASSUME NEW w \in Logins, NEW a, ProbeAsNobody(w, a) PROVE LoginInv'
    <2> SUFFICES ASSUME NEW l, l = login[w],
                        NEW m, Proceed(w, m), m = [l EXCEPT !.asNobody = a]
                 PROVE  LoginInv'
      BY <1>5 DEF ProbeAsNobody
    <2>1. l.at = "probe" /\ LoginOK(w, l) /\ IsLogin(l) /\ Active(l)
      BY <1>5, <1>a DEF ProbeAsNobody, Active
    <2>2. IsLogin(m) /\ m.at = l.at /\ m.loaded = l.loaded /\ m.now = l.now
      BY <2>1 DEF IsLogin
    <2>3. LoginOK(w, m)
      BY <2>1, <2>2 DEF LoginOK
    <2> QED
      BY <2>1, <2>2, <2>3, ProceedStep
  <1>6. ASSUME NEW w \in Logins, Establish(w) PROVE LoginInv'
    <2> SUFFICES ASSUME NEW l, l = login[w], NEW o, o = OracleOf(l.asPersona, l.asNobody),
                        NEW m, Proceed(w, m),
                        m = [l EXCEPT !.at = "commit",
                                      !.now = [@ EXCEPT !.available = TRUE, !.reason = None,
                                                        !.oracle = o]]
                 PROVE  LoginInv'
      BY <1>6 DEF Establish
    <2>1. l.at = "probe" /\ l.asNobody # NoAnswer /\ LoginOK(w, l) /\ IsLogin(l) /\ Active(l)
      BY <1>6, <1>a DEF Establish, Active
    <2>2. /\ IsLogin(m) /\ m.at = "commit" /\ m.loaded = l.loaded
          /\ m.now.available = TRUE /\ m.now.reason = None /\ m.now.oracle = o
          /\ m.now.session = l.now.session
          /\ m.asPersona = l.asPersona /\ m.asNobody = l.asNobody
      <3>1. /\ m.at = "commit" /\ m.loaded = l.loaded
            /\ m.asPersona = l.asPersona /\ m.asNobody = l.asNobody
            /\ m.now = [l.now EXCEPT !.available = TRUE, !.reason = None, !.oracle = o]
        BY <2>1 DEF IsLogin
      <3>2. m = [at |-> m.at, loaded |-> m.loaded, now |-> m.now, step |-> m.step,
                 cookies |-> m.cookies, asPersona |-> m.asPersona, asNobody |-> m.asNobody,
                 tainted |-> m.tainted]
        BY <2>1 DEF IsLogin
      <3>3. IsPersona(l.now) /\ IsPersona(l.loaded)
        BY <2>1 DEF IsLogin
      <3>4. /\ IsPersona(m.now) /\ m.now.available = TRUE /\ m.now.reason = None
            /\ m.now.oracle = o /\ m.now.session = l.now.session
        <4> SUFFICES ASSUME NEW r, IsPersona(r), NEW n,
                            n = [r EXCEPT !.available = TRUE, !.reason = None, !.oracle = o]
                     PROVE  /\ IsPersona(n) /\ n.available = TRUE /\ n.reason = None
                            /\ n.oracle = o /\ n.session = r.session
          BY <3>1, <3>3
        <4> QED
          BY DEF IsPersona
      <3> QED
        BY <3>1, <3>2, <3>3, <3>4 DEF IsLogin
    <2>3. LoginEstablished(w, m)
      BY <2>1, <2>2 DEF LoginOK, LoginEstablished
    <2>4. LoginOK(w, m)
      BY <2>2, <2>3 DEF LoginOK
    <2> QED
      BY <2>1, <2>2, <2>4, ProceedStep
  <1>7. ASSUME NEW w \in Logins, LoginRaises(w) PROVE LoginInv'
    <2> SUFFICES ASSUME NEW l, l = login[w],
                        NEW m, Proceed(w, m), m = [l EXCEPT !.at = "end"]
                 PROVE  LoginInv'
      BY <1>7 DEF LoginRaises
    <2>1. IsLogin(l) /\ Active(l)
      BY <1>7, <1>a DEF LoginRaises, Active
    <2>2. IsLogin(m) /\ m.at = "end" /\ m.loaded = l.loaded
      BY <2>1, EndFields
    <2>3. LoginOK(w, m)
      BY <2>2 DEF LoginOK
    <2> QED
      BY <2>1, <2>2, <2>3, ProceedStep
  <1>8. ASSUME NEW w \in Logins, CommitLogin(w) PROVE LoginInv'
    BY <1>8, CommitStep
  <1>9. CASE UNCHANGED loginVars
    BY <1>9 DEF loginVars, LoginInv, RowTellsLastLogin, OracleMade
  <1> QED
    BY <1>1, <1>2, <1>3, <1>4, <1>5, <1>6, <1>7, <1>8, <1>9 DEF LoginNext

\* A persona nobody has logged in satisfies the invariant.
LEMMA LoginStarts == LoginInit => LoginInv
  <1> SUFFICES ASSUME LoginInit PROVE LoginInv
    OBVIOUS
  <1>1. IsPersona(PersonaRow) /\ PersonaRow.session = None /\ PersonaRow.oracle = NoOracle
    BY DEF PersonaRow, IsPersona
  <1>2. IsLogin(NotStarted) /\ NotStarted.at = "start" /\ NotStarted.loaded = PersonaRow
    BY <1>1 DEF NotStarted, IsLogin
  <1>3. \A w \in Logins : login[w] = NotStarted /\ LoginOK(w, NotStarted)
    BY <1>2 DEF LoginInit, LoginOK
  <1>4. \A w \in Logins : w # None
    BY LoginAssumption
  <1>5. RowTellsLastLogin
    BY <1>1, <1>4 DEF LoginInit, RowTellsLastLogin
  <1> QED
    BY <1>1, <1>2, <1>3, <1>4, <1>5 DEF LoginInit, LoginInv, Active, OracleMade

\* The persona's row is no mixture of two logins, and no login that failed or
\* raised leaves an oracle without a session.
THEOREM RowAlwaysTellsLastLogin == LoginSpec => []RowTellsLastLogin
  <1>1. LoginInv => RowTellsLastLogin
    BY DEF LoginInv
  <1> QED
    BY <1>1, LoginStarts, LoginStep, PTL DEF LoginSpec

\* A line that _find_unique_line returns is one of the member's lines, and
\* stands in the visitor's page neither alone nor unindented.
LEMMA UniqueLine ==
    ASSUME NEW lines, NEW others, NEW t \in FindUniqueLine(lines, others)
    PROVE  /\ \E i \in DOMAIN lines : lines[i].text = t
           /\ \A i \in DOMAIN others : others[i] # [text |-> t, indent |-> 0]
  <1>1. PICK i \in DOMAIN lines : /\ lines[i].text = t
                                  /\ [text |-> t, indent |-> 0] \notin ToSet(others)
    BY DEF FindUniqueLine
  <1> QED
    BY <1>1 DEF ToSet

\* An oracle made of a member's and a visitor's page accepts the first, and
\* the second only where the two can be confused.
LEMMA OracleSeparates ==
    ASSUME site \in Sites, NEW o, o = OracleOf(site.member, site.visitor), o # NoOracle
    PROVE  Matches(o, site.member) /\ (Matches(o, site.visitor) => Confusable)
  <1> DEFINE a == site.member
             n == site.visitor
  <1>1. CASE a.status # n.status
    <2>1. o = [signal |-> "status_code", value |-> a.status]
      BY <1>1 DEF OracleOf
    <2>2. o.signal = "status_code" /\ o.value = a.status
      BY <2>1
    <2> HIDE DEF OracleOf, a, n
    <2>3. Matches(o, a) /\ ~Matches(o, n)
      BY <1>1, <2>2 DEF Matches
    <2> QED
      BY <2>3 DEF a, n
  <1>2. CASE a.status = n.status
    <2> DEFINE found == FindUniqueLine(a.lines, n.lines)
    <2>1. found # {} /\ o = [signal |-> "body_contains", line |-> CHOOSE t \in found : TRUE]
      BY <1>2 DEF OracleOf
    <2>2. o.signal = "body_contains" /\ o.line \in found
      BY <2>1
    <2>3. PICK i \in DOMAIN a.lines : a.lines[i].text = o.line
      BY <2>2, UniqueLine
    <2>4. \A j \in DOMAIN n.lines : n.lines[j] # [text |-> o.line, indent |-> 0]
      BY <2>2, UniqueLine
    <2>5. <<o.line, a.lines[i].text>> \in PartOf
      BY <2>3, LoginAssumption
    <2>6. Matches(o, a)
      BY <2>2, <2>5 DEF Matches
    <2>7. ASSUME Matches(o, n) PROVE Confusable
      <3>1. PICK j \in DOMAIN n.lines : <<o.line, n.lines[j].text>> \in PartOf
        BY <2>2, <2>7 DEF Matches
      <3> QED
        BY <2>3, <2>4, <3>1 DEF Confusable
    <2> QED
      BY <2>6, <2>7
  <1> QED
    BY <1>1, <1>2

\* Whichever logins overlapped, failed or raised, the oracle in the persona's
\* row was made by one login from its own answers; made of the proper ones it
\* accepts a member's page, and a visitor's only on a confusable site.
THEOREM OracleInRowAlwaysTellsApart == LoginSpec => []OracleInRowTellsApart
  <1>1. LoginInv => OracleInRowTellsApart
    <2> SUFFICES ASSUME LoginInv, persona.oracle # NoOracle
                 PROVE  OracleInRowTellsApart
      BY DEF OracleInRowTellsApart
    <2>1. PICK w \in Logins : persona.oracle = OracleOf(login[w].asPersona, login[w].asNobody)
      BY DEF LoginInv, OracleMade
    <2>2. ASSUME ProbedProperly(w)
          PROVE  /\ Matches(persona.oracle, site.member)
                 /\ Matches(persona.oracle, site.visitor) => Confusable
      <3>1. persona.oracle = OracleOf(site.member, site.visitor) /\ site \in Sites
        BY <2>1, <2>2 DEF ProbedProperly, LoginInv
      <3> QED
        BY <3>1, OracleSeparates
    <2> QED
      BY <2>1, <2>2 DEF OracleInRowTellsApart
  <1> QED
    BY <1>1, LoginStarts, LoginStep, PTL DEF LoginSpec
=============================================================================

-------------------------- MODULE ScanStateMachine --------------------------
(***************************************************************************)
(* sentinel_core.state_machine.ScanStateMachine: transition() and resume() *)
(* over (current, paused_from, fail_reason), for one scan driven by any    *)
(* caller.  The trail is a history variable: the states entered so far.    *)
(***************************************************************************)
EXTENDS ScanStates, Integers, Sequences

CONSTANTS
    MaxPauses,      \* how many pauses a behaviour may contain
    Reasons         \* the reasons a caller may give for FAILED

ASSUME MaxPausesAssumption == MaxPauses \in Nat

VARIABLES
    current,        \* ScanStateMachine.current
    pausedFrom,     \* ScanStateMachine.paused_from
    failReason,     \* ScanStateMachine.fail_reason
    trail           \* history: current, every time it was assigned

machineVars == <<current, pausedFrom, failReason, trail>>

NoReason == "none"

MachineInit ==
    /\ current = "queued"
    /\ pausedFrom = NoState
    /\ failReason = NoReason
    /\ trail = <<"queued">>

Pauses == Len(SelectSeq(trail, LAMBDA s : s = "paused"))

\* Mutant: the pause point is recorded after current has been overwritten.
TransitionRecordsTarget(t, reason) ==
    /\ CanTransition(current, t)
    /\ t = "paused" => Pauses < MaxPauses
    /\ pausedFrom' = IF t = "paused" THEN t ELSE pausedFrom
    /\ failReason' = IF t = "failed" THEN reason ELSE failReason
    /\ current' = t
    /\ trail' = Append(trail, t)

\* transition(target, reason): an illegal target raises and changes nothing.
Transition(t, reason) ==
    /\ CanTransition(current, t)
    /\ t = "paused" => Pauses < MaxPauses
    /\ pausedFrom' = IF t = "paused" THEN current ELSE pausedFrom
    /\ failReason' = IF t = "failed" THEN reason ELSE failReason
    /\ current' = t
    /\ trail' = Append(trail, t)

\* Mutant: resume() starts the pipeline again.
ResumeRestarts ==
    /\ current = "paused"
    /\ pausedFrom # NoState
    /\ current' = "queued"
    /\ pausedFrom' = NoState
    /\ trail' = Append(trail, "queued")
    /\ UNCHANGED failReason

\* resume(): back into the state the pause interrupted.
Resume ==
    /\ current = "paused"
    /\ pausedFrom # NoState
    /\ current' = pausedFrom
    /\ pausedFrom' = NoState
    /\ trail' = Append(trail, pausedFrom)
    /\ UNCHANGED failReason

MachineNext ==
    \/ \E t \in ScanState, r \in Reasons \cup {NoReason} : Transition(t, r)
    \/ Resume

MachineSpec == MachineInit /\ [][MachineNext]_machineVars

-----------------------------------------------------------------------------
MachineTypeOK ==
    /\ current \in ScanState
    /\ pausedFrom \in ScanState \cup {NoState}
    /\ failReason \in Reasons \cup {NoReason}
    /\ trail \in Seq(ScanState)

\* resume() has somewhere to go from every pause, and a scan that runs again
\* has forgotten the pause: paused_from survives only a cancel or a failure
\* of the paused scan (machine.py's resume raises InvalidResume otherwise).
PausePointKnown ==
    /\ current = "paused" => pausedFrom \in INTERRUPTIBLE_STATES
    /\ pausedFrom # NoState => current \in {"paused", "cancelled", "failed"}

\* However often a scan is paused and resumed, the pipeline states it has
\* been in are a prefix of the pipeline, and the one it is in is the last of
\* them: no stage is skipped and none is gone back to.
NoStageSkipped ==
    LET visited == {i \in 1..Len(LinearPath) : \E k \in 1..Len(trail) : trail[k] = LinearPath[i]}
    IN  /\ \A i \in visited : \A j \in 1..i : j \in visited
        /\ \A i \in visited : current = LinearPath[i] => \A j \in visited : j =< i
=============================================================================

---------------------------- MODULE ScanLifecycle ----------------------------
(***************************************************************************)
(* What the scans table promises to everybody who polls it: a scan is      *)
(* created QUEUED and every later value of (state, paused_from) is reached *)
(* by legal transitions of ScanStateMachine.  One commit may cover several *)
(* transitions: the orchestrator commits SCOPE_VERIFYING and               *)
(* BLOCKED_UNVERIFIED together.  ScanRunner is shown to implement this.    *)
(***************************************************************************)
EXTENDS ScanStates

VARIABLES
    state,          \* scans.state, or NoState before the row exists
    pausedFrom      \* scans.paused_from

vars == <<state, pausedFrom>>

Init == state = NoState /\ pausedFrom = NoState

Create == state = NoState /\ state' = "queued" /\ UNCHANGED pausedFrom

\* One transition or two, none of them a pause.
Advance ==
    /\ state \in ScanState
    /\ \E t \in ScanState \ {"paused"} :
          /\ CanTransition(state, t)
          /\ \/ state' = t
             \/ state' # "paused" /\ state' \in ScanState /\ CanTransition(t, state')
    /\ UNCHANGED pausedFrom

Pause ==
    /\ state \in ScanState
    /\ CanTransition(state, "paused")
    /\ state' = "paused"
    /\ pausedFrom' = state

Next == Create \/ Advance \/ Pause

Spec == Init /\ [][Next]_vars
=============================================================================

----------------------------- MODULE ScanStates -----------------------------
(***************************************************************************)
(* The vocabulary of the scan lifecycle: sentinel_core.state_machine's     *)
(* enumerations and the rule that says which transition is legal.  Pure    *)
(* operators; the modules that keep state extend this one.                 *)
(***************************************************************************)

\* paused_from when it is None.
NoState == "none"

\* The states of a scan that runs to the end, in pipeline order.
LinearPath ==
    << "queued", "scope_verifying", "recon", "auth_establishing", "crawling",
       "surface_mapping", "passive_checks", "testing", "verifying",
       "triaging", "reporting", "complete" >>

ScanState ==
    {"queued", "scope_verifying", "blocked_unverified", "recon",
     "auth_establishing", "failed_auth", "crawling", "surface_mapping",
     "passive_checks", "testing", "verifying", "triaging", "reporting",
     "complete", "paused", "cancelled", "failed"}

TERMINAL_STATES ==
    {"complete", "cancelled", "failed", "blocked_unverified", "failed_auth"}

INTERRUPTIBLE_STATES == ScanState \ (TERMINAL_STATES \cup {"paused"})

\* _LINEAR_TRANSITIONS.get(s, set()): a state with no entry has no successor.
LinearTransitions(s) ==
    CASE s = "queued"            -> {"scope_verifying"}
      [] s = "scope_verifying"   -> {"recon", "blocked_unverified"}
      [] s = "recon"             -> {"auth_establishing"}
      [] s = "auth_establishing" -> {"crawling", "failed_auth"}
      [] s = "crawling"          -> {"surface_mapping"}
      [] s = "surface_mapping"   -> {"passive_checks"}
      [] s = "passive_checks"    -> {"testing"}
      [] s = "testing"           -> {"verifying"}
      [] s = "verifying"         -> {"triaging"}
      [] s = "triaging"          -> {"reporting"}
      [] s = "reporting"         -> {"complete"}
      [] OTHER                   -> {}

\* can_transition: terminal states are left by nothing, a pause is legal
\* except from PAUSED, cancelling and failing are legal from everywhere else.
CanTransition(s, t) ==
    /\ s \notin TERMINAL_STATES
    /\ \/ t = "paused" /\ s # "paused"
       \/ t \in {"cancelled", "failed"}
       \/ t # "paused" /\ t \in LinearTransitions(s)

\* ScanPhaseName: the phases the orchestrator runs today.
PhaseName ==
    {"scope_verifying", "recon", "auth_establishing", "crawling",
     "surface_mapping"}

\* A phase row is written RUNNING by the commit that first shows it: PENDING,
\* the column default, is flushed but never committed.  Skipped is the
\* degraded-mode skip of AUTH_ESTABLISHING.
RowStatus == {"absent", "running", "completed", "failed", "skipped"}
=============================================================================

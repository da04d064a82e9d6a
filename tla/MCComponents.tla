---------------------------- MODULE MCComponents ----------------------------
(***************************************************************************)
(* The components that share no state with the scan runner or with each    *)
(* other, checked one at a time: part names the one that moves, and the    *)
(* others keep their first initial state.                                  *)
(***************************************************************************)
EXTENDS TargetOwnership, ScanStateMachine, HttpEngine, FindingGate,
        TokenBudget, TranscriptStore, MCPersonaLogin, Recon

VARIABLE part

Parts == {"ownership", "machine", "engine", "gate", "budget", "transcripts", "login", "recon"}

allVars == <<vars, machineVars, engineVars, gateVars, budgetVars, storeVars, loginVars,
             reconVars, part>>

ComponentsInit ==
    /\ part \in Parts
    /\ Init /\ MachineInit /\ GateInit /\ BudgetInit
    /\ EngineInit /\ (part # "engine" => req = [c \in Calls |-> CHOOSE r \in Request : TRUE])
    /\ StoreInit /\ (part # "transcripts" => backend = "local")
    /\ LoginInit
    /\ part # "login" =>
          recipe = <<>> /\ ~hasCredential /\ site = CHOOSE s \in Sites : TRUE
    /\ ReconInit /\ (part # "recon" => tools = [t \in ToolNames |-> "missing"])

\* The components that stay as they are while p moves.
Still(p) ==
    /\ UNCHANGED part
    /\ p # "ownership" => UNCHANGED vars
    /\ p # "machine" => UNCHANGED machineVars
    /\ p # "engine" => UNCHANGED engineVars
    /\ p # "gate" => UNCHANGED gateVars
    /\ p # "budget" => UNCHANGED budgetVars
    /\ p # "transcripts" => UNCHANGED storeVars
    /\ p # "login" => UNCHANGED loginVars
    /\ p # "recon" => UNCHANGED reconVars

ComponentsNext ==
    \/ part = "ownership" /\ Next /\ Still("ownership")
    \/ part = "machine" /\ MachineNext /\ Still("machine")
    \/ part = "engine" /\ EngineNext /\ Still("engine")
    \/ part = "gate" /\ GateNext /\ Still("gate")
    \/ part = "budget" /\ BudgetNext /\ Still("budget")
    \/ part = "transcripts" /\ StoreNext /\ Still("transcripts")
    \/ part = "login" /\ LoginNext /\ Still("login")
    \/ part = "recon" /\ ReconNext /\ Still("recon")

ComponentsSpec == ComponentsInit /\ [][ComponentsNext]_allVars

-----------------------------------------------------------------------------
\* An exchange without secrets, one with a secret in every place and a binary
\* answer, and one that failed.
MCExchanges ==
    {[secret |-> {}, binary |-> {}],
     [secret |-> Headers \cup Bodies \cup {"url"}, binary |-> {"response body"}],
     [secret |-> {"request body", "error"}, binary |-> {}]}

\* The root comes last, so the cap may cut it off.
MCHostOrder == <<"api.acme.test", "app.acme.test", "www.acme.test">>
=============================================================================

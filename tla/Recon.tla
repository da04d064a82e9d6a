------------------------------- MODULE Recon -------------------------------
(***************************************************************************)
(* sentinel_recon.run_recon: one recon phase over tools that may be        *)
(* missing, hang, fail, or be another program of the same name.  What is   *)
(* told apart of the notes is what ReconResult.degraded says; wildcard DNS *)
(* is one of the notes.                                                    *)
(***************************************************************************)
EXTENDS SequencesExt, FiniteSets, Naturals

CONSTANTS
    RootDomain,     \* root_domain
    HostOrder,      \* every host that may turn up, in sorted order
    MAX_CANDIDATE_HOSTS

VARIABLES
    recon,          \* what run_recon does next
    tools,          \* what is installed under each name
    available,      \* tool_availability
    candidates,     \* candidate_hosts
    resolved,       \* hosts with an A record
    probed,         \* probed[h]: host of the URL that the probe of h ended at
    mishaps         \* history: what else went wrong

reconVars == <<recon, tools, available, candidates, resolved, probed, mishaps>>

AllHosts == ToSet(HostOrder)
NoProbe == "none"
ToolNames == {"subfinder", "httpx", "tlsx"}

\* shadow: a program of the same name that exits non-zero on every call.
\* lookalike: one that exits with 0, on -version too.
Installed == {"missing", "shadow", "lookalike", "genuine"}
Working == {"lookalike", "genuine"}

ReconInit ==
    /\ recon = "check_tools"
    /\ tools \in [ToolNames -> Installed]
    /\ available = [t \in ToolNames |-> FALSE]
    /\ candidates = {RootDomain}
    /\ resolved = {}
    /\ probed = [h \in AllHosts |-> NoProbe]
    /\ mishaps = {}

\* run_tool: ok means that it ran, in time, and exited with 0.
RunTool(t, ok) == ok => tools[t] \in Working

\* Mutant: a name on the PATH is enough.
LooksLikePresent(t, ok) == ok <=> tools[t] # "missing"

\* looks_like_projectdiscovery_tool: -version exits with 0; it may time out.
LooksLikeProjectdiscoveryTool(t, ok) == RunTool(t, ok)

CheckTools ==
    /\ recon = "check_tools"
    /\ available' \in [ToolNames -> BOOLEAN]
    /\ \A t \in ToolNames : LooksLikeProjectdiscoveryTool(t, available'[t])
    /\ recon' = "enumerate"
    /\ UNCHANGED <<tools, candidates, resolved, probed, mishaps>>

\* The first MAX_CANDIDATE_HOSTS in sorted order; the root is not exempt.
Capped(hosts) ==
    LET sorted == SelectSeq(HostOrder, LAMBDA h : h \in hosts)
    IN  {sorted[i] : i \in {j \in DOMAIN sorted : j =< MAX_CANDIDATE_HOSTS}}

\* subfinder, when it is there, and the cap, which leaves a note.  A run that
\* fails found nothing.
Enumerate(found, ok) ==
    /\ recon = "enumerate"
    /\ available["subfinder"] => RunTool("subfinder", ok)
    /\ ~(available["subfinder"] /\ ok) => found = {}
    /\ LET hosts == candidates \cup found
           over == Cardinality(hosts) > MAX_CANDIDATE_HOSTS
       IN  /\ candidates' = IF over THEN Capped(hosts) ELSE hosts
           /\ mishaps' = mishaps \cup {m \in {"enumeration", "cap"} :
                 \/ m = "enumeration" /\ available["subfinder"] /\ ~ok
                 \/ m = "cap" /\ over}
    /\ recon' = "resolve"
    /\ UNCHANGED <<tools, available, resolved, probed>>

\* resolve_a for every candidate: one without an answer is dropped.
Resolve(answered) ==
    /\ recon = "resolve"
    /\ resolved' = candidates \cap answered
    /\ recon' = "probe"
    /\ UNCHANGED <<tools, available, candidates, probed, mishaps>>

\* probe_via_binary: one run for all hosts, which reports some of them.
ProbeViaBinary(seen, ok) ==
    /\ recon = "probe" /\ available["httpx"] /\ resolved # {}
    /\ RunTool("httpx", ok)
    /\ probed' = [h \in AllHosts |-> IF ok /\ h \in resolved \cap seen THEN h ELSE NoProbe]
    /\ mishaps' = IF ok /\ resolved \subseteq seen THEN mishaps ELSE mishaps \cup {"probe"}
    /\ recon' = "done"
    /\ UNCHANGED <<tools, available, candidates, resolved>>

\* probe_via_python: every host is asked over https and then http, failures
\* are results too, and redirects are followed to any host.
ProbeViaPython(h, end) ==
    /\ recon = "probe" /\ ~available["httpx"]
    /\ h \in resolved /\ probed[h] = NoProbe
    /\ probed' = [probed EXCEPT ![h] = end]
    /\ mishaps' = IF end = h THEN mishaps ELSE mishaps \cup {"redirect"}
    /\ UNCHANGED <<recon, tools, available, candidates, resolved>>

ProbesDone ==
    /\ recon = "probe"
    /\ resolved = {} \/ ~available["httpx"]
    /\ \A h \in resolved : probed[h] # NoProbe
    /\ recon' = "done"
    /\ UNCHANGED <<tools, available, candidates, resolved, probed, mishaps>>

ReconNext ==
    \/ CheckTools
    \/ \E found \in SUBSET AllHosts, ok \in BOOLEAN : Enumerate(found, ok)
    \/ \E answered \in SUBSET AllHosts : Resolve(answered)
    \/ \E seen \in SUBSET AllHosts, ok \in BOOLEAN : ProbeViaBinary(seen, ok)
    \/ \E h, end \in AllHosts : ProbeViaPython(h, end)
    \/ ProbesDone

ReconSpec == ReconInit /\ [][ReconNext]_reconVars

\* ReconResult.degraded.
Degraded == \E t \in ToolNames : ~available[t]

\* The http_probes of an asset: those that ended at its host.
ProbesOf(a) == {h \in AllHosts : probed[h] = a}

-----------------------------------------------------------------------------
(* Properties.                                                             *)

\* phase.py: "Every step degrades independently and honestly".  A result that
\* does not say degraded comes from tools that run; the root domain is missing
\* only if it did not resolve or the cap was applied, which a note says; and an
\* asset has no probe only if a binary that runs did not report it or a
\* redirect of the fallback led away from it: never because a tool was missing
\* or one of its name failed.  A lookalike passes for the tool.
ReconHonest ==
    recon = "done" =>
        /\ ~Degraded => \A t \in ToolNames : tools[t] \in Working
        /\ RootDomain \in candidates \/ "cap" \in mishaps
        /\ \A a \in resolved : ProbesOf(a) = {} =>
              IF available["httpx"]
              THEN tools["httpx"] \in Working /\ "probe" \in mishaps
              ELSE "redirect" \in mishaps
=============================================================================

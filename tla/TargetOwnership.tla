-------------------------- MODULE TargetOwnership --------------------------
(***************************************************************************)
(* The ownership and authorization columns of one target row, and the API  *)
(* handlers that write them: create_ownership_challenge,                   *)
(* run_ownership_verification and accept_authorization.  Each handler      *)
(* loads the row in a session of its own and commits later; the ORM then   *)
(* writes only the columns whose value differs from the loaded one, and no *)
(* version column or lock protects the row.  The owner of the domain       *)
(* publishes and withdraws tokens meanwhile.                               *)
(***************************************************************************)
EXTENDS Orm, Naturals, FiniteSets

CONSTANTS
    Handlers,       \* requests on this target that may be under way at once
    MaxTokens       \* bound: challenges issued

ASSUME OwnershipAssumption == MaxTokens \in Nat

VARIABLES
    row,            \* the committed columns of the target
    published,      \* tokens the domain shows now (DNS TXT, file or meta tag)
    issued,         \* tokens generated so far: token_hex never repeats
    pc,             \* pc[h]: what request h does next
    loaded,         \* loaded[h]: the row as h's session loaded it
    result,         \* result[h]: VerificationResult.verified
    proven,         \* history: issued tokens some probe found at the domain
    overlapped      \* history: two requests were under way at once

vars == <<row, published, issued, pc, loaded, result, proven, overlapped>>

NoToken == 0
Token == 1..MaxTokens

\* stamp: ownership_verified_at is not None.
Row == [token : Token \cup {NoToken}, verified : BOOLEAN, stamp : BOOLEAN,
        accepted : BOOLEAN]
NewRow == [token |-> NoToken, verified |-> FALSE, stamp |-> FALSE, accepted |-> FALSE]

Init ==
    /\ row = NewRow
    /\ published = {}
    /\ issued = 0
    /\ pc = [h \in Handlers |-> "idle"]
    /\ loaded = [h \in Handlers |-> NewRow]
    /\ result = [h \in Handlers |-> FALSE]
    /\ proven = {}
    /\ overlapped = FALSE

\* Mutant: verification does not ask for a challenge first.
LoadUnguarded(h, op) ==
    /\ pc[h] = "idle"
    /\ loaded' = [loaded EXCEPT ![h] = row]
    /\ pc' = [pc EXCEPT ![h] = op]
    /\ overlapped' = (overlapped \/ \E g \in Handlers : pc[g] # "idle")
    /\ UNCHANGED <<row, published, issued, result, proven>>

\* get_owned_target, and the 400 of a verification without a challenge.
Load(h, op) ==
    /\ pc[h] = "idle"
    /\ op = "probe" => row.token # NoToken
    /\ loaded' = [loaded EXCEPT ![h] = row]
    /\ pc' = [pc EXCEPT ![h] = op]
    /\ overlapped' = (overlapped \/ \E g \in Handlers : pc[g] # "idle")
    /\ UNCHANGED <<row, published, issued, result, proven>>

\* Mutant: a new challenge leaves the verification standing.
ChallengeKeepsVerification(h) ==
    /\ pc[h] = "challenge"
    /\ issued < MaxTokens
    /\ issued' = issued + 1
    /\ row' = [row EXCEPT !.token = issued + 1]
    /\ pc' = [pc EXCEPT ![h] = "idle"]
    /\ UNCHANGED <<published, loaded, result, proven, overlapped>>

\* create_ownership_challenge: a fresh token, and the verification withdrawn.
Challenge(h) ==
    /\ pc[h] = "challenge"
    /\ issued < MaxTokens
    /\ issued' = issued + 1
    /\ row' = [row EXCEPT
          !.token    = issued + 1,
          !.verified = Flush(loaded[h].verified, FALSE, @),
          !.stamp    = Flush(loaded[h].stamp, FALSE, @)]
    /\ pc' = [pc EXCEPT ![h] = "idle"]
    /\ UNCHANGED <<published, loaded, result, proven, overlapped>>

\* Mutant: any published record is taken for the token.
ProbeAny(h) ==
    /\ pc[h] = "probe"
    /\ \E ok \in {FALSE, published # {}} :
          /\ result' = [result EXCEPT ![h] = ok]
          /\ proven' = IF ok /\ loaded[h].token \in published
                       THEN proven \cup {loaded[h].token} ELSE proven
    /\ pc' = [pc EXCEPT ![h] = "verify"]
    /\ UNCHANGED <<row, published, issued, loaded, overlapped>>

\* verify_ownership, by any method: the token of the loaded row is looked for
\* at the domain.  A lookup or fetch that fails counts as not verified.
Probe(h) ==
    /\ pc[h] = "probe"
    /\ \E ok \in {FALSE, loaded[h].token \in published} :
          /\ result' = [result EXCEPT ![h] = ok]
          /\ proven' = IF ok THEN proven \cup {loaded[h].token} ELSE proven
    /\ pc' = [pc EXCEPT ![h] = "verify"]
    /\ UNCHANGED <<row, published, issued, loaded, overlapped>>

\* The commit of run_ownership_verification.  A new verified_at is never the
\* loaded one.
Verify(h) ==
    /\ pc[h] = "verify"
    /\ row' = [row EXCEPT
          !.verified = Flush(loaded[h].verified, result[h], @),
          !.stamp    = IF result[h] THEN TRUE ELSE Flush(loaded[h].stamp, FALSE, @)]
    /\ pc' = [pc EXCEPT ![h] = "idle"]
    /\ UNCHANGED <<published, issued, loaded, result, proven, overlapped>>

\* accept_authorization; nothing ever withdraws it.
Accept(h) ==
    /\ pc[h] = "accept"
    /\ row' = [row EXCEPT !.accepted = Flush(loaded[h].accepted, TRUE, @)]
    /\ pc' = [pc EXCEPT ![h] = "idle"]
    /\ UNCHANGED <<published, issued, loaded, result, proven, overlapped>>

\* The owner of the domain publishes an issued token.
Publish(t) ==
    /\ t \in 1..issued
    /\ published' = published \cup {t}
    /\ UNCHANGED <<row, issued, pc, loaded, result, proven, overlapped>>

Withdraw(t) ==
    /\ published' = published \ {t}
    /\ UNCHANGED <<row, issued, pc, loaded, result, proven, overlapped>>

Next ==
    \/ \E h \in Handlers :
          \/ \E op \in {"challenge", "probe", "accept"} : Load(h, op)
          \/ Challenge(h) \/ Probe(h) \/ Verify(h) \/ Accept(h)
    \/ \E t \in Token : Publish(t) \/ Withdraw(t)

Spec == Init /\ [][Next]_vars

-----------------------------------------------------------------------------
(* Properties.                                                             *)

\* A probe always has a token to look for.
TypeOK ==
    /\ row \in Row
    /\ published \in SUBSET Token
    /\ issued \in 0..MaxTokens
    /\ pc \in [Handlers -> {"idle", "challenge", "probe", "verify", "accept"}]
    /\ loaded \in [Handlers -> Row]
    /\ result \in [Handlers -> BOOLEAN]
    /\ proven \in SUBSET Token
    /\ overlapped \in BOOLEAN
    /\ \A h \in Handlers : pc[h] \in {"probe", "verify"} => loaded[h].token # NoToken

\* Target.is_scannable.
IsScannable == row.verified /\ row.accepted

\* However the requests on a target interleave and whatever they overwrite of
\* each other, a target is scannable only if a token issued for it was seen
\* at its domain and somebody accepted the authorization
\* (docs/06-safety-legal-abuse.md section 1).
ScannableIsProven == IsScannable => proven \cap 1..issued # {}

\* While no two requests have overlapped, verified speaks of the token the row holds now,
\* ownership_verified_at is set exactly when it is, and a challenge that has
\* not been answered keeps the target unscannable.
VerifiedMatchesToken ==
    ~overlapped => /\ row.verified => row.token \in proven
                   /\ row.verified <=> row.stamp

\* The strengthening that makes ScannableIsProven inductive: a positive result
\* that a request still holds, and a verified row it loaded, are backed by a
\* probe that found a token.
ProofsOnRecord ==
    /\ proven \subseteq 1..issued
    /\ published \subseteq 1..issued
    /\ row.token \in 0..issued
    /\ row.verified => proven # {}
    /\ \A h \in Handlers :
          /\ pc[h] = "verify" /\ result[h] => proven # {}
          /\ loaded[h].verified => proven # {}
          /\ loaded[h].token \in 0..issued
=============================================================================

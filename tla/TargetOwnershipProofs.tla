----------------------- MODULE TargetOwnershipProofs -----------------------
(***************************************************************************)
(* A scannable target is a proven one, for any number of concurrent        *)
(* requests and of challenges; and requests that do not overlap keep the   *)
(* verified flag true of the token the row holds.                          *)
(***************************************************************************)
EXTENDS TargetOwnership, TLAPS

\* What a commit writes to a Boolean column is the assigned or the held value.
LEMMA FlushValue ==
    ASSUME NEW old \in BOOLEAN, NEW new \in BOOLEAN, NEW now \in BOOLEAN
    PROVE  Flush(old, new, now) \in {new, now}
BY DEF Flush

\* The inductive step for the types.
LEMMA TypeStep == TypeOK /\ [Next]_vars => TypeOK'
<1> USE OwnershipAssumption DEF Token, NoToken
<1> SUFFICES ASSUME TypeOK, [Next]_vars PROVE TypeOK'
    OBVIOUS
<1>1. ASSUME NEW h \in Handlers, NEW op \in {"challenge", "probe", "accept"}, Load(h, op)
      PROVE  TypeOK'
    BY <1>1 DEF Load, TypeOK, Row
<1>2. ASSUME NEW h \in Handlers, Challenge(h) PROVE TypeOK'
  <2>1. row' \in Row /\ issued' \in 0..MaxTokens
    <3>1. /\ Flush(loaded[h].verified, FALSE, row.verified) \in BOOLEAN
          /\ Flush(loaded[h].stamp, FALSE, row.stamp) \in BOOLEAN
        BY FlushValue DEF TypeOK, Row
    <3>2. issued \in 0..MaxTokens /\ issued < MaxTokens /\ issued' = issued + 1
        BY <1>2 DEF Challenge, TypeOK
    <3>3. issued + 1 \in Token /\ issued' \in 0..MaxTokens
        BY <3>2
    <3>4. row' = [row EXCEPT
            !.token    = issued + 1,
            !.verified = Flush(loaded[h].verified, FALSE, row.verified),
            !.stamp    = Flush(loaded[h].stamp, FALSE, row.stamp)]
        BY <1>2 DEF Challenge
    <3> QED BY <3>1, <3>3, <3>4 DEF TypeOK, Row
  <2> QED BY <1>2, <2>1 DEF Challenge, TypeOK
<1>3. ASSUME NEW h \in Handlers, Probe(h) PROVE TypeOK'
  <2>1. loaded[h].token \in Token
    BY <1>3 DEF Probe, TypeOK, Row
  <2>2. PICK ok \in {FALSE, loaded[h].token \in published} :
            /\ result' = [result EXCEPT ![h] = ok]
            /\ proven' = IF ok THEN proven \cup {loaded[h].token} ELSE proven
    BY <1>3 DEF Probe
  <2>3. ok \in BOOLEAN
    <3>1. (loaded[h].token \in published) \in BOOLEAN
        OBVIOUS
    <3> QED BY <2>2, <3>1
  <2>4. result' \in [Handlers -> BOOLEAN] /\ proven' \in SUBSET Token
    BY <2>1, <2>2, <2>3 DEF TypeOK
  <2> QED BY <1>3, <2>4 DEF Probe, TypeOK
<1>4. ASSUME NEW h \in Handlers, Verify(h) PROVE TypeOK'
  <2>1. row' \in Row
    <3>1. /\ Flush(loaded[h].verified, result[h], row.verified) \in BOOLEAN
          /\ Flush(loaded[h].stamp, FALSE, row.stamp) \in BOOLEAN
        BY FlushValue DEF TypeOK, Row
    <3> QED BY <1>4, <3>1 DEF Verify, TypeOK, Row
  <2> QED BY <1>4, <2>1 DEF Verify, TypeOK
<1>5. ASSUME NEW h \in Handlers, Accept(h) PROVE TypeOK'
  <2>1. row' \in Row
    <3>1. Flush(loaded[h].accepted, TRUE, row.accepted) \in BOOLEAN
        BY FlushValue DEF TypeOK, Row
    <3> QED BY <1>5, <3>1 DEF Accept, TypeOK, Row
  <2> QED BY <1>5, <2>1 DEF Accept, TypeOK
<1>6. ASSUME NEW t \in Token, Publish(t) \/ Withdraw(t) PROVE TypeOK'
    BY <1>6 DEF Publish, Withdraw, TypeOK
<1>7. CASE UNCHANGED vars
    BY <1>7 DEF vars, TypeOK
<1> QED BY <1>1, <1>2, <1>3, <1>4, <1>5, <1>6, <1>7 DEF Next

\* Every value the handlers keep and write has its type, and a verification
\* never probes without a token.
THEOREM OwnershipTypeCorrect == Spec => []TypeOK
<1>1. Init => TypeOK
  <2> SUFFICES ASSUME Init PROVE TypeOK
    OBVIOUS
  <2>1. NewRow \in Row
    BY DEF NewRow, Row
  <2>2. issued \in 0..MaxTokens
    BY OwnershipAssumption DEF Init
  <2>3. overlapped \in BOOLEAN /\ result \in [Handlers -> BOOLEAN]
    BY DEF Init
  <2>4. \A h \in Handlers : pc[h] \in {"probe", "verify"} => loaded[h].token # NoToken
    BY DEF Init
  <2> QED BY <2>1, <2>2, <2>3, <2>4 DEF Init, TypeOK
<1> QED BY <1>1, TypeStep, PTL DEF Spec

\* The inductive step for the proofs on record.
LEMMA ProofsStep == TypeOK /\ ProofsOnRecord /\ [Next]_vars => ProofsOnRecord'
<1> USE OwnershipAssumption DEF Token, NoToken
<1> SUFFICES ASSUME TypeOK, ProofsOnRecord, [Next]_vars PROVE ProofsOnRecord'
    OBVIOUS
<1>1. ASSUME NEW h \in Handlers, NEW op \in {"challenge", "probe", "accept"}, Load(h, op)
      PROVE  ProofsOnRecord'
    BY <1>1 DEF Load, TypeOK, Row, ProofsOnRecord
<1>2. ASSUME NEW h \in Handlers, Challenge(h) PROVE ProofsOnRecord'
  <2>1. row'.verified => row.verified
    <3>1. Flush(loaded[h].verified, FALSE, row.verified) \in {FALSE, row.verified}
        BY FlushValue DEF TypeOK, Row
    <3> QED BY <1>2, <3>1 DEF Challenge, TypeOK, Row
  <2>2. issued \in Nat /\ issued' = issued + 1 /\ issued' \in Nat
    BY <1>2 DEF Challenge, TypeOK
  <2>3. row'.token = issued'
    BY <1>2 DEF Challenge, TypeOK, Row
  <2>4. 0..issued \subseteq 0..issued' /\ 1..issued \subseteq 1..issued' /\ issued' \in 0..issued'
    BY <2>2
  <2> QED BY <1>2, <2>1, <2>3, <2>4 DEF Challenge, TypeOK, ProofsOnRecord
<1>3. ASSUME NEW h \in Handlers, Probe(h) PROVE ProofsOnRecord'
  <2>1. PICK ok \in {FALSE, loaded[h].token \in published} :
            /\ result' = [result EXCEPT ![h] = ok]
            /\ proven' = IF ok THEN proven \cup {loaded[h].token} ELSE proven
    BY <1>3 DEF Probe
  <2>2. CASE ok
    <3>1. loaded[h].token \in published
        BY <2>1, <2>2
    <3> QED BY <1>3, <2>1, <2>2, <3>1 DEF Probe, TypeOK, ProofsOnRecord
  <2>3. CASE ~ok
    BY <1>3, <2>1, <2>3 DEF Probe, TypeOK, ProofsOnRecord
  <2> QED BY <2>2, <2>3
<1>4. ASSUME NEW h \in Handlers, Verify(h) PROVE ProofsOnRecord'
  <2>1. row'.verified => row.verified \/ result[h]
    <3>1. Flush(loaded[h].verified, result[h], row.verified) \in {result[h], row.verified}
        BY FlushValue DEF TypeOK, Row
    <3> QED BY <1>4, <3>1 DEF Verify, TypeOK, Row
  <2> QED BY <1>4, <2>1 DEF Verify, TypeOK, ProofsOnRecord
<1>5. ASSUME NEW h \in Handlers, Accept(h) PROVE ProofsOnRecord'
    BY <1>5 DEF Accept, TypeOK, Row, ProofsOnRecord
<1>6. ASSUME NEW t \in Token, Publish(t) \/ Withdraw(t) PROVE ProofsOnRecord'
    BY <1>6 DEF Publish, Withdraw, TypeOK, ProofsOnRecord
<1>7. CASE UNCHANGED vars
    BY <1>7 DEF vars, ProofsOnRecord
<1> QED BY <1>1, <1>2, <1>3, <1>4, <1>5, <1>6, <1>7 DEF Next

\* Whatever verified flag or probe result is on record or on its way to it,
\* a probe has found an issued token.
THEOREM ProofsInvariant == Spec => []ProofsOnRecord
<1>1. Init => ProofsOnRecord
    BY DEF Init, ProofsOnRecord, NewRow, NoToken
<1> QED BY <1>1, OwnershipTypeCorrect, ProofsStep, PTL DEF Spec

\* A target is scannable only if a token issued for it was seen at its domain,
\* whatever requests race on the row.
THEOREM ScannableAlwaysProven == Spec => []ScannableIsProven
<1>1. ProofsOnRecord => ScannableIsProven
    BY DEF ProofsOnRecord, ScannableIsProven, IsScannable
<1> QED BY <1>1, ProofsInvariant, PTL
\* The strengthening that makes VerifiedMatchesToken inductive: as long as no
\* two requests have overlapped, the one under way still holds the row as it
\* is, and a positive result it holds speaks of the token of that row.
SerialOK ==
    ~overlapped =>
        /\ VerifiedMatchesToken
        /\ \A g, h \in Handlers : pc[g] # "idle" /\ pc[h] # "idle" => g = h
        /\ \A h \in Handlers : pc[h] # "idle" => loaded[h] = row
        /\ \A h \in Handlers : pc[h] = "verify" /\ result[h] => loaded[h].token \in proven

\* A commit writes what was assigned to a column nobody else has written.
LEMMA FlushCurrent ==
    ASSUME NEW old, NEW new
    PROVE  Flush(old, new, old) = new
BY DEF Flush

\* Every step of a request keeps the invariant: a commit of the only request
\* under way writes all that it assigned.
LEMMA SerialStep == TypeOK /\ SerialOK /\ [Next]_vars => SerialOK'
<1> SUFFICES ASSUME TypeOK, SerialOK, [Next]_vars, ~overlapped' PROVE SerialOK'
    BY DEF SerialOK
<1>0. ~overlapped
    BY DEF Next, Load, Challenge, Probe, Verify, Accept, Publish, Withdraw, vars
<1>a. /\ row.verified => row.token \in proven
      /\ row.verified <=> row.stamp
      /\ \A g, h \in Handlers : pc[g] # "idle" /\ pc[h] # "idle" => g = h
      /\ \A h \in Handlers : pc[h] # "idle" => loaded[h] = row
      /\ \A h \in Handlers : pc[h] = "verify" /\ result[h] => loaded[h].token \in proven
    BY <1>0 DEF SerialOK, VerifiedMatchesToken
<1>1. ASSUME NEW h \in Handlers, NEW op \in {"challenge", "probe", "accept"}, Load(h, op)
      PROVE  SerialOK'
  <2>1. \A g \in Handlers : pc[g] = "idle"
    BY <1>1 DEF Load
  <2>2. /\ \A g \in Handlers : g # h => pc'[g] = "idle"
        /\ pc'[h] = op /\ loaded'[h] = row /\ UNCHANGED <<row, result, proven>>
    BY <1>1, <2>1 DEF Load, TypeOK
  <2> QED BY <1>a, <2>2 DEF SerialOK, VerifiedMatchesToken
<1>2. ASSUME NEW h \in Handlers, pc[h] # "idle", pc' = [pc EXCEPT ![h] = "idle"]
      PROVE  \A g \in Handlers : pc'[g] = "idle"
    BY <1>a, <1>2 DEF TypeOK
<1>3. ASSUME NEW h \in Handlers, Challenge(h) PROVE SerialOK'
  <2>1. loaded[h] = row /\ \A g \in Handlers : pc'[g] = "idle"
    BY <1>2, <1>3, <1>a DEF Challenge
  <2>2. row' = [row EXCEPT !.token = issued + 1, !.verified = FALSE, !.stamp = FALSE]
    BY <1>3, <2>1, FlushCurrent DEF Challenge
  <2>3. row'.verified = FALSE /\ row'.stamp = FALSE
    BY <2>2 DEF TypeOK, Row
  <2> QED BY <2>1, <2>3 DEF SerialOK, VerifiedMatchesToken
<1>4. ASSUME NEW h \in Handlers, Probe(h) PROVE SerialOK'
  <2>1. PICK ok \in {FALSE, loaded[h].token \in published} :
            /\ result' = [result EXCEPT ![h] = ok]
            /\ proven' = IF ok THEN proven \cup {loaded[h].token} ELSE proven
    BY <1>4 DEF Probe
  <2>2. /\ pc[h] = "probe" /\ pc' = [pc EXCEPT ![h] = "verify"]
        /\ UNCHANGED <<row, loaded>>
    BY <1>4 DEF Probe
  <2>3. /\ \A g \in Handlers : pc'[g] # "idle" => g = h
        /\ loaded[h] = row /\ proven \subseteq proven'
    BY <1>a, <2>1, <2>2 DEF TypeOK
  <2>4. result'[h] => loaded[h].token \in proven'
    BY <2>1 DEF TypeOK
  <2> QED BY <1>a, <2>2, <2>3, <2>4 DEF SerialOK, VerifiedMatchesToken
<1>5. ASSUME NEW h \in Handlers, Verify(h) PROVE SerialOK'
  <2>1. /\ loaded[h] = row /\ \A g \in Handlers : pc'[g] = "idle"
        /\ result[h] => row.token \in proven
    BY <1>2, <1>5, <1>a DEF Verify
  <2>2. row' = [row EXCEPT !.verified = result[h],
                           !.stamp = IF result[h] THEN TRUE ELSE FALSE]
    BY <1>5, <2>1, FlushCurrent DEF Verify
  <2>3. /\ row'.verified = result[h] /\ row'.token = row.token
        /\ row'.stamp = (IF result[h] THEN TRUE ELSE FALSE)
    BY <2>2 DEF TypeOK, Row
  <2>4. proven' = proven
    BY <1>5 DEF Verify
  <2> QED BY <2>1, <2>3, <2>4 DEF SerialOK, VerifiedMatchesToken
<1>6. ASSUME NEW h \in Handlers, Accept(h) PROVE SerialOK'
  <2>1. \A g \in Handlers : pc'[g] = "idle"
    BY <1>2, <1>6 DEF Accept
  <2>2. /\ row'.verified = row.verified /\ row'.token = row.token /\ row'.stamp = row.stamp
        /\ proven' = proven
    BY <1>6 DEF Accept, TypeOK, Row
  <2> QED BY <1>a, <2>1, <2>2 DEF SerialOK, VerifiedMatchesToken
<1>7. ASSUME NEW t \in Token, Publish(t) \/ Withdraw(t) PROVE SerialOK'
    BY <1>7, <1>a DEF Publish, Withdraw, SerialOK, VerifiedMatchesToken
<1>8. CASE UNCHANGED vars
    BY <1>8, <1>a DEF vars, SerialOK, VerifiedMatchesToken
<1> QED BY <1>1, <1>3, <1>4, <1>5, <1>6, <1>7, <1>8 DEF Next

\* Requests that come one after the other keep the verified flag true of the
\* token the row holds, and the time stamp with it, however many there are.
THEOREM VerifiedAlwaysMatches == Spec => []VerifiedMatchesToken
<1>1. Init => SerialOK
    BY DEF Init, SerialOK, VerifiedMatchesToken, NewRow
<1>2. SerialOK => VerifiedMatchesToken
    BY DEF SerialOK, VerifiedMatchesToken
<1> QED BY <1>1, <1>2, OwnershipTypeCorrect, SerialStep, PTL DEF Spec
=============================================================================

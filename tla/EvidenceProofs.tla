--------------------------- MODULE EvidenceProofs ---------------------------
(***************************************************************************)
(* Theorems about what a finding rests on: the gate before a finding is    *)
(* confirmed (FindingGate), for any number of sessions, and the stored     *)
(* transcripts (TranscriptStore), for any number of processes and          *)
(* exchanges.                                                              *)
(***************************************************************************)
EXTENDS FindingGate, TranscriptStore, TLAPS

-----------------------------------------------------------------------------
(* The gate.                                                               *)

\* A verification as a session or the table may hold it.
AnyVerification == Verification \cup {NoVerification}

SessionType ==
    [open : BOOLEAN, was : Confidence \cup {NoFinding}, conf : Confidence \cup {NoFinding},
     had : AnyVerification, ver : AnyVerification,
     dirty : BOOLEAN, unseen : BOOLEAN, deleted : BOOLEAN, stale : BOOLEAN]

GateShape ==
    /\ finding \in Confidence \cup {NoFinding}
    /\ verification \in AnyVerification
    /\ db \in [Sessions -> SessionType]
    /\ bypassed \in BOOLEAN

\* What a session that no other has overtaken knows: the rows are as it
\* loaded them, and a finding that is clean, with a verification that did not
\* change meanwhile, is as it was loaded or as the hook has judged it.
SessionCurrent(s) ==
    db[s].open /\ ~db[s].stale =>
        /\ db[s].was = finding /\ db[s].had = verification
        /\ ~db[s].dirty /\ ~db[s].unseen =>
              \/ db[s].conf = db[s].was /\ db[s].ver = db[s].had
              \/ db[s].conf = "confirmed" => SatisfiesConfirmed(db[s].ver)

\* A session gives its finding a confidence, and one that loaded the finding
\* shows that there is a row.
SessionHasFinding(s) ==
    db[s].open => /\ db[s].conf \in Confidence
                  /\ db[s].was # NoFinding => finding # NoFinding

\* The rows satisfy the gate as long as nothing has gone past it, and no
\* verification is there before its finding.
GateInv ==
    /\ \A s \in Sessions : SessionCurrent(s) /\ SessionHasFinding(s)
    /\ finding = NoFinding => verification = NoVerification
    /\ GateHasThreeGaps

\* A database without findings satisfies the gate.
LEMMA GateInitial == GateInit => GateShape /\ GateInv
  <1> SUFFICES ASSUME GateInit PROVE GateShape /\ GateInv
    OBVIOUS
  <1>1. Closed \in SessionType
    BY DEF Closed, SessionType, AnyVerification
  <1>2. GateShape
    BY <1>1 DEF GateInit, GateShape, AnyVerification
  <1>3. GateInv
    BY DEF GateInit, GateInv, SessionCurrent, SessionHasFinding, Closed, GateHasThreeGaps,
           ConfirmedIsVerified, NoFinding
  <1> QED
    BY <1>2, <1>3

\* An edit of a session's objects changes neither the rows nor the other
\* sessions, so it keeps the invariant if it keeps what was loaded and marks
\* the finding dirty when it changes its confidence.
LEMMA EditKeepsGate ==
    ASSUME GateShape, GateInv, NEW s \in Sessions, NEW changed \in SessionType,
           Edit(s, changed),
           changed.was = db[s].was, changed.had = db[s].had,
           changed.stale = db[s].stale, changed.conf \in Confidence,
           \/ changed.dirty
           \/ changed.conf = db[s].conf /\ changed.dirty = db[s].dirty
              /\ (changed.unseen \/ (~db[s].unseen /\ changed.ver = db[s].ver))
    PROVE  GateShape' /\ GateInv'
  <1>1. GateShape'
    BY DEF GateShape, Edit
  <1>2. ASSUME NEW t \in Sessions PROVE SessionCurrent(t)' /\ SessionHasFinding(t)'
    <2>1. SessionCurrent(t) /\ SessionHasFinding(t)
      BY <1>2 DEF GateInv
    <2>2. CASE t = s
      BY <1>2, <2>1, <2>2 DEF GateShape, SessionType, SessionCurrent, SessionHasFinding, Edit
    <2>3. CASE t # s
      BY <1>2, <2>1, <2>3 DEF GateShape, SessionType, SessionCurrent, SessionHasFinding, Edit
    <2> QED
      BY <2>2, <2>3
  <1>3. (finding = NoFinding => verification = NoVerification)' /\ GateHasThreeGaps'
    BY DEF Edit, GateInv, GateHasThreeGaps, ConfirmedIsVerified
  <1> QED
    BY <1>1, <1>2, <1>3 DEF GateInv

\* A commit that takes none of the ways past the hook writes the objects of
\* the session, all of them.
LEMMA CommitWritesObjects ==
    ASSUME GateShape, NEW s \in Sessions, SessionCurrent(s),
           CommitSession(s), ~Bypasses(s)
    PROVE  finding' = db[s].conf /\ verification' = db[s].ver
  <1>1. db[s].open /\ ~db[s].stale /\ ~db[s].deleted
    BY DEF CommitSession, Bypasses
  <1>2. db[s].was = finding /\ db[s].had = verification
    BY <1>1 DEF SessionCurrent
  <1>3. finding' = db[s].conf
    BY <1>2 DEF CommitSession, Flush
  <1>4. db[s].ver \in AnyVerification /\ verification \in AnyVerification
    BY DEF GateShape, SessionType
  <1>5. [passed |-> db[s].ver.passed, reproduced |-> db[s].ver.reproduced] = db[s].ver
    BY <1>4 DEF AnyVerification, Verification, NoVerification
  <1>6. /\ Flush(db[s].had.passed, db[s].ver.passed, verification.passed) = db[s].ver.passed
        /\ Flush(db[s].had.reproduced, db[s].ver.reproduced, verification.reproduced)
              = db[s].ver.reproduced
    BY <1>2 DEF Flush
  <1>7. FlushedVerification(s) = db[s].ver
    BY <1>1, <1>2, <1>5, <1>6 DEF FlushedVerification
  <1> QED
    BY <1>3, <1>7 DEF CommitSession

\* A commit that the hook lets pass keeps the gate: either the session saw the
\* rows as they are and the hook judged its finding, or one of the gaps was used.
LEMMA CommitKeepsGate ==
    ASSUME GateShape, GateInv, NEW s \in Sessions, CommitSession(s)
    PROVE  GateInv'
  <1>a. finding' # NoFinding
    <2>1. db[s].conf \in Confidence /\ (db[s].was # NoFinding => finding # NoFinding)
      BY DEF GateInv, SessionHasFinding, CommitSession
    <2> QED
      BY <2>1 DEF CommitSession, Flush, Confidence, NoFinding
  <1>1. ASSUME NEW t \in Sessions PROVE SessionCurrent(t)' /\ SessionHasFinding(t)'
    <2>1. CASE t = s
      BY <1>1, <2>1 DEF SessionCurrent, SessionHasFinding, CommitSession, Closed
    <2>2. CASE t # s
      BY <1>1, <1>a, <2>2 DEF GateShape, GateInv, SessionType, SessionCurrent, SessionHasFinding,
                              CommitSession
    <2> QED
      BY <2>1, <2>2
  <1>2. ASSUME ~bypassed' PROVE ConfirmedIsVerified'
    <2>1. ~bypassed /\ ~Bypasses(s)
      BY <1>2 DEF CommitSession
    <2>2. ConfirmedIsVerified
      BY <2>1 DEF GateInv, GateHasThreeGaps
    <2>3. SessionCurrent(s)
      BY DEF GateInv
    <2>4. finding' = db[s].conf /\ verification' = db[s].ver
      BY <2>1, <2>3, CommitWritesObjects
    <2>5. db[s].open /\ ~db[s].stale /\ (db[s].dirty \/ ~db[s].unseen)
      BY <2>1 DEF Bypasses, CommitSession
    <2>6. CASE db[s].dirty
      BY <2>4, <2>6 DEF CommitSession, Refused, SatisfiesConfirmed, ConfirmedIsVerified,
                        MIN_REPRODUCTIONS_FOR_CONFIRMED
    <2>7. CASE ~db[s].dirty
      BY <2>2, <2>3, <2>4, <2>5, <2>7 DEF SessionCurrent, ConfirmedIsVerified,
            SatisfiesConfirmed, MIN_REPRODUCTIONS_FOR_CONFIRMED
    <2> QED
      BY <2>6, <2>7
  <1> QED
    BY <1>a, <1>1, <1>2 DEF GateInv, GateHasThreeGaps

\* A commit writes a confidence and a verification of the right kinds.
LEMMA CommitShape ==
    ASSUME GateShape, NEW s \in Sessions, CommitSession(s)
    PROVE  GateShape'
  <1>1. finding' \in Confidence \cup {NoFinding}
    BY DEF GateShape, SessionType, CommitSession, Flush
  <1>2. verification' \in AnyVerification
    <2>1. db[s].had \in AnyVerification /\ db[s].ver \in AnyVerification
          /\ verification \in AnyVerification
      BY DEF GateShape, SessionType
    <2>2. CASE db[s].had # NoVerification /\ db[s].ver # NoVerification /\ db[s].ver # db[s].had
                 /\ ~db[s].deleted
      <3>1. verification \in Verification /\ db[s].ver \in Verification
        BY <2>1, <2>2 DEF CommitSession, Conflict, AnyVerification
      <3> QED
        BY <2>2, <3>1 DEF CommitSession, FlushedVerification, Flush, Verification, AnyVerification
    <2>3. CASE ~(db[s].had # NoVerification /\ db[s].ver # NoVerification
                   /\ db[s].ver # db[s].had /\ ~db[s].deleted)
      BY <2>1, <2>3 DEF CommitSession, FlushedVerification, AnyVerification
    <2> QED
      BY <2>2, <2>3
  <1>3. db' \in [Sessions -> SessionType]
    <2>1. Closed \in SessionType
      BY DEF Closed, SessionType, AnyVerification
    <2>2. ASSUME NEW t \in Sessions PROVE [db[t] EXCEPT !.stale = TRUE] \in SessionType
      BY <2>2 DEF GateShape, SessionType
    <2> QED
      BY <2>1, <2>2 DEF GateShape, CommitSession
  <1>4. bypassed' \in BOOLEAN
    BY DEF CommitSession
  <1> QED
    BY <1>1, <1>2, <1>3, <1>4 DEF GateShape

\* Every step of a session keeps the gate.
LEMMA GateStep == GateShape /\ GateInv /\ [GateNext]_gateVars => GateShape' /\ GateInv'
  <1> SUFFICES ASSUME GateShape, GateInv, [GateNext]_gateVars PROVE GateShape' /\ GateInv'
    OBVIOUS
  <1>a. Closed \in SessionType
    BY DEF Closed, SessionType, AnyVerification
  <1>b. ASSUME NEW s \in Sessions, db[s].open
        PROVE  db[s].conf \in Confidence /\ db[s] \in SessionType
    BY <1>b DEF GateInv, SessionHasFinding, GateShape
  <1>1. ASSUME NEW s \in Sessions, OpenSession(s) PROVE GateShape' /\ GateInv'
    <2>1. GateShape'
      BY <1>1, <1>a DEF OpenSession, GateShape, SessionType, Closed
    <2>2. ASSUME NEW t \in Sessions PROVE SessionCurrent(t)' /\ SessionHasFinding(t)'
      BY <1>1, <1>a, <2>2 DEF OpenSession, GateShape, GateInv, SessionCurrent,
                              SessionHasFinding, Closed
    <2>3. (finding = NoFinding => verification = NoVerification)' /\ GateHasThreeGaps'
      BY <1>1 DEF OpenSession, GateInv, GateHasThreeGaps, ConfirmedIsVerified
    <2> QED
      BY <2>1, <2>2, <2>3 DEF GateInv
  <1>2. ASSUME NEW s \in Sessions, NewFinding(s) PROVE GateShape' /\ GateInv'
    <2> DEFINE new == [Closed EXCEPT !.open = TRUE, !.dirty = TRUE, !.conf = "probable"]
    <2>a. /\ new \in SessionType /\ new.was = NoFinding /\ new.had = NoVerification
          /\ new.dirty /\ new.conf \in Confidence /\ db' = [db EXCEPT ![s] = new]
      BY <1>2, <1>a DEF NewFinding, Closed, SessionType, Confidence
    <2> HIDE DEF new
    <2>1. GateShape'
      BY <1>2, <2>a DEF NewFinding, GateShape
    <2>2. ASSUME NEW t \in Sessions PROVE SessionCurrent(t)' /\ SessionHasFinding(t)'
      BY <1>2, <2>a, <2>2 DEF NewFinding, GateShape, GateInv, SessionCurrent, SessionHasFinding
    <2>3. (finding = NoFinding => verification = NoVerification)' /\ GateHasThreeGaps'
      BY <1>2 DEF NewFinding, GateInv, GateHasThreeGaps, ConfirmedIsVerified
    <2> QED
      BY <2>1, <2>2, <2>3 DEF GateInv
  <1>3. ASSUME NEW s \in Sessions, NEW c \in Confidence, SetConfidence(s, c)
        PROVE  GateShape' /\ GateInv'
    BY <1>3, EditKeepsGate DEF SetConfidence, Dirty, GateShape, SessionType
  <1>4. ASSUME NEW s \in Sessions, NEW v \in Verification, AttachVerification(s, v)
        PROVE  GateShape' /\ GateInv'
    <2> DEFINE changed == [Dirty(s) EXCEPT !.ver = v]
    <2>1. Edit(s, changed)
      BY <1>4 DEF AttachVerification
    <2>2. db[s].conf \in Confidence /\ db[s] \in SessionType
      BY <1>4, <1>b, <2>1 DEF Edit
    <2>3. /\ changed \in SessionType /\ changed.was = db[s].was /\ changed.had = db[s].had
          /\ changed.stale = db[s].stale /\ changed.conf = db[s].conf
          /\ \/ changed.dirty
             \/ changed.dirty = db[s].dirty
                /\ (changed.unseen \/ (~db[s].unseen /\ changed.ver = db[s].ver))
      BY <1>4, <2>2 DEF Dirty, SessionType, AnyVerification
    <2> QED
      BY <1>4, <2>1, <2>2, <2>3, EditKeepsGate
  <1>5. ASSUME NEW s \in Sessions, NEW v \in Verification, RerunVerification(s, v)
        PROVE  GateShape' /\ GateInv'
    <2> DEFINE changed == [db[s] EXCEPT !.ver = v,
                                        !.unseen = @ \/ (~db[s].dirty /\ v # db[s].ver)]
    <2>1. Edit(s, changed)
      BY <1>5 DEF RerunVerification
    <2>2. db[s].conf \in Confidence /\ db[s] \in SessionType
      BY <1>5, <1>b, <2>1 DEF Edit
    <2>3. /\ changed \in SessionType /\ changed.was = db[s].was /\ changed.had = db[s].had
          /\ changed.stale = db[s].stale /\ changed.conf = db[s].conf
          /\ \/ changed.dirty
             \/ changed.dirty = db[s].dirty
                /\ (changed.unseen \/ (~db[s].unseen /\ changed.ver = db[s].ver))
      BY <1>5, <2>2 DEF SessionType, AnyVerification
    <2> QED
      BY <1>5, <2>1, <2>2, <2>3, EditKeepsGate
  <1>6. ASSUME NEW s \in Sessions, DetachVerification(s) PROVE GateShape' /\ GateInv'
    <2> DEFINE changed == [Dirty(s) EXCEPT !.ver = NoVerification]
    <2>1. Edit(s, changed)
      BY <1>6 DEF DetachVerification
    <2>2. db[s].conf \in Confidence /\ db[s] \in SessionType
      BY <1>6, <1>b, <2>1 DEF Edit
    <2>3. /\ changed \in SessionType /\ changed.was = db[s].was /\ changed.had = db[s].had
          /\ changed.stale = db[s].stale /\ changed.conf = db[s].conf
          /\ \/ changed.dirty
             \/ changed.dirty = db[s].dirty
                /\ (changed.unseen \/ (~db[s].unseen /\ changed.ver = db[s].ver))
      BY <1>6, <2>2 DEF Dirty, SessionType, AnyVerification
    <2> QED
      BY <1>6, <2>1, <2>2, <2>3, EditKeepsGate
  <1>7. ASSUME NEW s \in Sessions, DeleteVerification(s) PROVE GateShape' /\ GateInv'
    <2> DEFINE changed == [db[s] EXCEPT !.deleted = TRUE]
    <2>1. Edit(s, changed)
      BY <1>7 DEF DeleteVerification
    <2>2. db[s].conf \in Confidence /\ db[s] \in SessionType
      BY <1>7, <1>b, <2>1 DEF Edit
    <2>3. /\ changed \in SessionType /\ changed.was = db[s].was /\ changed.had = db[s].had
          /\ changed.stale = db[s].stale /\ changed.conf = db[s].conf
          /\ \/ changed.dirty
             \/ changed.dirty = db[s].dirty
                /\ (changed.unseen \/ (~db[s].unseen /\ changed.ver = db[s].ver))
      BY <1>7, <2>2 DEF SessionType, AnyVerification
    <2> QED
      BY <1>7, <2>1, <2>2, <2>3, EditKeepsGate
  <1>8. ASSUME NEW s \in Sessions, RollbackSession(s) PROVE GateShape' /\ GateInv'
    <2>1. GateShape'
      BY <1>8, <1>a DEF RollbackSession, GateShape
    <2>2. ASSUME NEW t \in Sessions PROVE SessionCurrent(t)' /\ SessionHasFinding(t)'
      BY <1>8, <2>2 DEF RollbackSession, GateShape, GateInv, SessionCurrent,
                        SessionHasFinding, Closed
    <2>3. (finding = NoFinding => verification = NoVerification)' /\ GateHasThreeGaps'
      BY <1>8 DEF RollbackSession, GateInv, GateHasThreeGaps, ConfirmedIsVerified
    <2> QED
      BY <2>1, <2>2, <2>3 DEF GateInv
  <1>11. ASSUME NEW s \in Sessions, FlushSession(s) PROVE GateShape' /\ GateInv'
    <2> DEFINE flushed == [db[s] EXCEPT !.dirty = FALSE, !.unseen = FALSE]
    <2>1. Edit(s, flushed) /\ db[s].open /\ db[s].dirty /\ ~Refused(s)
      BY <1>11 DEF FlushSession, Edit
    <2>2. /\ flushed \in SessionType /\ flushed.was = db[s].was /\ flushed.had = db[s].had
          /\ flushed.stale = db[s].stale /\ flushed.conf = db[s].conf
          /\ flushed.ver = db[s].ver
      BY <2>1, <1>b DEF SessionType
    <2>3. db' = [db EXCEPT ![s] = flushed] /\ UNCHANGED <<finding, verification, bypassed>>
      BY <2>1 DEF Edit
    <2>4. flushed.conf = "confirmed" => SatisfiesConfirmed(flushed.ver)
      BY <2>1, <2>2 DEF Refused
    <2> HIDE DEF flushed
    <2>5. GateShape'
      BY <2>2, <2>3 DEF GateShape
    <2>6. ASSUME NEW t \in Sessions PROVE SessionCurrent(t)' /\ SessionHasFinding(t)'
      <3>1. SessionCurrent(t) /\ SessionHasFinding(t)
        BY <2>6 DEF GateInv
      <3>2. CASE t = s
        BY <2>1, <2>2, <2>3, <2>4, <3>1, <3>2 DEF GateShape, SessionCurrent, SessionHasFinding
      <3>3. CASE t # s
        BY <2>3, <2>6, <3>1, <3>3 DEF GateShape, SessionCurrent, SessionHasFinding
      <3> QED
        BY <3>2, <3>3
    <2>7. (finding = NoFinding => verification = NoVerification)' /\ GateHasThreeGaps'
      BY <2>3 DEF GateInv, GateHasThreeGaps, ConfirmedIsVerified
    <2> QED
      BY <2>5, <2>6, <2>7 DEF GateInv
  <1>9. ASSUME NEW s \in Sessions, CommitSession(s) PROVE GateShape' /\ GateInv'
    BY <1>9, CommitShape, CommitKeepsGate
  <1>10. CASE UNCHANGED gateVars
    BY <1>10 DEF gateVars, GateShape, GateInv, SessionCurrent, SessionHasFinding, GateHasThreeGaps,
                 ConfirmedIsVerified
  <1> QED
    BY <1>1, <1>2, <1>3, <1>4, <1>5, <1>6, <1>7, <1>8, <1>9, <1>10, <1>11 DEF GateNext

\* The before_flush hook of finding.py: sessions that flush a finding with
\* its verification, and are not overtaken, keep the rows satisfying the
\* gate; the three ways past the hook are all there are.
THEOREM GateHolds == GateSpec => []GateHasThreeGaps
  <1>1. GateInit => GateShape /\ GateInv
    BY GateInitial
  <1>2. GateShape /\ GateInv /\ [GateNext]_gateVars => (GateShape /\ GateInv)'
    BY GateStep
  <1>3. GateShape /\ GateInv => GateHasThreeGaps
    BY DEF GateInv
  <1> QED
    BY <1>1, <1>2, <1>3, PTL DEF GateSpec

-----------------------------------------------------------------------------
(* The transcript store.                                                   *)

Doc(n) == Serialise(recorded[n])

Busy == [at : {"put", "open", "write"}, n : Nat]

StoreShape ==
    /\ backend \in {"local", "s3"}
    /\ recorded \in Seq([exchange : Exchanges, at : Times])
    /\ writer \in [Processes -> {Free} \cup Busy]
    /\ receipts \subseteq DOMAIN recorded

\* A busy process has an exchange of its own, whose id is not returned yet.
OwnExchange ==
    /\ \A p \in Processes : writer[p].at # "free" => writer[p].n \in DOMAIN recorded \ receipts
    /\ \A p, q \in Processes :
          writer[p].at # "free" /\ writer[q].at # "free" /\ writer[p].n = writer[q].n => p = q

\* What is in the store was put there for an exchange that is past the check.
PastCheck(n) == \A p \in Processes : writer[p].at \in {"put", "open"} => writer[p].n # n

FilesMade == \A f \in complete \cup short : \E n \in DOMAIN recorded : f = Doc(n) /\ PastCheck(n)

\* A returned id names a whole document, unless it has a twin in the local
\* store.
ReceiptsWhole ==
    \A n \in receipts : backend = "s3" \/ ~HasTwin(n) => Doc(n) \in complete \ short

\* The object store has no short objects.
ObjectsWhole ==
    backend = "s3" => short = {} /\ \A p \in Processes : writer[p].at \in {"free", "put"}

StoreInv == StoreShape /\ OwnExchange /\ FilesMade /\ ReceiptsWhole /\ ObjectsWhole

\* An empty store satisfies the invariant.
LEMMA StoreInitial == StoreInit => StoreInv
  <1> SUFFICES ASSUME StoreInit PROVE StoreInv
    OBVIOUS
  <1>1. \A p \in Processes : writer[p] = Free /\ writer[p].at = "free"
    BY DEF StoreInit, Free
  <1>2. StoreShape
    BY DEF StoreInit, StoreShape
  <1> QED
    BY <1>1, <1>2 DEF StoreInit, StoreInv, OwnExchange, FilesMade, ReceiptsWhole, ObjectsWhole

\* Two exchanges with one document are twins.
LEMMA OneDocumentTwins ==
    ASSUME NEW n, NEW k \in DOMAIN recorded, k # n, Doc(k) = Doc(n)
    PROVE  HasTwin(n)
  BY DEF Doc, Serialise, HasTwin

\* record() up to put: the exchange is new, and may only make twins.
LEMMA RecordStep ==
    ASSUME StoreInv, NEW p \in Processes, NEW e \in Exchanges, NEW now \in Times,
           RecordExchange(p, e, now)
    PROVE  StoreInv'
  <1> DEFINE new == Len(recorded) + 1
             r == [exchange |-> e, at |-> now]
  <1>1. /\ recorded \in Seq([exchange : Exchanges, at : Times])
        /\ recorded' = Append(recorded, r)
        /\ r \in [exchange : Exchanges, at : Times]
    BY DEF StoreInv, StoreShape, RecordExchange
  <1>2. /\ recorded' \in Seq([exchange : Exchanges, at : Times])
        /\ DOMAIN recorded' = DOMAIN recorded \cup {new}
        /\ new \in Nat /\ new \notin DOMAIN recorded
        /\ \A k \in DOMAIN recorded : recorded'[k] = recorded[k]
    BY <1>1
  <1> HIDE DEF new, r
  <1>3. /\ writer[p].at = "free"
        /\ writer' = [writer EXCEPT ![p] = [at |-> "put", n |-> new]]
        /\ UNCHANGED <<backend, complete, short, receipts>>
    BY DEF RecordExchange, new
  <1>4. /\ writer'[p] = [at |-> "put", n |-> new] /\ writer'[p].at = "put" /\ writer'[p].n = new
        /\ \A q \in Processes \ {p} : writer'[q] = writer[q]
    BY <1>3 DEF StoreInv, StoreShape
  <1>5. StoreShape'
    BY <1>2, <1>3 DEF StoreInv, StoreShape, Busy
  <1>6. OwnExchange'
    BY <1>2, <1>3, <1>4 DEF StoreInv, StoreShape, OwnExchange
  <1>7. \A k \in DOMAIN recorded : (Doc(k))' = Doc(k) /\ (HasTwin(k) => HasTwin(k)')
    BY <1>2 DEF Doc, Serialise, HasTwin
  <1>8. FilesMade'
    <2> SUFFICES ASSUME NEW f \in complete \cup short
                 PROVE  \E n \in DOMAIN recorded' : f = (Doc(n))' /\ PastCheck(n)'
      BY <1>3 DEF FilesMade
    <2>1. PICK n \in DOMAIN recorded : f = Doc(n) /\ PastCheck(n)
      BY DEF StoreInv, FilesMade
    <2>2. PastCheck(n)'
      BY <1>2, <1>4, <2>1 DEF PastCheck
    <2> QED
      BY <1>2, <1>7, <2>1, <2>2
  <1>9. ReceiptsWhole'
    BY <1>3, <1>7 DEF StoreInv, StoreShape, ReceiptsWhole
  <1>10. ObjectsWhole'
    BY <1>3, <1>4 DEF StoreInv, ObjectsWhole
  <1> QED
    BY <1>5, <1>6, <1>8, <1>9, <1>10 DEF StoreInv

\* A step of put by p, with what it may do to the writer.
LEMMA PutFrame ==
    ASSUME StoreInv, NEW p \in Processes, writer[p].at # "free", UNCHANGED <<backend, recorded>>,
           NEW m, m \in {Free} \cup Busy, writer' = [writer EXCEPT ![p] = m],
           m.at # "free" => m.n = writer[p].n,
           receipts' \subseteq receipts \cup {writer[p].n},
           writer[p].n \in receipts' => m.at = "free"
    PROVE  /\ StoreShape' /\ OwnExchange'
           /\ writer'[p] = m /\ \A q \in Processes \ {p} : writer'[q] = writer[q]
           /\ \A k \in DOMAIN recorded : (Doc(k))' = Doc(k) /\ (HasTwin(k)' <=> HasTwin(k))
  <1>1. writer'[p] = m /\ \A q \in Processes \ {p} : writer'[q] = writer[q]
    BY DEF StoreInv, StoreShape
  <1>2. writer[p].n \in DOMAIN recorded \ receipts
    BY DEF StoreInv, OwnExchange
  <1>3. StoreShape'
    BY <1>2 DEF StoreInv, StoreShape
  <1>4. OwnExchange'
    <2>1. ASSUME NEW q \in Processes, writer'[q].at # "free"
          PROVE  writer[q].at # "free" /\ writer'[q].n = writer[q].n
      BY <1>1, <2>1
    <2>2. ASSUME NEW q \in Processes, writer'[q].at # "free"
          PROVE  writer'[q].n \in DOMAIN recorded \ receipts'
      <3>1. writer[q].n \in DOMAIN recorded \ receipts
        BY <2>1, <2>2 DEF StoreInv, OwnExchange
      <3>2. CASE q = p
        BY <1>1, <2>1, <2>2, <3>1, <3>2
      <3>3. CASE q # p
        <4>1. writer[q].n # writer[p].n
          BY <2>1, <2>2, <3>3 DEF StoreInv, OwnExchange
        <4> QED
          BY <2>1, <2>2, <3>1, <4>1
      <3> QED
        BY <3>2, <3>3
    <2> QED
      BY <2>1, <2>2 DEF StoreInv, OwnExchange
  <1>5. \A k \in DOMAIN recorded : (Doc(k))' = Doc(k) /\ (HasTwin(k)' <=> HasTwin(k))
    BY DEF Doc, Serialise, HasTwin
  <1> QED
    BY <1>1, <1>3, <1>4, <1>5

\* A busy process goes on with its exchange.
LEMMA BusyGoesOn ==
    ASSUME NEW b \in Busy, NEW a \in {"put", "open", "write"}, NEW m, m = [b EXCEPT !.at = a]
    PROVE  m \in Busy /\ m.n = b.n /\ m.at = a
  BY DEF Busy

\* The check of put in the local store.  What exists under the id of an
\* exchange without a twin was put there for it, and it is still unchecked.
LEMMA PutLocalStep ==
    ASSUME StoreInv, NEW p \in Processes, PutLocal(p)
    PROVE  StoreInv'
  <1> DEFINE n == writer[p].n
  <1>1. /\ backend = "local" /\ writer[p].at = "put" /\ writer[p] \in Busy
        /\ n \in DOMAIN recorded \ receipts /\ Content(p) = Doc(n)
        /\ UNCHANGED <<backend, recorded, complete, short>>
    BY DEF PutLocal, StoreInv, StoreShape, OwnExchange, Content, Doc, Free
  <1>2. PICK m \in {Free} \cup Busy :
            /\ writer' = [writer EXCEPT ![p] = m]
            /\ m.at # "free" => m.n = n
            /\ receipts' \subseteq receipts \cup {n}
            /\ n \in receipts' => m.at = "free" /\ Doc(n) \in complete \cup short
    <2>1. CASE Content(p) \in complete \cup short
      <3>1. Free.at = "free"
        BY DEF Free
      <3> QED
        BY <1>1, <2>1, <3>1 DEF PutLocal, ReturnId
    <2>2. CASE Content(p) \notin complete \cup short
      <3>a. PICK m : m = [writer[p] EXCEPT !.at = "open"]
        OBVIOUS
      <3>1. m \in Busy /\ m.n = n /\ m.at = "open"
        BY <1>1, <3>a, BusyGoesOn
      <3> QED
        BY <1>1, <2>2, <3>a, <3>1 DEF PutLocal
    <2> QED
      BY <2>1, <2>2
  <1> HIDE DEF n
  <1>3. /\ StoreShape' /\ OwnExchange'
        /\ writer'[p] = m /\ \A q \in Processes \ {p} : writer'[q] = writer[q]
        /\ \A k \in DOMAIN recorded : (Doc(k))' = Doc(k) /\ (HasTwin(k)' <=> HasTwin(k))
    BY <1>1, <1>2, PutFrame DEF n
  <1>4. FilesMade'
    <2> SUFFICES ASSUME NEW f \in complete \cup short
                 PROVE  \E k \in DOMAIN recorded : f = (Doc(k))' /\ PastCheck(k)'
      BY <1>1 DEF FilesMade
    <2>1. PICK k \in DOMAIN recorded : f = Doc(k) /\ PastCheck(k)
      BY DEF StoreInv, FilesMade
    <2>2. k # n
      BY <1>1, <2>1 DEF PastCheck, n
    <2>3. PastCheck(k)'
      BY <1>2, <1>3, <2>1, <2>2 DEF PastCheck
    <2> QED
      BY <1>3, <2>1, <2>3
  <1>5. ReceiptsWhole'
    <2>1. ASSUME Doc(n) \in complete \cup short PROVE HasTwin(n)
      <3>1. PICK k \in DOMAIN recorded : Doc(n) = Doc(k) /\ PastCheck(k)
        BY <2>1 DEF StoreInv, FilesMade
      <3>2. k # n
        BY <1>1, <3>1 DEF PastCheck, n
      <3> QED
        BY <3>1, <3>2, OneDocumentTwins
    <2> SUFFICES ASSUME NEW k \in receipts', ~HasTwin(k)'
                 PROVE  (Doc(k))' \in complete \ short
      BY <1>1 DEF ReceiptsWhole
    <2>2. k \in DOMAIN recorded /\ ~HasTwin(k)
      BY <1>1, <1>2, <1>3 DEF StoreInv, StoreShape
    <2>3. k \in receipts
      BY <1>2, <2>1, <2>2
    <2> QED
      BY <1>3, <2>2, <2>3 DEF StoreInv, ReceiptsWhole
  <1>6. ObjectsWhole'
    BY <1>1 DEF ObjectsWhole
  <1> QED
    BY <1>3, <1>4, <1>5, <1>6 DEF StoreInv

\* write_bytes opens the file.  It empties no file whose id was returned and
\* has no twin.
LEMMA OpenStep ==
    ASSUME StoreInv, NEW p \in Processes, PutOpensFile(p)
    PROVE  StoreInv'
  <1> DEFINE n == writer[p].n
  <1>1. /\ backend = "local" /\ writer[p].at = "open" /\ writer[p] \in Busy
        /\ n \in DOMAIN recorded \ receipts /\ Content(p) = Doc(n)
        /\ short' = short \cup {Doc(n)} /\ complete' = complete \ {Doc(n)}
        /\ UNCHANGED <<backend, recorded, receipts>>
    <2>1. writer[p].at = "open" /\ backend \in {"local", "s3"} /\ writer[p] \in {Free} \cup Busy
      BY DEF PutOpensFile, StoreInv, StoreShape
    <2>2. backend = "local"
      BY <2>1 DEF StoreInv, ObjectsWhole
    <2> QED
      BY <2>1, <2>2 DEF PutOpensFile, StoreInv, OwnExchange, Content, Doc, Free
  <1>2. PICK m \in Busy : m.at = "write" /\ m.n = n /\ writer' = [writer EXCEPT ![p] = m]
    <2>a. PICK m : m = [writer[p] EXCEPT !.at = "write"]
      OBVIOUS
    <2>1. m \in Busy /\ m.n = n /\ m.at = "write"
      BY <1>1, <2>a, BusyGoesOn
    <2> QED
      BY <2>a, <2>1 DEF PutOpensFile
  <1> HIDE DEF n
  <1>3. /\ StoreShape' /\ OwnExchange'
        /\ writer'[p] = m /\ \A q \in Processes \ {p} : writer'[q] = writer[q]
        /\ \A k \in DOMAIN recorded : (Doc(k))' = Doc(k) /\ (HasTwin(k)' <=> HasTwin(k))
    BY <1>1, <1>2, PutFrame DEF n
  <1>4. \A k \in DOMAIN recorded : k = n \/ PastCheck(k) => PastCheck(k)'
    <2>1. \A q \in Processes \ {p} : writer[q].at # "free" => writer[q].n # n
      BY <1>1 DEF StoreInv, OwnExchange, n
    <2> QED
      BY <1>2, <1>3, <2>1 DEF PastCheck
  <1>5. FilesMade'
    BY <1>1, <1>3, <1>4 DEF StoreInv, FilesMade
  <1>6. ReceiptsWhole'
    <2> SUFFICES ASSUME NEW k \in receipts, ~HasTwin(k)'
                 PROVE  (Doc(k))' \in complete' \ short'
      BY <1>1 DEF ReceiptsWhole
    <2>1. k \in DOMAIN recorded /\ ~HasTwin(k) /\ k # n /\ (Doc(k))' = Doc(k)
      BY <1>1, <1>3 DEF StoreInv, StoreShape
    <2>2. Doc(n) # Doc(k)
      BY <1>1, <2>1, OneDocumentTwins
    <2> QED
      BY <1>1, <2>1, <2>2 DEF StoreInv, ReceiptsWhole
  <1>7. ObjectsWhole'
    BY <1>1 DEF ObjectsWhole
  <1> QED
    BY <1>3, <1>5, <1>6, <1>7 DEF StoreInv

\* The document of p gets into the store whole, and its id may be returned.
LEMMA StoredStep ==
    ASSUME StoreInv, NEW p \in Processes, writer[p].at # "free",
           UNCHANGED <<backend, recorded>>,
           writer' = [writer EXCEPT ![p] = Free],
           complete' = complete \cup {Content(p)}, short' = short \ {Content(p)},
           receipts' \in {receipts, receipts \cup {writer[p].n}}
    PROVE  StoreInv'
  <1> DEFINE n == writer[p].n
  <1>1. n \in DOMAIN recorded \ receipts /\ Content(p) = Doc(n) /\ Free.at = "free"
    BY DEF StoreInv, OwnExchange, Content, Doc, Free
  <1> HIDE DEF n
  <1>2. /\ StoreShape' /\ OwnExchange'
        /\ writer'[p] = Free /\ \A q \in Processes \ {p} : writer'[q] = writer[q]
        /\ \A k \in DOMAIN recorded : (Doc(k))' = Doc(k) /\ (HasTwin(k)' <=> HasTwin(k))
    BY <1>1, PutFrame DEF n
  <1>3. \A k \in DOMAIN recorded : k = n \/ PastCheck(k) => PastCheck(k)'
    <2>1. \A q \in Processes \ {p} : writer[q].at # "free" => writer[q].n # n
      BY DEF StoreInv, OwnExchange, n
    <2> QED
      BY <1>1, <1>2, <2>1 DEF PastCheck
  <1>4. FilesMade'
    BY <1>1, <1>2, <1>3 DEF StoreInv, FilesMade
  <1>5. ReceiptsWhole'
    <2> SUFFICES ASSUME NEW k \in receipts', backend = "s3" \/ ~HasTwin(k)'
                 PROVE  (Doc(k))' \in complete' \ short'
      BY DEF ReceiptsWhole
    <2>1. k \in DOMAIN recorded /\ (Doc(k))' = Doc(k) /\ (HasTwin(k)' <=> HasTwin(k))
      BY <1>1, <1>2 DEF StoreInv, StoreShape, n
    <2>2. k \in receipts \/ k = n
      BY DEF n
    <2> QED
      BY <1>1, <2>1, <2>2 DEF StoreInv, ReceiptsWhole
  <1>6. ObjectsWhole'
    BY <1>1, <1>2 DEF StoreInv, ObjectsWhole
  <1> QED
    BY <1>2, <1>4, <1>5, <1>6 DEF StoreInv

\* A put that fails leaves the store as it is.
LEMMA FailedStep ==
    ASSUME StoreInv, NEW p \in Processes, writer[p].at # "free",
           UNCHANGED <<backend, recorded, complete, short, receipts>>,
           writer' = [writer EXCEPT ![p] = Free]
    PROVE  StoreInv'
  <1>1. Free.at = "free" /\ writer[p].n \notin receipts
    BY DEF Free, StoreInv, OwnExchange
  <1>2. /\ StoreShape' /\ OwnExchange'
        /\ writer'[p] = Free /\ \A q \in Processes \ {p} : writer'[q] = writer[q]
        /\ \A k \in DOMAIN recorded : (Doc(k))' = Doc(k) /\ (HasTwin(k)' <=> HasTwin(k))
    BY <1>1, PutFrame
  <1>3. \A k \in DOMAIN recorded : PastCheck(k) => PastCheck(k)'
    BY <1>1, <1>2 DEF PastCheck
  <1>4. FilesMade'
    BY <1>2, <1>3 DEF StoreInv, FilesMade
  <1>5. ReceiptsWhole'
    BY <1>2 DEF StoreInv, StoreShape, ReceiptsWhole
  <1>6. ObjectsWhole'
    BY <1>1, <1>2 DEF StoreInv, ObjectsWhole
  <1> QED
    BY <1>2, <1>4, <1>5, <1>6 DEF StoreInv

\* Every step of the store keeps the invariant.
LEMMA StoreStep == StoreInv /\ [StoreNext]_storeVars => StoreInv'
  <1> SUFFICES ASSUME StoreInv, [StoreNext]_storeVars PROVE StoreInv'
    OBVIOUS
  <1>1. ASSUME NEW p \in Processes, NEW e \in Exchanges, NEW now \in Times,
               RecordExchange(p, e, now)
        PROVE  StoreInv'
    BY <1>1, RecordStep
  <1>2. ASSUME NEW p \in Processes, PutLocal(p) PROVE StoreInv'
    BY <1>2, PutLocalStep
  <1>3. ASSUME NEW p \in Processes, PutOpensFile(p) PROVE StoreInv'
    BY <1>3, OpenStep
  <1>4. ASSUME NEW p \in Processes, PutFillsFile(p) PROVE StoreInv'
    BY <1>4, StoredStep DEF PutFillsFile, ReturnId
  <1>5. ASSUME NEW p \in Processes, PutObject(p) PROVE StoreInv'
    <2>1. short = {} /\ short' = short \ {Content(p)}
      BY <1>5 DEF PutObject, StoreInv, ObjectsWhole
    <2> QED
      BY <1>5, <2>1, StoredStep DEF PutObject, ReturnId
  <1>6. ASSUME NEW p \in Processes, PutFails(p) PROVE StoreInv'
    <2>1. CASE complete' = complete
      BY <1>6, <2>1, FailedStep DEF PutFails
    <2>2. CASE complete' = complete \cup {Content(p)} /\ backend = "s3"
      <3>1. short' = short \ {Content(p)}
        BY <1>6, <2>2 DEF PutFails, StoreInv, ObjectsWhole
      <3> QED
        BY <1>6, <2>2, <3>1, StoredStep DEF PutFails
    <2> QED
      BY <1>6, <2>1, <2>2 DEF PutFails
  <1>7. CASE UNCHANGED storeVars
    BY <1>7 DEF storeVars, StoreInv, StoreShape, OwnExchange, FilesMade, PastCheck, Doc,
                ReceiptsWhole, HasTwin, ObjectsWhole, Serialise
  <1> QED
    BY <1>1, <1>2, <1>3, <1>4, <1>5, <1>6, <1>7 DEF StoreNext

\* Whichever processes die, fail or write at once, an id that record()
\* returned loads a whole document, which only a twin can have put at risk in
\* the local store, and only twins share an id.
THEOREM ReceiptsAlwaysLoad == StoreSpec => []ReceiptsLoad
  <1>1. StoreInv => ReceiptsLoad
    <2> SUFFICES ASSUME StoreInv, NEW n \in receipts
                 PROVE  /\ backend = "s3" \/ ~HasTwin(n) => Doc(n) \in complete \ short
                        /\ \A k \in receipts \ {n} : Doc(k) = Doc(n) => HasTwin(n)
      BY DEF ReceiptsLoad, Doc
    <2>1. \A k \in receipts : k \in DOMAIN recorded
      BY DEF StoreInv, StoreShape
    <2>2. \A k \in receipts \ {n} : Doc(k) = Doc(n) => HasTwin(n)
      BY <2>1, OneDocumentTwins
    <2> QED
      BY <2>2 DEF StoreInv, ReceiptsWhole
  <1> QED
    BY <1>1, StoreInitial, StoreStep, PTL DEF StoreSpec
=============================================================================

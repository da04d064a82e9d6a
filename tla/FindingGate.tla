---------------------------- MODULE FindingGate ----------------------------
(***************************************************************************)
(* sentinel_db.models.finding: the before_flush hook that lets a Finding   *)
(* be CONFIRMED only with a Verification that passed.  One finding, and    *)
(* sessions that load it, change it or its verification in memory, and     *)
(* commit.  A session holds the objects as it loaded them; the hook looks  *)
(* at those objects, at every flush, and only at the findings that are new *)
(* or dirty.  The verification is loaded with its finding.  Row locks      *)
(* between a flush and its commit, and bulk updates, are left out.         *)
(***************************************************************************)
EXTENDS Orm, Integers

CONSTANTS
    Sessions,       \* database sessions that work on the finding
    MaxReproductions    \* bound: reproduced_count

VARIABLES
    finding,        \* confidence column of the finding, or NoFinding
    verification,   \* its verification row, or NoVerification
    db,             \* db[s]: what session s holds in memory
    bypassed        \* history: a commit went past the hook, see Bypasses

gateVars == <<finding, verification, db, bypassed>>

MIN_REPRODUCTIONS_FOR_CONFIRMED == 2

\* informational is not told apart from probable.
Confidence == {"confirmed", "probable"}
NoFinding == "no finding"
Verification == [passed : BOOLEAN, reproduced : 1..MaxReproductions]
NoVerification == [passed |-> FALSE, reproduced |-> -1]

\* was, had: the values loaded.  conf, ver: the values now.  dirty: the
\* finding is in session.new or session.dirty.  unseen: the verification
\* was changed while its finding was clean, out of the hook's sight.  deleted:
\* session.delete was called with the verification.  stale: another session
\* has committed since.
Closed == [open |-> FALSE, was |-> NoFinding, conf |-> NoFinding,
           had |-> NoVerification, ver |-> NoVerification,
           dirty |-> FALSE, unseen |-> FALSE, deleted |-> FALSE, stale |-> FALSE]

GateInit ==
    /\ finding = NoFinding
    /\ verification = NoVerification
    /\ db = [s \in Sessions |-> Closed]
    /\ bypassed = FALSE

\* Verification.satisfies_confirmed.
SatisfiesConfirmed(v) ==
    v.passed /\ v.reproduced >= MIN_REPRODUCTIONS_FOR_CONFIRMED

Edit(s, changed) ==
    /\ db[s].open
    /\ db' = [db EXCEPT ![s] = changed]
    /\ UNCHANGED <<finding, verification, bypassed>>

OpenSession(s) ==
    /\ ~db[s].open /\ finding # NoFinding
    /\ db' = [db EXCEPT ![s] = [Closed EXCEPT !.open = TRUE,
                 !.was = finding, !.conf = finding,
                 !.had = verification, !.ver = verification]]
    /\ UNCHANGED <<finding, verification, bypassed>>

\* session.add(Finding(...)), for the one finding of the model.
NewFinding(s) ==
    /\ finding = NoFinding /\ \A t \in Sessions : ~db[t].open
    /\ db' = [db EXCEPT ![s] = [Closed EXCEPT !.open = TRUE, !.dirty = TRUE,
                                              !.conf = "probable"]]
    /\ UNCHANGED <<finding, verification, bypassed>>

\* The finding is dirty: a flush will show it, with its verification, to the hook.
Dirty(s) == [db[s] EXCEPT !.dirty = TRUE, !.unseen = FALSE]

\* Assigning a column of the finding; its other columns are not told apart.
SetConfidence(s, c) == Edit(s, [Dirty(s) EXCEPT !.conf = c])

\* finding.verification = Verification(...), and = None.  A second one in
\* place of the first is refused by the unique index: inserts come first.
AttachVerification(s, v) ==
    /\ db[s].had = NoVerification /\ db[s].ver = NoVerification
    /\ Edit(s, [Dirty(s) EXCEPT !.ver = v])

DetachVerification(s) ==
    /\ db[s].ver # NoVerification
    /\ Edit(s, [Dirty(s) EXCEPT !.ver = NoVerification])

\* A replay assigns the columns of the verification.
RerunVerification(s, v) ==
    /\ db[s].ver # NoVerification /\ ~db[s].deleted
    /\ Edit(s, [db[s] EXCEPT !.ver = v, !.unseen = @ \/ (~db[s].dirty /\ v # db[s].ver)])

\* session.delete(verification): finding.verification still holds the object.
DeleteVerification(s) ==
    /\ db[s].had # NoVerification /\ db[s].ver # NoVerification /\ ~db[s].deleted
    /\ Edit(s, [db[s] EXCEPT !.deleted = TRUE])

\* Mutant: the hook looks at new findings only.
RefusedNewOnly(s) ==
    /\ db[s].was = NoFinding /\ db[s].conf = "confirmed"
    /\ ~SatisfiesConfirmed(db[s].ver)

\* The hook raises ValueError.
Refused(s) ==
    /\ db[s].dirty /\ db[s].conf = "confirmed"
    /\ ~SatisfiesConfirmed(db[s].ver)

\* The database refuses: finding_id is unique, and a row to be updated is gone.
Conflict(s) ==
    \/ db[s].had = NoVerification /\ db[s].ver # NoVerification
          /\ verification # NoVerification
    \/ db[s].had # NoVerification /\ db[s].ver \notin {db[s].had, NoVerification}
          /\ ~db[s].deleted /\ verification = NoVerification

\* session.flush, or the autoflush of a query: the hook judges the finding,
\* which is clean from then on; the rows change at the commit.
FlushSession(s) ==
    /\ db[s].dirty /\ ~Refused(s) /\ ~Conflict(s)
    /\ Edit(s, [db[s] EXCEPT !.dirty = FALSE, !.unseen = FALSE])

\* A flush that raises writes nothing, and what was flushed before is lost.
RollbackSession(s) ==
    /\ db[s].open
    /\ Refused(s) \/ Conflict(s)
    /\ db' = [db EXCEPT ![s] = Closed]
    /\ UNCHANGED <<finding, verification, bypassed>>

\* The verification row that a commit leaves.
FlushedVerification(s) ==
    LET had == db[s].had
        ver == db[s].ver
    IN  IF db[s].deleted \/ (had # NoVerification /\ ver = NoVerification)
        THEN NoVerification
        ELSE IF ver = had THEN verification
        ELSE IF had = NoVerification THEN ver
        ELSE [passed |-> Flush(had.passed, ver.passed, verification.passed),
              reproduced |-> Flush(had.reproduced, ver.reproduced, verification.reproduced)]

\* The three ways past the hook: a verification that changes while its
\* finding is clean, also after a flush that judged it, one that is deleted behind its finding's back, and a session
\* that decided on rows another one has changed.
Bypasses(s) ==
    \/ ~db[s].dirty /\ db[s].unseen
    \/ db[s].deleted
    \/ db[s].stale

CommitSession(s) ==
    /\ db[s].open
    /\ ~Refused(s) /\ ~Conflict(s)
    /\ finding' = Flush(db[s].was, db[s].conf, finding)
    /\ verification' = FlushedVerification(s)
    /\ bypassed' = (bypassed \/ Bypasses(s))
    /\ db' = [t \in Sessions |->
                 IF t = s THEN Closed
                 ELSE IF db[t].open THEN [db[t] EXCEPT !.stale = TRUE] ELSE db[t]]

GateNext ==
    \E s \in Sessions :
        \/ OpenSession(s) \/ NewFinding(s)
        \/ \E c \in Confidence : SetConfidence(s, c)
        \/ \E v \in Verification : AttachVerification(s, v) \/ RerunVerification(s, v)
        \/ DetachVerification(s) \/ DeleteVerification(s)
        \/ FlushSession(s) \/ RollbackSession(s) \/ CommitSession(s)

GateSpec == GateInit /\ [][GateNext]_gateVars

-----------------------------------------------------------------------------
(* Properties.                                                             *)

\* The invariant finding.py states of the database: "a Finding can only carry
\* confidence=CONFIRMED if it has a linked Verification that actually passed
\* reproduction >=2 times".  The hook alone does not give it.
ConfirmedIsVerified ==
    finding = "confirmed" => verification.passed /\ verification.reproduced >= 2

\* Through any series of flushes and commits, refused or not, by sessions that create,
\* attach, detach and rerun, a CONFIRMED finding keeps its verification,
\* unless one of the three ways past the hook was taken.
GateHasThreeGaps == ~bypassed => ConfirmedIsVerified
=============================================================================

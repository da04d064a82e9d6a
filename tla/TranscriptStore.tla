-------------------------- MODULE TranscriptStore --------------------------
(***************************************************************************)
(* sentinel_core.transcript: TranscriptRecorder.record and put of the two  *)
(* stores.  Several processes record into one store.  A process may die or *)
(* its disk fill up while a file is written, which leaves a short file     *)
(* under the name of the full content.  SHA-256 does not collide, so a     *)
(* content stands for its id.                                              *)
(*                                                                         *)
(* An exchange is told by the places where it holds a secret (a sensitive  *)
(* header, a credential-shaped token elsewhere) and by which of its bodies *)
(* are not UTF-8.  No caller names known secrets.                          *)
(***************************************************************************)
EXTENDS Naturals, Sequences

CONSTANTS
    Processes,      \* worker processes that record
    Exchanges,      \* the exchanges they meet
    Times,          \* what their clocks may say; a time may come again
    MaxRecords      \* bound: exchanges recorded

Headers == {"request headers", "response headers"}
Bodies == {"request body", "response body"}

\* A request that failed has an error text and no response.
Exchange ==
    {e \in [secret : SUBSET (Headers \cup Bodies \cup {"url", "error"}), binary : SUBSET Bodies] :
        "error" \in e.secret =>
            {"response headers", "response body"} \cap (e.secret \cup e.binary) = {}}

ASSUME StoreAssumption == Exchanges \subseteq Exchange

VARIABLES
    backend,        \* the store: local or s3
    recorded,       \* history: the exchanges given to record(), with its time
    writer,         \* writer[p]: what p is recording, by its place in recorded
    complete,       \* contents whose file or object is there in full
    short,          \* contents whose file is there, but short
    receipts        \* history: those of recorded whose id was returned

storeVars == <<backend, recorded, writer, complete, short, receipts>>

\* What scrub_headers and scrub_body leave of the secrets: a body that is not
\* UTF-8 is kept as it is, and the URL and the error are not looked at.
\* _serialise then writes such a body in base64.
Scrubbed(e) ==
    [shows |-> e.secret \cap (e.binary \cup {"url", "error"}),
     redacted |-> e.secret \ (e.binary \cup {"url", "error"}),
     base64 |-> e.binary]

Free == [at |-> "free"]

StoreInit ==
    /\ backend \in {"local", "s3"}
    /\ recorded = <<>>
    /\ writer = [p \in Processes |-> Free]
    /\ complete = {} /\ short = {}
    /\ receipts = {}

\* Mutant: recorded_at is left out of the document.
SerialiseUndated(r) == [recorded_at |-> 0, exchange |-> Scrubbed(r.exchange)]

\* _serialise of the transcript of an exchange and its time.
Serialise(r) == [recorded_at |-> r.at, exchange |-> Scrubbed(r.exchange)]

\* The document p is recording.
Content(p) == Serialise(recorded[writer[p].n])

\* record() up to put.
RecordExchange(p, e, now) ==
    /\ writer[p].at = "free" /\ Len(recorded) < MaxRecords
    /\ recorded' = Append(recorded, [exchange |-> e, at |-> now])
    /\ writer' = [writer EXCEPT ![p] = [at |-> "put", n |-> Len(recorded) + 1]]
    /\ UNCHANGED <<backend, complete, short, receipts>>

ReturnId(p) ==
    /\ receipts' = receipts \cup {writer[p].n}
    /\ writer' = [writer EXCEPT ![p] = Free]

\* LocalTranscriptStore.put: a file that exists is taken to be complete,
\* otherwise ...
PutLocal(p) ==
    /\ backend = "local" /\ writer[p].at = "put"
    /\ IF Content(p) \in complete \cup short
       THEN ReturnId(p)
       ELSE /\ writer' = [writer EXCEPT ![p].at = "open"]
            /\ UNCHANGED receipts
    /\ UNCHANGED <<backend, recorded, complete, short>>

\* ... write_bytes opens it, which empties a file that has come to exist ...
PutOpensFile(p) ==
    /\ writer[p].at = "open"
    /\ writer' = [writer EXCEPT ![p].at = "write"]
    /\ short' = short \cup {Content(p)}
    /\ complete' = complete \ {Content(p)}
    /\ UNCHANGED <<backend, recorded, receipts>>

\* ... and fills it.
PutFillsFile(p) ==
    /\ writer[p].at = "write"
    /\ short' = short \ {Content(p)}
    /\ complete' = complete \cup {Content(p)}
    /\ ReturnId(p)
    /\ UNCHANGED <<backend, recorded>>

\* S3TranscriptStore.put: put_object stores all of an object or nothing.
PutObject(p) ==
    /\ backend = "s3" /\ writer[p].at = "put"
    /\ complete' = complete \cup {Content(p)}
    /\ ReturnId(p)
    /\ UNCHANGED <<backend, recorded, short>>

\* The store raises or the process dies: nothing is returned.  An object may
\* have been stored all the same.
PutFails(p) ==
    /\ writer[p].at # "free"
    /\ writer' = [writer EXCEPT ![p] = Free]
    /\ complete' \in {complete} \cup {complete \cup {Content(p)} : b \in {backend} \cap {"s3"}}
    /\ UNCHANGED <<backend, recorded, short, receipts>>

StoreNext ==
    \E p \in Processes :
        \/ \E e \in Exchanges, now \in Times : RecordExchange(p, e, now)
        \/ PutLocal(p) \/ PutOpensFile(p) \/ PutFillsFile(p)
        \/ PutObject(p) \/ PutFails(p)

StoreSpec == StoreInit /\ [][StoreNext]_storeVars

-----------------------------------------------------------------------------
(* Properties.                                                             *)

\* Another exchange recorded at the same time looks the same when scrubbed.
HasTwin(n) ==
    \E k \in DOMAIN recorded \ {n} :
        /\ recorded[k].at = recorded[n].at
        /\ Scrubbed(recorded[k].exchange) = Scrubbed(recorded[n].exchange)

\* store.py: "writes are idempotent and evidence can never be silently
\* mutated".  Whichever processes died in the middle of a write, and whoever
\* wrote at the same time, an id that record() returned loads a whole
\* document.  In the local store it may be short only if two exchanges that
\* look the same were recorded at the very same time: nothing else makes put
\* rely on "already-written is already correct", or open a file again.  Only
\* such twins share an id.
ReceiptsLoad ==
    \A n \in receipts :
        LET doc == Serialise(recorded[n]) IN
        /\ backend = "s3" \/ ~HasTwin(n) => doc \in complete \ short
        /\ \A k \in receipts \ {n} : Serialise(recorded[k]) = doc => HasTwin(n)
=============================================================================

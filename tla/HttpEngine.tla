----------------------------- MODULE HttpEngine -----------------------------
(***************************************************************************)
(* sentinel_core.http_engine.HttpEngine: concurrent calls of request() on  *)
(* one engine, which share its httpx client and that client's cookie jar.  *)
(* A step is what a call does between two awaits: the limiter, the wire,   *)
(* the transcript store.  The limiter is RateLimiter's promise here: it    *)
(* grants a token some time, and its reports may fail.                     *)
(***************************************************************************)
EXTENDS Integers, FiniteSets

CONSTANTS
    Calls,          \* calls of request()
    Personas,       \* personas with session cookies
    Anonymous,      \* AnonymousSession: no cookies, no headers
    MaxRetries,     \* max_retries (2 in the code)
    Faults          \* {"redis", "store"}: which services may fail

ASSUME EngineAssumption ==
    /\ Anonymous \notin Personas
    /\ MaxRetries \in Nat
    /\ Faults \subseteq {"redis", "store"}

VARIABLES
    stage,          \* stage[c]: what call c waits for, or how it ended
    req,            \* req[c]: the arguments of the call and the guards' verdicts
    attempt,        \* attempt[c]: the loop counter
    response,       \* response[c]: response_obj, by the class of its status
    error,          \* error[c]: the local variable error is set
    transcript,     \* transcript[c]: what the recorder stored
    jar,            \* identities with cookies in the client's shared jar
    tokens,         \* history: tokens call c acquired
    onWire,         \* history: requests call c sent
    carried,        \* history: identities whose cookies call c's requests carried
    limited,        \* history: 429 and 503 answers call c received
    backoffs        \* history: report_backpressure calls of call c

history == <<tokens, onWire, carried, limited, backoffs>>
engineVars == <<stage, req, attempt, response, error, transcript, jar, history>>

Identity == Personas \cup {Anonymous}

\* idempotent: the method is GET, HEAD or OPTIONS; suspect: the destructive
\* guard's verdict on method, URL and link text.
Request == [who : Identity, idempotent : BOOLEAN, inScope : BOOLEAN,
            suspect : BOOLEAN, skipGuard : BOOLEAN]

NoResponse == "none"
Response == {"ok", "limited"}
NoTranscript == [response |-> NoResponse, error |-> FALSE, stored |-> FALSE]

Running == {"acquire", "send", "wire", "backpressure", "success", "record"}
Ended == {"blocked", "returned", "connection_error", "raised"}

EngineInit ==
    /\ stage = [c \in Calls |-> "idle"]
    /\ req \in [Calls -> Request]
    /\ attempt = [c \in Calls |-> 0]
    /\ response = [c \in Calls |-> NoResponse]
    /\ error = [c \in Calls |-> FALSE]
    /\ transcript = [c \in Calls |-> NoTranscript]
    /\ jar = {}
    /\ tokens = [c \in Calls |-> 0]
    /\ onWire = [c \in Calls |-> 0]
    /\ carried = [c \in Calls |-> {}]
    /\ limited = [c \in Calls |-> 0]
    /\ backoffs = [c \in Calls |-> 0]

Goto(c, to) == stage' = [stage EXCEPT ![c] = to]

\* Mutant: a suspect request is held back only when the caller asks.
AllowedWhenSkipped(c) ==
    req[c].inScope /\ (req[c].skipGuard => ~req[c].suspect)

\* scope_guard.evaluate, then the destructive guard unless it is skipped.
Allowed(c) == req[c].inScope /\ (req[c].skipGuard \/ ~req[c].suspect)

\* Up to the first await: ScopeViolation, or on to the limiter.
Begin(c) ==
    /\ stage[c] = "idle"
    /\ Goto(c, IF Allowed(c) THEN "acquire" ELSE "blocked")
    /\ UNCHANGED <<req, attempt, response, error, transcript, jar, history>>

\* rate_limiter.acquire returns: one token for the whole call.
Acquire(c) ==
    /\ stage[c] = "acquire"
    /\ tokens' = [tokens EXCEPT ![c] = @ + 1]
    /\ Goto(c, "send")
    /\ UNCHANGED <<req, attempt, response, error, transcript, jar,
                   onWire, carried, limited, backoffs>>

\* Mutant: one attempt more than the retries allow.
MaxAttemptsOffByOne(c) == 2 + (IF req[c].idempotent THEN MaxRetries ELSE 0)

\* Mutant: every method is retried.
MaxAttemptsAnyMethod(c) == 1 + MaxRetries

MaxAttempts(c) == 1 + (IF req[c].idempotent THEN MaxRetries ELSE 0)

\* The cookies of one attempt: the persona's own, in a literal header.  When
\* there are none, httpx (external) adds what the client's jar holds.
CookiesOf(c) == IF req[c].who \in Personas THEN {req[c].who} ELSE jar

\* client.request: the attempt leaves.
Send(c) ==
    /\ stage[c] = "send"
    /\ attempt[c] < MaxAttempts(c)
    /\ attempt' = [attempt EXCEPT ![c] = @ + 1]
    /\ onWire' = [onWire EXCEPT ![c] = @ + 1]
    /\ carried' = [carried EXCEPT ![c] = @ \cup CookiesOf(c)]
    /\ Goto(c, "wire")
    /\ UNCHANGED <<req, response, error, transcript, jar, tokens, limited, backoffs>>

\* Mutant: a 429 is not taken for a response.
ReplyDropsLimited(c, kind, sets) ==
    /\ stage[c] = "wire"
    /\ response' = [response EXCEPT ![c] = IF kind = "limited" THEN NoResponse ELSE kind]
    /\ limited' = [limited EXCEPT ![c] = @ + IF kind = "limited" THEN 1 ELSE 0]
    /\ jar' = IF sets THEN jar \cup CookiesOf(c) ELSE jar
    /\ Goto(c, IF kind = "limited" THEN "backpressure" ELSE "success")
    /\ UNCHANGED <<req, attempt, error, transcript, tokens, onWire, carried, backoffs>>

\* The target answers.  httpx (external) keeps the cookies an answer sets in
\* the jar: those of the session the request was made in.
Reply(c, kind, sets) ==
    /\ stage[c] = "wire"
    /\ response' = [response EXCEPT ![c] = kind]
    /\ limited' = [limited EXCEPT ![c] = @ + IF kind = "limited" THEN 1 ELSE 0]
    /\ jar' = IF sets THEN jar \cup CookiesOf(c) ELSE jar
    /\ Goto(c, IF kind = "limited" THEN "backpressure" ELSE "success")
    /\ UNCHANGED <<req, attempt, error, transcript, tokens, onWire, carried, backoffs>>

\* Another attempt if the loop has one left, the transcript otherwise.
Again(c) == Goto(c, IF attempt[c] < MaxAttempts(c) THEN "send" ELSE "record")

\* TimeoutException or TransportError.
Timeout(c) ==
    /\ stage[c] = "wire"
    /\ error' = [error EXCEPT ![c] = TRUE]
    /\ Again(c)
    /\ UNCHANGED <<req, attempt, response, transcript, jar, history>>

\* The answer's body does not decode: httpx (external) has read the headers,
\* cookies included, and raises DecodingError, which no clause catches.
Undecodable(c, sets) ==
    /\ stage[c] = "wire"
    /\ jar' = IF sets THEN jar \cup CookiesOf(c) ELSE jar
    /\ Goto(c, "raised")
    /\ UNCHANGED <<req, attempt, response, error, transcript, history>>

\* Mutant: only the last 429 is reported.
ReportBackpressureOnce(c) ==
    /\ stage[c] = "backpressure"
    /\ backoffs' = [backoffs EXCEPT ![c] = IF attempt[c] < MaxAttempts(c) THEN @ ELSE @ + 1]
    /\ Again(c)
    /\ UNCHANGED <<req, attempt, response, error, transcript, jar,
                   tokens, onWire, carried, limited>>

ReportBackpressure(c) ==
    /\ stage[c] = "backpressure"
    /\ backoffs' = [backoffs EXCEPT ![c] = @ + 1]
    /\ Again(c)
    /\ UNCHANGED <<req, attempt, response, error, transcript, jar,
                   tokens, onWire, carried, limited>>

ReportSuccess(c) ==
    /\ stage[c] = "success"
    /\ Goto(c, "record")
    /\ UNCHANGED <<req, attempt, response, error, transcript, jar, history>>

\* recorder.record, and the call ends: with the response, or with
\* ConnectionError when no attempt got one.
Record(c) ==
    /\ stage[c] = "record"
    /\ transcript' = [transcript EXCEPT ![c] =
          [response |-> response[c],
           error    |-> error[c] /\ response[c] = NoResponse,
           stored   |-> TRUE]]
    /\ Goto(c, IF response[c] = NoResponse THEN "connection_error" ELSE "returned")
    /\ UNCHANGED <<req, attempt, response, error, jar, history>>

\* Redis or the transcript store fails: nothing in request() catches it.
ServiceFails(c) ==
    /\ \/ stage[c] \in {"acquire", "backpressure", "success"} /\ "redis" \in Faults
       \/ stage[c] = "record" /\ "store" \in Faults
    /\ Goto(c, "raised")
    /\ UNCHANGED <<req, attempt, response, error, transcript, jar, history>>

EngineNext ==
    \E c \in Calls :
        \/ Begin(c) \/ Acquire(c) \/ Send(c)
        \/ \E kind \in Response, sets \in BOOLEAN : Reply(c, kind, sets)
        \/ \E sets \in BOOLEAN : Undecodable(c, sets)
        \/ Timeout(c) \/ ReportBackpressure(c) \/ ReportSuccess(c)
        \/ Record(c) \/ ServiceFails(c)

EngineSpec == EngineInit /\ [][EngineNext]_engineVars

-----------------------------------------------------------------------------
(* Properties.                                                             *)

EngineTypeOK ==
    /\ stage \in [Calls -> {"idle"} \cup Running \cup Ended]
    /\ req \in [Calls -> Request]
    /\ attempt \in [Calls -> 0..1 + MaxRetries]
    /\ response \in [Calls -> Response \cup {NoResponse}]
    /\ error \in [Calls -> BOOLEAN]
    /\ transcript \in [Calls -> [response : Response \cup {NoResponse},
                                 error : BOOLEAN, stored : BOOLEAN]]
    /\ jar \in SUBSET Personas
    /\ tokens \in [Calls -> 0..1]
    /\ onWire \in [Calls -> 0..1 + MaxRetries]
    /\ carried \in [Calls -> SUBSET Personas]
    /\ limited \in [Calls -> 0..1 + MaxRetries]
    /\ backoffs \in [Calls -> 0..1 + MaxRetries]

\* Whatever mixture of answers, throttling, timeouts and failed services the
\* attempts met, a request the guards refuse never leaves, one that leaves
\* had a token first, and one that changes state on the target leaves once.
SentWithinPolicy ==
    \A c \in Calls : onWire[c] > 0 =>
        /\ req[c].inScope /\ (req[c].suspect => req[c].skipGuard)
        /\ tokens[c] = 1
        /\ ~req[c].idempotent => onWire[c] = 1

\* What the caller is told is what the evidence says: a response that is
\* returned is the one in the transcript, ConnectionError means that no
\* attempt was answered and the transcript says why, and a call that reached
\* its end one way or the other sent something.
EvidenceMatchesOutcome ==
    \A c \in Calls :
        /\ stage[c] \in {"returned", "connection_error"} => onWire[c] > 0 /\ transcript[c].stored
        /\ stage[c] = "returned" =>
              transcript[c].response = response[c] /\ response[c] # NoResponse /\ ~transcript[c].error
        /\ stage[c] = "connection_error" =>
              transcript[c].response = NoResponse /\ transcript[c].error /\ limited[c] = 0

\* Every 429 and 503 has slowed the target's limiter down before this call
\* sends again or returns.
BackpressureHeard ==
    \A c \in Calls : stage[c] \in {"send", "record", "returned", "connection_error"} =>
        backoffs[c] = limited[c]

\* engine.py: "the one place we can guarantee scope enforcement, rate
\* limiting, and evidence recording happen for *every* request".
EveryRequestPaid == \A c \in Calls : onWire[c] =< tokens[c]

\* engine.py, on personas that share one client: "exactly the cross-persona
\* contamination this engine must never allow".
IdentitiesSeparate == \A c \in Calls : carried[c] \subseteq {req[c].who}
=============================================================================

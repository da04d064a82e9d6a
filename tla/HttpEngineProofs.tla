-------------------------- MODULE HttpEngineProofs --------------------------
(***************************************************************************)
(* Theorems about HttpEngine, for any number of concurrent calls, personas *)
(* and retries, and whichever services may fail.                           *)
(***************************************************************************)
EXTENDS HttpEngine, TLAPS

-----------------------------------------------------------------------------
(* The inductive invariant: what the stage of a call says about it.        *)

\* The loop counter is the number of requests that left, none leaves before
\* the guards and the limiter have let the call pass, and the loop is never
\* entered with its attempts used up.
LoopOK(c) ==
    /\ onWire[c] = attempt[c] /\ attempt[c] =< MaxAttempts(c) /\ tokens[c] =< 1
    /\ stage[c] \in {"idle", "blocked", "acquire"} => attempt[c] = 0 /\ tokens[c] = 0
    /\ stage[c] \in Running => Allowed(c)
    /\ stage[c] \in Running \ {"acquire"} => tokens[c] = 1
    /\ attempt[c] > 0 => Allowed(c) /\ tokens[c] = 1
    /\ stage[c] = "send" => attempt[c] < MaxAttempts(c)
    /\ stage[c] \in Running \ {"acquire", "send"} => attempt[c] > 0
    /\ stage[c] \in {"returned", "connection_error"} => attempt[c] > 0

\* Every throttled answer belongs to an attempt, and all but the one being
\* reported have been reported.
ThrottleOK(c) ==
    /\ limited[c] =< attempt[c]
    /\ stage[c] = "wire" => limited[c] < attempt[c]
    /\ backoffs[c] =< limited[c]
    /\ stage[c] \notin {"backpressure", "raised"} => backoffs[c] = limited[c]
    /\ stage[c] = "backpressure" => limited[c] = backoffs[c] + 1

\* What a call knows of its answers when it reaches the recorder.
AnswerOK(c) ==
    /\ response[c] = NoResponse => limited[c] = 0
    /\ stage[c] \in {"backpressure", "success"} => response[c] # NoResponse
    /\ stage[c] = "record" => response[c] # NoResponse \/ error[c]
    /\ stage[c] = "returned" =>
          /\ response[c] # NoResponse
          /\ transcript[c] = [response |-> response[c], error |-> FALSE, stored |-> TRUE]
    /\ stage[c] = "connection_error" =>
          /\ response[c] = NoResponse
          /\ transcript[c] = [response |-> NoResponse, error |-> TRUE, stored |-> TRUE]

EngineInv == \A c \in Calls : LoopOK(c) /\ ThrottleOK(c) /\ AnswerOK(c)

-----------------------------------------------------------------------------
(* Types.  The bounds of the counters follow from the invariant.           *)

\* EngineTypeOK without the bounds of the counters.
ShapeOK ==
    /\ stage \in [Calls -> {"idle"} \cup Running \cup Ended]
    /\ req \in [Calls -> Request]
    /\ attempt \in [Calls -> Nat]
    /\ response \in [Calls -> Response \cup {NoResponse}]
    /\ error \in [Calls -> BOOLEAN]
    /\ transcript \in [Calls -> [response : Response \cup {NoResponse},
                                 error : BOOLEAN, stored : BOOLEAN]]
    /\ jar \in SUBSET Personas
    /\ tokens \in [Calls -> Nat]
    /\ onWire \in [Calls -> Nat]
    /\ carried \in [Calls -> SUBSET Personas]
    /\ limited \in [Calls -> Nat]
    /\ backoffs \in [Calls -> Nat]

\* A call has at least one attempt, and at most the retries more.
LEMMA MaxAttemptsType ==
    ASSUME ShapeOK, NEW c \in Calls
    PROVE  MaxAttempts(c) \in 1..1 + MaxRetries
  BY EngineAssumption DEF ShapeOK, MaxAttempts, Request

\* Cookies are those of personas: nobody has any.
LEMMA CookiesType ==
    ASSUME ShapeOK, NEW c \in Calls
    PROVE  CookiesOf(c) \subseteq Personas
  BY DEF ShapeOK, CookiesOf

\* The engine starts well typed.
LEMMA ShapeInit == EngineInit => ShapeOK
  <1> SUFFICES ASSUME EngineInit PROVE ShapeOK
    OBVIOUS
  <1>1. NoTranscript \in [response : Response \cup {NoResponse},
                          error : BOOLEAN, stored : BOOLEAN]
    BY DEF NoTranscript
  <1>2. error \in [Calls -> BOOLEAN]
    BY DEF EngineInit
  <1> QED
    BY <1>1, <1>2 DEF EngineInit, ShapeOK

\* Moving a call to a known stage keeps the stages well typed.
LEMMA GotoType ==
    ASSUME ShapeOK, NEW c \in Calls, NEW to \in {"idle"} \cup Running \cup Ended, Goto(c, to)
    PROVE  stage' \in [Calls -> {"idle"} \cup Running \cup Ended]
  BY DEF ShapeOK, Goto

\* A counter that goes up by one for one call, or stays, is still a counter.
LEMMA CountedUp ==
    ASSUME NEW f \in [Calls -> Nat], NEW c \in Calls, NEW n \in {0, 1}
    PROVE  /\ [f EXCEPT ![c] = @ + n] \in [Calls -> Nat]
           /\ [f EXCEPT ![c] = @ + n][c] = f[c] + n
  OBVIOUS

\* Every step of a call keeps the types.
LEMMA ShapeStep == ShapeOK /\ [EngineNext]_engineVars => ShapeOK'
  <1> SUFFICES ASSUME ShapeOK, [EngineNext]_engineVars PROVE ShapeOK'
    OBVIOUS
  <1>1. ASSUME NEW c \in Calls, Begin(c) PROVE ShapeOK'
    <2>1. stage' \in [Calls -> {"idle"} \cup Running \cup Ended]
      BY <1>1, GotoType DEF Begin, Running, Ended
    <2> QED
      BY <1>1, <2>1 DEF Begin, history, ShapeOK
  <1>2. ASSUME NEW c \in Calls, Acquire(c) PROVE ShapeOK'
    <2>1. stage' \in [Calls -> {"idle"} \cup Running \cup Ended]
      BY <1>2, GotoType DEF Acquire, Running, Ended
    <2>2. tokens' \in [Calls -> Nat]
      BY <1>2, CountedUp DEF Acquire, ShapeOK
    <2> QED
      BY <1>2, <2>1, <2>2 DEF Acquire, ShapeOK
  <1>3. ASSUME NEW c \in Calls, Send(c) PROVE ShapeOK'
    <2>1. stage' \in [Calls -> {"idle"} \cup Running \cup Ended]
      BY <1>3, GotoType DEF Send, Running, Ended
    <2>2. attempt' \in [Calls -> Nat] /\ onWire' \in [Calls -> Nat]
      BY <1>3, CountedUp DEF Send, ShapeOK
    <2>3. carried[c] \cup CookiesOf(c) \in SUBSET Personas
      BY CookiesType DEF ShapeOK
    <2>4. carried' \in [Calls -> SUBSET Personas]
      BY <1>3, <2>3 DEF Send, ShapeOK
    <2> QED
      BY <1>3, <2>1, <2>2, <2>4 DEF Send, ShapeOK
  <1>4. ASSUME NEW c \in Calls, NEW kind \in Response, NEW sets \in BOOLEAN,
               Reply(c, kind, sets)
        PROVE  ShapeOK'
    <2>1. stage' \in [Calls -> {"idle"} \cup Running \cup Ended]
      BY <1>4, GotoType DEF Reply, Running, Ended
    <2>2. jar' \in SUBSET Personas
      BY <1>4, CookiesType DEF Reply, ShapeOK
    <2>3. limited' \in [Calls -> Nat]
      BY <1>4, CountedUp DEF Reply, ShapeOK
    <2>4. response' \in [Calls -> Response \cup {NoResponse}]
      BY <1>4 DEF Reply, ShapeOK
    <2> QED
      BY <1>4, <2>1, <2>2, <2>3, <2>4 DEF Reply, ShapeOK
  <1>5. ASSUME NEW c \in Calls, NEW sets \in BOOLEAN, Undecodable(c, sets) PROVE ShapeOK'
    <2>1. stage' \in [Calls -> {"idle"} \cup Running \cup Ended]
      BY <1>5, GotoType DEF Undecodable, Running, Ended
    <2>2. jar' \in SUBSET Personas
      BY <1>5, CookiesType DEF Undecodable, ShapeOK
    <2> QED
      BY <1>5, <2>1, <2>2 DEF Undecodable, history, ShapeOK
  <1>6. ASSUME NEW c \in Calls, Timeout(c) PROVE ShapeOK'
    <2>1. stage' \in [Calls -> {"idle"} \cup Running \cup Ended]
      BY <1>6, GotoType DEF Timeout, Again, Running, Ended
    <2> QED
      BY <1>6, <2>1 DEF Timeout, history, ShapeOK
  <1>7. ASSUME NEW c \in Calls, ReportBackpressure(c) PROVE ShapeOK'
    <2>1. stage' \in [Calls -> {"idle"} \cup Running \cup Ended]
      BY <1>7, GotoType DEF ReportBackpressure, Again, Running, Ended
    <2>2. backoffs' \in [Calls -> Nat]
      BY <1>7, CountedUp DEF ReportBackpressure, ShapeOK
    <2> QED
      BY <1>7, <2>1, <2>2 DEF ReportBackpressure, ShapeOK
  <1>8. ASSUME NEW c \in Calls, ReportSuccess(c) PROVE ShapeOK'
    <2>1. stage' \in [Calls -> {"idle"} \cup Running \cup Ended]
      BY <1>8, GotoType DEF ReportSuccess, Running, Ended
    <2> QED
      BY <1>8, <2>1 DEF ReportSuccess, history, ShapeOK
  <1>9. ASSUME NEW c \in Calls, Record(c) PROVE ShapeOK'
    <2>1. stage' \in [Calls -> {"idle"} \cup Running \cup Ended]
      BY <1>9, GotoType DEF Record, Running, Ended
    <2>2. (error[c] /\ response[c] = NoResponse) \in BOOLEAN
      OBVIOUS
    <2>3. transcript' \in [Calls -> [response : Response \cup {NoResponse},
                                     error : BOOLEAN, stored : BOOLEAN]]
      BY <1>9, <2>2 DEF Record, ShapeOK
    <2> QED
      BY <1>9, <2>1, <2>3 DEF Record, history, ShapeOK
  <1>10. ASSUME NEW c \in Calls, ServiceFails(c) PROVE ShapeOK'
    <2>1. stage' \in [Calls -> {"idle"} \cup Running \cup Ended]
      BY <1>10, GotoType DEF ServiceFails, Running, Ended
    <2> QED
      BY <1>10, <2>1 DEF ServiceFails, history, ShapeOK
  <1>11. CASE UNCHANGED engineVars
    BY <1>11 DEF engineVars, history, ShapeOK
  <1> QED
    BY <1>1, <1>2, <1>3, <1>4, <1>5, <1>6, <1>7, <1>8, <1>9, <1>10, <1>11 DEF EngineNext

-----------------------------------------------------------------------------
(* The invariant is inductive.                                             *)

\* Calls that have not started satisfy the invariant.
LEMMA EngineInvInit == EngineInit => EngineInv
  <1> SUFFICES ASSUME EngineInit, NEW c \in Calls PROVE LoopOK(c) /\ ThrottleOK(c) /\ AnswerOK(c)
    BY DEF EngineInv
  <1>1. ShapeOK
    BY ShapeInit
  <1>2. MaxAttempts(c) \in 1..1 + MaxRetries
    BY <1>1, MaxAttemptsType
  <1>3. LoopOK(c)
    BY <1>2, EngineAssumption DEF EngineInit, LoopOK, Running
  <1>4. ThrottleOK(c)
    BY DEF EngineInit, ThrottleOK
  <1>5. AnswerOK(c)
    BY DEF EngineInit, AnswerOK
  <1> QED
    BY <1>3, <1>4, <1>5

\* A call that a step leaves alone keeps what is known of it.
LEMMA OthersKept ==
    ASSUME NEW d \in Calls, LoopOK(d), ThrottleOK(d), AnswerOK(d), req' = req,
           stage'[d] = stage[d], attempt'[d] = attempt[d], response'[d] = response[d],
           error'[d] = error[d], transcript'[d] = transcript[d], tokens'[d] = tokens[d],
           onWire'[d] = onWire[d], limited'[d] = limited[d], backoffs'[d] = backoffs[d]
    PROVE  LoopOK(d)' /\ ThrottleOK(d)' /\ AnswerOK(d)'
  <1>1. MaxAttempts(d)' = MaxAttempts(d) /\ Allowed(d)' = Allowed(d)
    BY DEF MaxAttempts, Allowed
  <1>2. LoopOK(d)'
    BY <1>1 DEF LoopOK
  <1>3. ThrottleOK(d)'
    BY DEF ThrottleOK
  <1>4. AnswerOK(d)'
    BY DEF AnswerOK
  <1> QED
    BY <1>2, <1>3, <1>4

\* Only call c moves in a step of call c.
LEMMA EngineInvStep == ShapeOK /\ EngineInv /\ [EngineNext]_engineVars => EngineInv'
  <1> SUFFICES ASSUME ShapeOK, EngineInv, [EngineNext]_engineVars,
                      NEW d \in Calls
               PROVE  LoopOK(d)' /\ ThrottleOK(d)' /\ AnswerOK(d)'
    BY DEF EngineInv
  <1> USE DEF Goto
  <1>a. LoopOK(d) /\ ThrottleOK(d) /\ AnswerOK(d)
    BY DEF EngineInv
  <1>b. MaxAttempts(d) \in 1..1 + MaxRetries
    BY MaxAttemptsType
  <1>c. ASSUME req' = req PROVE MaxAttempts(d)' = MaxAttempts(d) /\ Allowed(d)' = Allowed(d)
    BY <1>c DEF MaxAttempts, Allowed
  <1>d. /\ attempt[d] \in Nat /\ onWire[d] \in Nat /\ tokens[d] \in Nat
        /\ limited[d] \in Nat /\ backoffs[d] \in Nat
        /\ response[d] \in Response \cup {NoResponse}
    BY DEF ShapeOK
  <1>1. ASSUME NEW c \in Calls, Begin(c)
        PROVE  LoopOK(d)' /\ ThrottleOK(d)' /\ AnswerOK(d)'
    <2>1. CASE d # c
      BY <1>1, <1>a, <2>1, OthersKept DEF Begin, history, ShapeOK
    <2>2. CASE d = c
      <3>1. LoopOK(d)'
        BY <1>1, <1>a, <1>b, <1>c, <1>d, <2>2, EngineAssumption DEF Begin, history, ShapeOK, LoopOK, Running
      <3>2. ThrottleOK(d)'
        BY <1>1, <1>a, <1>d, <2>2 DEF Begin, history, ShapeOK, LoopOK, ThrottleOK, Running
      <3>3. AnswerOK(d)'
        BY <1>1, <1>a, <1>d, <2>2 DEF Begin, history, ShapeOK, AnswerOK, Response, NoResponse
      <3> QED
        BY <3>1, <3>2, <3>3
    <2> QED
      BY <2>1, <2>2
  <1>2. ASSUME NEW c \in Calls, Acquire(c)
        PROVE  LoopOK(d)' /\ ThrottleOK(d)' /\ AnswerOK(d)'
    <2>1. CASE d # c
      BY <1>2, <1>a, <2>1, OthersKept DEF Acquire, ShapeOK
    <2>2. CASE d = c
      <3>1. LoopOK(d)'
        BY <1>2, <1>a, <1>b, <1>c, <1>d, <2>2, EngineAssumption DEF Acquire, ShapeOK, LoopOK, Running
      <3>2. ThrottleOK(d)'
        BY <1>2, <1>a, <1>d, <2>2 DEF Acquire, ShapeOK, LoopOK, ThrottleOK, Running
      <3>3. AnswerOK(d)'
        BY <1>2, <1>a, <1>d, <2>2 DEF Acquire, ShapeOK, AnswerOK, Response, NoResponse
      <3> QED
        BY <3>1, <3>2, <3>3
    <2> QED
      BY <2>1, <2>2
  <1>3. ASSUME NEW c \in Calls, Send(c)
        PROVE  LoopOK(d)' /\ ThrottleOK(d)' /\ AnswerOK(d)'
    <2>1. CASE d # c
      BY <1>3, <1>a, <2>1, OthersKept DEF Send, ShapeOK
    <2>2. CASE d = c
      <3>1. LoopOK(d)'
        BY <1>3, <1>a, <1>b, <1>c, <1>d, <2>2, EngineAssumption DEF Send, ShapeOK, LoopOK, Running
      <3>2. ThrottleOK(d)'
        BY <1>3, <1>a, <1>d, <2>2 DEF Send, ShapeOK, LoopOK, ThrottleOK, Running
      <3>3. AnswerOK(d)'
        BY <1>3, <1>a, <1>d, <2>2 DEF Send, ShapeOK, AnswerOK, Response, NoResponse
      <3> QED
        BY <3>1, <3>2, <3>3
    <2> QED
      BY <2>1, <2>2
  <1>4. ASSUME NEW c \in Calls, NEW kind \in Response, NEW sets \in BOOLEAN, Reply(c, kind, sets)
        PROVE  LoopOK(d)' /\ ThrottleOK(d)' /\ AnswerOK(d)'
    <2>1. CASE d # c
      BY <1>4, <1>a, <2>1, OthersKept DEF Reply, ShapeOK
    <2>2. CASE d = c
      <3>1. LoopOK(d)'
        BY <1>4, <1>a, <1>b, <1>c, <1>d, <2>2, EngineAssumption DEF Reply, ShapeOK, LoopOK, Running
      <3>2. ThrottleOK(d)'
        BY <1>4, <1>a, <1>d, <2>2 DEF Reply, ShapeOK, LoopOK, ThrottleOK, Running
      <3>3. AnswerOK(d)'
        BY <1>4, <1>a, <1>d, <2>2 DEF Reply, ShapeOK, AnswerOK, Response, NoResponse
      <3> QED
        BY <3>1, <3>2, <3>3
    <2> QED
      BY <2>1, <2>2
  <1>5. ASSUME NEW c \in Calls, NEW sets \in BOOLEAN, Undecodable(c, sets)
        PROVE  LoopOK(d)' /\ ThrottleOK(d)' /\ AnswerOK(d)'
    <2>1. CASE d # c
      BY <1>5, <1>a, <2>1, OthersKept DEF Undecodable, history, ShapeOK
    <2>2. CASE d = c
      <3>1. LoopOK(d)'
        BY <1>5, <1>a, <1>b, <1>c, <1>d, <2>2, EngineAssumption DEF Undecodable, history, ShapeOK, LoopOK, Running
      <3>2. ThrottleOK(d)'
        BY <1>5, <1>a, <1>d, <2>2 DEF Undecodable, history, ShapeOK, LoopOK, ThrottleOK, Running
      <3>3. AnswerOK(d)'
        BY <1>5, <1>a, <1>d, <2>2 DEF Undecodable, history, ShapeOK, AnswerOK, Response, NoResponse
      <3> QED
        BY <3>1, <3>2, <3>3
    <2> QED
      BY <2>1, <2>2
  <1>6. ASSUME NEW c \in Calls, Timeout(c)
        PROVE  LoopOK(d)' /\ ThrottleOK(d)' /\ AnswerOK(d)'
    <2>1. CASE d # c
      BY <1>6, <1>a, <2>1, OthersKept DEF Timeout, Again, history, ShapeOK
    <2>2. CASE d = c
      <3>1. LoopOK(d)'
        BY <1>6, <1>a, <1>b, <1>c, <1>d, <2>2, EngineAssumption DEF Timeout, Again, history, ShapeOK, LoopOK, Running
      <3>2. ThrottleOK(d)'
        BY <1>6, <1>a, <1>d, <2>2 DEF Timeout, Again, history, ShapeOK, LoopOK, ThrottleOK, Running
      <3>3. AnswerOK(d)'
        BY <1>6, <1>a, <1>d, <2>2 DEF Timeout, Again, history, ShapeOK, AnswerOK, Response, NoResponse
      <3> QED
        BY <3>1, <3>2, <3>3
    <2> QED
      BY <2>1, <2>2
  <1>7. ASSUME NEW c \in Calls, ReportBackpressure(c)
        PROVE  LoopOK(d)' /\ ThrottleOK(d)' /\ AnswerOK(d)'
    <2>1. CASE d # c
      BY <1>7, <1>a, <2>1, OthersKept DEF ReportBackpressure, Again, ShapeOK
    <2>2. CASE d = c
      <3>1. LoopOK(d)'
        BY <1>7, <1>a, <1>b, <1>c, <1>d, <2>2, EngineAssumption DEF ReportBackpressure, Again, ShapeOK, LoopOK, Running
      <3>2. ThrottleOK(d)'
        BY <1>7, <1>a, <1>d, <2>2 DEF ReportBackpressure, Again, ShapeOK, LoopOK, ThrottleOK, Running
      <3>3. AnswerOK(d)'
        BY <1>7, <1>a, <1>d, <2>2 DEF ReportBackpressure, Again, ShapeOK, AnswerOK, Response, NoResponse
      <3> QED
        BY <3>1, <3>2, <3>3
    <2> QED
      BY <2>1, <2>2
  <1>8. ASSUME NEW c \in Calls, ReportSuccess(c)
        PROVE  LoopOK(d)' /\ ThrottleOK(d)' /\ AnswerOK(d)'
    <2>1. CASE d # c
      BY <1>8, <1>a, <2>1, OthersKept DEF ReportSuccess, history, ShapeOK
    <2>2. CASE d = c
      <3>1. LoopOK(d)'
        BY <1>8, <1>a, <1>b, <1>c, <1>d, <2>2, EngineAssumption DEF ReportSuccess, history, ShapeOK, LoopOK, Running
      <3>2. ThrottleOK(d)'
        BY <1>8, <1>a, <1>d, <2>2 DEF ReportSuccess, history, ShapeOK, LoopOK, ThrottleOK, Running
      <3>3. AnswerOK(d)'
        BY <1>8, <1>a, <1>d, <2>2 DEF ReportSuccess, history, ShapeOK, AnswerOK, Response, NoResponse
      <3> QED
        BY <3>1, <3>2, <3>3
    <2> QED
      BY <2>1, <2>2
  <1>9. ASSUME NEW c \in Calls, Record(c)
        PROVE  LoopOK(d)' /\ ThrottleOK(d)' /\ AnswerOK(d)'
    <2>1. CASE d # c
      BY <1>9, <1>a, <2>1, OthersKept DEF Record, history, ShapeOK
    <2>2. CASE d = c
      <3>1. LoopOK(d)'
        BY <1>9, <1>a, <1>b, <1>c, <1>d, <2>2, EngineAssumption DEF Record, history, ShapeOK, LoopOK, Running
      <3>2. ThrottleOK(d)'
        BY <1>9, <1>a, <1>d, <2>2 DEF Record, history, ShapeOK, LoopOK, ThrottleOK, Running
      <3>3. AnswerOK(d)'
        BY <1>9, <1>a, <1>d, <2>2 DEF Record, history, ShapeOK, AnswerOK, Response, NoResponse
      <3> QED
        BY <3>1, <3>2, <3>3
    <2> QED
      BY <2>1, <2>2
  <1>10. ASSUME NEW c \in Calls, ServiceFails(c)
        PROVE  LoopOK(d)' /\ ThrottleOK(d)' /\ AnswerOK(d)'
    <2>1. CASE d # c
      BY <1>10, <1>a, <2>1, OthersKept DEF ServiceFails, history, ShapeOK
    <2>2. CASE d = c
      <3>1. LoopOK(d)'
        BY <1>10, <1>a, <1>b, <1>c, <1>d, <2>2, EngineAssumption DEF ServiceFails, history, ShapeOK, LoopOK, Running
      <3>2. ThrottleOK(d)'
        BY <1>10, <1>a, <1>d, <2>2 DEF ServiceFails, history, ShapeOK, LoopOK, ThrottleOK, Running
      <3>3. AnswerOK(d)'
        BY <1>10, <1>a, <1>d, <2>2 DEF ServiceFails, history, ShapeOK, AnswerOK, Response, NoResponse
      <3> QED
        BY <3>1, <3>2, <3>3
    <2> QED
      BY <2>1, <2>2
  <1>11. CASE UNCHANGED engineVars
    BY <1>11, <1>a, OthersKept DEF engineVars, history
  <1> QED
    BY <1>1, <1>2, <1>3, <1>4, <1>5, <1>6, <1>7, <1>8, <1>9, <1>10, <1>11 DEF EngineNext

-----------------------------------------------------------------------------
(* The theorems.                                                           *)

\* Every reachable state of the engine satisfies the invariant.
LEMMA EngineInvAlways == EngineSpec => [](ShapeOK /\ EngineInv)
  <1>1. EngineInit => ShapeOK /\ EngineInv
    BY ShapeInit, EngineInvInit
  <1>2. ShapeOK /\ EngineInv /\ [EngineNext]_engineVars => (ShapeOK /\ EngineInv)'
    BY ShapeStep, EngineInvStep
  <1> QED
    BY <1>1, <1>2, PTL DEF EngineSpec

\* The counters of a call never leave their bounds: no call sends, is
\* throttled or reports more often than it has attempts, and none takes a
\* second token.
THEOREM EngineTyped == EngineSpec => []EngineTypeOK
  <1>1. ShapeOK /\ EngineInv => EngineTypeOK
    <2> SUFFICES ASSUME ShapeOK, EngineInv PROVE EngineTypeOK
      OBVIOUS
    <2>1. ASSUME NEW c \in Calls
          PROVE  /\ attempt[c] \in 0..1 + MaxRetries /\ onWire[c] \in 0..1 + MaxRetries
                 /\ limited[c] \in 0..1 + MaxRetries /\ backoffs[c] \in 0..1 + MaxRetries
                 /\ tokens[c] \in 0..1
      <3>1. MaxAttempts(c) \in 1..1 + MaxRetries
        BY <2>1, MaxAttemptsType
      <3>2. LoopOK(c) /\ ThrottleOK(c)
        BY <2>1 DEF EngineInv
      <3>3. /\ onWire[c] = attempt[c] /\ attempt[c] =< MaxAttempts(c) /\ tokens[c] =< 1
            /\ limited[c] =< attempt[c] /\ backoffs[c] =< limited[c]
        BY <3>2 DEF LoopOK, ThrottleOK
      <3>4. /\ attempt[c] \in Nat /\ onWire[c] \in Nat /\ tokens[c] \in Nat
            /\ limited[c] \in Nat /\ backoffs[c] \in Nat
        BY <2>1 DEF ShapeOK
      <3> QED
        BY <3>1, <3>3, <3>4, EngineAssumption
    <2>2. /\ attempt \in [Calls -> 0..1 + MaxRetries] /\ onWire \in [Calls -> 0..1 + MaxRetries]
          /\ limited \in [Calls -> 0..1 + MaxRetries] /\ backoffs \in [Calls -> 0..1 + MaxRetries]
          /\ tokens \in [Calls -> 0..1]
      BY <2>1 DEF ShapeOK
    <2> QED
      BY <2>2 DEF ShapeOK, EngineTypeOK
  <1> QED
    BY <1>1, EngineInvAlways, PTL

\* HttpEngine.request: whatever the attempts of a call meet, what leaves was
\* let through by the guards and the limiter, and a request that is not
\* idempotent leaves once.
THEOREM EngineSendsWithinPolicy == EngineSpec => []SentWithinPolicy
  <1>1. ShapeOK /\ EngineInv => SentWithinPolicy
    <2> SUFFICES ASSUME ShapeOK, EngineInv, NEW c \in Calls, onWire[c] > 0
                 PROVE  /\ req[c].inScope /\ (req[c].suspect => req[c].skipGuard)
                        /\ tokens[c] = 1
                        /\ ~req[c].idempotent => onWire[c] = 1
      BY DEF SentWithinPolicy
    <2>1. /\ attempt[c] \in Nat /\ onWire[c] = attempt[c] /\ attempt[c] =< MaxAttempts(c)
          /\ Allowed(c) /\ tokens[c] = 1
      BY DEF ShapeOK, EngineInv, LoopOK
    <2>2. req[c].inScope /\ (req[c].suspect => req[c].skipGuard)
      BY <2>1 DEF Allowed
    <2>3. ~req[c].idempotent => onWire[c] = 1
      BY <2>1 DEF MaxAttempts
    <2> QED
      BY <2>1, <2>2, <2>3
  <1> QED
    BY <1>1, EngineInvAlways, PTL

\* HttpEngine.request: what the caller is told is what the transcript says.
THEOREM EngineOutcomeHasEvidence == EngineSpec => []EvidenceMatchesOutcome
  <1>1. ShapeOK /\ EngineInv => EvidenceMatchesOutcome
    <2> SUFFICES ASSUME ShapeOK, EngineInv, NEW c \in Calls
                 PROVE  /\ stage[c] \in {"returned", "connection_error"} =>
                              onWire[c] > 0 /\ transcript[c].stored
                        /\ stage[c] = "returned" =>
                              /\ transcript[c].response = response[c]
                              /\ response[c] # NoResponse /\ ~transcript[c].error
                        /\ stage[c] = "connection_error" =>
                              /\ transcript[c].response = NoResponse
                              /\ transcript[c].error /\ limited[c] = 0
      BY DEF EvidenceMatchesOutcome
    <2>1. stage[c] \in {"returned", "connection_error"} => onWire[c] > 0
      BY DEF EngineInv, LoopOK
    <2>2. AnswerOK(c)
      BY DEF EngineInv
    <2>3. CASE stage[c] = "returned"
      BY <2>1, <2>2, <2>3 DEF AnswerOK
    <2>4. CASE stage[c] = "connection_error"
      BY <2>1, <2>2, <2>4 DEF AnswerOK
    <2> QED
      BY <2>3, <2>4
  <1> QED
    BY <1>1, EngineInvAlways, PTL

\* HttpEngine.request reports each 429 and 503 to the limiter before it
\* tries again or ends.
THEOREM EngineHearsBackpressure == EngineSpec => []BackpressureHeard
  <1>1. EngineInv => BackpressureHeard
    BY DEF EngineInv, ThrottleOK, BackpressureHeard
  <1> QED
    BY <1>1, EngineInvAlways, PTL
=============================================================================

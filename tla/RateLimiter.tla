---------------------------- MODULE RateLimiter ----------------------------
(***************************************************************************)
(* sentinel_core.rate_limiter: the token bucket and the backpressure       *)
(* factor of one target, kept in Redis and shared by every worker.  A step *)
(* is what a worker does between two replies of Redis.                     *)
(*                                                                         *)
(* Numbers.  A tick is the time in which a bucket at full rate earns one   *)
(* token.  The factor is in thousandths and a token is Unit of them, so    *)
(* elapsed * factor is the refill; the code's floats are rounded down.     *)
(***************************************************************************)
EXTENDS Integers, FiniteSets

CONSTANTS
    Workers,        \* processes that share the target's limiter
    Fast,           \* those on a host whose clock is ahead ...
    Skew,           \* ... by this many ticks
    Burst,          \* capacity of the bucket in tokens
    BucketTTL,      \* expire(bucket_key), in ticks
    MaxTries,       \* _MAX_CAS_RETRIES (10 in the code)
    Ops,            \* which of the limiter's operations the workers call
    MaxTime,        \* bound: the time at which the clock stops
    MaxReports,     \* bound: calls of report_backpressure and report_success
    MaxTurns        \* bound: lead.turns at which no call of acquire begins

Unit == 1000
MinFactor == 50

ASSUME LimiterAssumption ==
    /\ Fast \subseteq Workers
    /\ Skew \in Nat
    /\ Burst \in Nat \ {0}
    /\ BucketTTL \in Nat
    /\ Burst =< BucketTTL
    /\ MaxTries \in Nat \ {0}
    /\ Ops \subseteq {"acquire", "backpressure", "success"}
    /\ MaxTime \in Nat
    /\ MaxReports \in Nat
    /\ MaxTurns \in Nat \ {0}

VARIABLES
    clock,          \* true time; also the clock of the Redis server
    bucket,         \* the hash at bucket_key: tokens, ts, and its expiry
    factor,         \* the value at factor_key (0: no such key)
    pc,             \* what worker w is doing
    loc,            \* the local variables of worker w's call
    dirty,          \* the bucket changed since w's WATCH: EXEC will fail
    issued,         \* history: tokens granted so far
    window,         \* history: when an observer began to count, and from what
    lead,           \* history: how far the last to write was ahead, and how
                    \* often that was further than the one before
    reports         \* history: reports begun, and report_backpressure calls done

vars == <<clock, bucket, factor, pc, loc, dirty, issued, window, lead, reports>>

NoBucket == [tokens |-> 0, ts |-> 0, expires |-> 0]
NoLocals == [rate |-> 0, tries |-> 0, bucket |-> NoBucket, allowed |-> FALSE, factor |-> 0]

Init ==
    /\ clock = 0
    /\ bucket = NoBucket
    /\ factor = 0
    /\ pc = [w \in Workers |-> "idle"]
    /\ loc = [w \in Workers |-> NoLocals]
    /\ dirty = [w \in Workers |-> FALSE]
    /\ issued = 0
    /\ window = [from |-> 0, issued |-> 0, turns |-> 0, open |-> FALSE]
    /\ lead = [by |-> 0, turns |-> 0]
    /\ reports = [begun |-> 0, done |-> 0]

Present == bucket # NoBucket

\* time.time() on the host of worker w.
Ahead(w) == IF w \in Fast THEN Skew ELSE 0
Now(w) == clock + Ahead(w)

AtLeast(m, n) == IF n < m THEN m ELSE n
AtMost(m, n) == IF n > m THEN m ELSE n

-----------------------------------------------------------------------------
(* try_acquire and acquire.                                                *)

\* _effective_rate: read once, before the optimistic-locking loop.
GetRate(w) ==
    /\ pc[w] = "idle"
    /\ "acquire" \in Ops
    /\ lead.turns < MaxTurns
    /\ loc' = [loc EXCEPT ![w] = [NoLocals EXCEPT
                  !.rate = AtLeast(MinFactor, IF factor = 0 THEN Unit ELSE factor)]]
    /\ pc' = [pc EXCEPT ![w] = "watch"]
    /\ UNCHANGED <<clock, bucket, factor, dirty, issued, window, lead, reports>>

\* Mutant: no cap at the burst.
RefilledUncapped(b, rate, now) == b.tokens + AtLeast(0, now - b.ts) * rate

\* Mutant: a clock that has gone back starts the bucket afresh.
RefilledResets(b, rate, now) ==
    IF now < b.ts THEN Burst * Unit
    ELSE AtMost(Burst * Unit, b.tokens + (now - b.ts) * rate)

\* tokens after the refill for the time since the bucket was last written.
Refilled(b, rate, now) ==
    AtMost(Burst * Unit, b.tokens + AtLeast(0, now - b.ts) * rate)

\* WATCH, HMGET, and the new bucket computed from the reply: a missing one is
\* full.  The cost is one token, the only cost the callers use.
Watch(w) ==
    /\ pc[w] = "watch"
    /\ LET tokens  == IF Present THEN Refilled(bucket, loc[w].rate, Now(w)) ELSE Burst * Unit
           allowed == tokens >= Unit
       IN  loc' = [loc EXCEPT
              ![w].bucket = [tokens |-> IF allowed THEN tokens - Unit ELSE tokens,
                             ts |-> Now(w), expires |-> 0],
              ![w].allowed = allowed,
              ![w].tries = @ + 1]
    /\ dirty' = [dirty EXCEPT ![w] = FALSE]
    /\ pc' = [pc EXCEPT ![w] = "exec"]
    /\ UNCHANGED <<clock, bucket, factor, issued, window, lead, reports>>

\* The end of a call: the caller goes on, or sleeps and asks again.
Return(w, allowed) ==
    /\ issued' = IF allowed THEN issued + 1 ELSE issued
    /\ pc' = [pc EXCEPT ![w] = "idle"]
    /\ loc' = [loc EXCEPT ![w] = NoLocals]

\* History: who writes the bucket.
Leads(w) ==
    lead' = [by    |-> Ahead(w),
             turns |-> lead.turns + IF lead.by < Ahead(w) THEN 1 ELSE 0]

\* Mutant: HSET outside of the transaction.
ExecUnguarded(w) ==
    /\ pc[w] = "exec"
    /\ bucket' = [loc[w].bucket EXCEPT !.expires = clock + BucketTTL]
    /\ dirty' = [v \in Workers |-> TRUE]
    /\ Return(w, loc[w].allowed)
    /\ Leads(w)
    /\ UNCHANGED <<clock, factor, window, reports>>

\* EXEC succeeds: nobody wrote the bucket since the WATCH.
Exec(w) ==
    /\ pc[w] = "exec"
    /\ ~dirty[w]
    /\ bucket' = [loc[w].bucket EXCEPT !.expires = clock + BucketTTL]
    /\ dirty' = [v \in Workers |-> TRUE]
    /\ Return(w, loc[w].allowed)
    /\ Leads(w)
    /\ UNCHANGED <<clock, factor, window, reports>>

\* EXEC raises WatchError and there are tries left.
ExecConflict(w) ==
    /\ pc[w] = "exec"
    /\ dirty[w]
    /\ loc[w].tries < MaxTries
    /\ pc' = [pc EXCEPT ![w] = "watch"]
    /\ UNCHANGED <<clock, bucket, factor, loc, dirty, issued, window, lead, reports>>

\* Mutant: contention lets the caller through.
ContendedAllows(w) ==
    /\ pc[w] = "exec"
    /\ dirty[w]
    /\ loc[w].tries = MaxTries
    /\ Return(w, loc[w].allowed)
    /\ UNCHANGED <<clock, bucket, factor, dirty, window, lead, reports>>

\* The last try failed: deny.
Contended(w) ==
    /\ pc[w] = "exec"
    /\ dirty[w]
    /\ loc[w].tries = MaxTries
    /\ Return(w, FALSE)
    /\ UNCHANGED <<clock, bucket, factor, dirty, window, lead, reports>>

-----------------------------------------------------------------------------
(* report_backpressure and report_success: GET, then SET or DEL.           *)

\* A report's GET.  report_success returns when there is no such key.
GetFactor(w, op) ==
    /\ pc[w] = "idle"
    /\ op \in Ops
    /\ reports.begun < MaxReports
    /\ op = "success" => factor # 0
    /\ loc' = [loc EXCEPT ![w].factor = IF factor = 0 THEN Unit ELSE factor]
    /\ pc' = [pc EXCEPT ![w] = op]
    /\ reports' = [reports EXCEPT !.begun = @ + 1]
    /\ UNCHANGED <<clock, bucket, factor, dirty, issued, window, lead>>

Halved(f) == AtLeast(MinFactor, f \div 2)

SetHalved(w) ==
    /\ pc[w] = "backpressure"
    /\ factor' = Halved(loc[w].factor)
    /\ reports' = [reports EXCEPT !.done = @ + 1]
    /\ pc' = [pc EXCEPT ![w] = "idle"]
    /\ loc' = [loc EXCEPT ![w] = NoLocals]
    /\ UNCHANGED <<clock, bucket, dirty, issued, window, lead>>

\* recovered = min(1.0, current * 1.1), and a key that is at 1.0 is deleted.
SetRecovered(w) ==
    /\ pc[w] = "success"
    /\ factor' = IF loc[w].factor >= Unit THEN 0
                 ELSE AtMost(Unit, (loc[w].factor * 11) \div 10)
    /\ pc' = [pc EXCEPT ![w] = "idle"]
    /\ loc' = [loc EXCEPT ![w] = NoLocals]
    /\ UNCHANGED <<clock, bucket, dirty, issued, window, lead, reports>>

-----------------------------------------------------------------------------
(* Time, and the keys Redis expires.                                       *)

Tick ==
    /\ clock < MaxTime
    /\ clock' = clock + 1
    /\ UNCHANGED <<bucket, factor, pc, loc, dirty, issued, window, lead, reports>>

\* A watched key that expires fails the EXEC, as in Redis 7.
BucketExpires ==
    /\ Present
    /\ clock >= bucket.expires
    /\ bucket' = NoBucket
    /\ dirty' = [v \in Workers |-> TRUE]
    /\ UNCHANGED <<clock, factor, pc, loc, issued, window, lead, reports>>

\* The factor's time to live is not modelled: it may end at any moment.
FactorExpires ==
    /\ factor # 0
    /\ "success" \in Ops
    /\ factor' = 0
    /\ UNCHANGED <<clock, bucket, pc, loc, dirty, issued, window, lead, reports>>

\* History: somebody begins to count the requests the target receives.
OpenWindow ==
    /\ ~window.open
    /\ window' = [from |-> clock, issued |-> issued, turns |-> lead.turns, open |-> TRUE]
    /\ UNCHANGED <<clock, bucket, factor, pc, loc, dirty, issued, lead, reports>>

Next ==
    \/ \E w \in Workers :
          \/ GetRate(w) \/ Watch(w) \/ Exec(w) \/ ExecConflict(w) \/ Contended(w)
          \/ \E op \in {"backpressure", "success"} : GetFactor(w, op)
          \/ SetHalved(w) \/ SetRecovered(w)
    \/ Tick \/ BucketExpires \/ FactorExpires \/ OpenWindow

Spec == Init /\ [][Next]_vars

-----------------------------------------------------------------------------
(* Properties.                                                             *)

Bucket == [tokens : 0..Burst * Unit, ts : Nat, expires : Nat]

Factor == {0} \cup MinFactor..Unit

TypeOK ==
    /\ clock \in Nat
    /\ bucket \in Bucket
    /\ factor \in Factor
    /\ pc \in [Workers -> {"idle", "watch", "exec", "backpressure", "success"}]
    /\ loc \in [Workers -> [rate : Factor, tries : 0..MaxTries, bucket : Bucket,
                            allowed : BOOLEAN, factor : Factor]]
    /\ dirty \in [Workers -> BOOLEAN]
    /\ issued \in Nat
    /\ window \in [from : Nat, issued : Nat, turns : Nat, open : BOOLEAN]
    /\ lead \in [by : {0, Skew}, turns : Nat]
    /\ reports \in [begun : Nat, done : Nat]

\* All workers together never get more tokens than the bucket holds at the
\* start plus what the full rate earns: not through a race of two EXECs, not
\* through a bucket that expires, not when the tries run out, and whatever
\* the factor does meanwhile.  Clocks that differ cost the skew every time a
\* host that is ahead writes after one that is not, and nothing else.
NeverOverIssued == issued =< Burst + clock + Skew * lead.turns

\* The same for an observer who begins to count at any moment: one EXEC may
\* be under way with an older reading of the clock, hence the extra token.
Counted == issued - window.issued

WindowBounded ==
    window.open =>
        Counted =< Burst + 1 + (clock - window.from) + Skew * (lead.turns - window.turns)

\* What makes the bounds inductive: the tokens granted and the tokens left are
\* covered by the burst, the time up to the bucket's timestamp and what the
\* skew earned before, for the bucket in Redis and for every one a worker may
\* still write.
Grant(w) == IF loc[w].allowed THEN 1 ELSE 0

Clean(w) == pc[w] = "exec" /\ ~dirty[w]

\* What the skew has earned but for the part, by, that a timestamp shows.
Credit(by) == Skew * lead.turns - by

Accounted ==
    /\ Fast = {} => lead.by = 0 /\ lead.turns = 0
    /\ Present =>
          /\ issued * Unit + bucket.tokens =< (Burst + bucket.ts + Credit(lead.by)) * Unit
          /\ bucket.ts =< clock + lead.by
          /\ bucket.ts + BucketTTL =< bucket.expires + lead.by
    /\ ~Present => issued =< clock + Skew * lead.turns
    /\ \A w \in Workers : Clean(w) =>
          /\ (issued + Grant(w)) * Unit + loc[w].bucket.tokens
                =< (Burst + loc[w].bucket.ts + Credit(AtMost(Ahead(w), lead.by))) * Unit
          /\ loc[w].bucket.ts =< Now(w)
          /\ Grant(w) * Unit + loc[w].bucket.tokens =< Burst * Unit

\* The same account from the moment the window opens: at most one EXEC that
\* was under way then gets through.  A timestamp less its lead is true time.
Since(by) == Credit(by) - Skew * window.turns - window.from

WindowAccounted ==
    window.open =>
        /\ window.from =< clock
        /\ Skew * window.turns =< Skew * lead.turns
        /\ Present =>
              IF window.from =< bucket.ts - lead.by
              THEN Counted * Unit + bucket.tokens =< (Burst + 1 + bucket.ts + Since(lead.by)) * Unit
              ELSE Counted =< 1
        /\ ~Present => Counted =< 1 + clock + Since(0)
        /\ \A w \in Workers : Clean(w) =>
              IF window.from =< loc[w].bucket.ts - Ahead(w)
              THEN (Counted + Grant(w)) * Unit + loc[w].bucket.tokens
                      =< (Burst + 1 + loc[w].bucket.ts + Since(AtMost(Ahead(w), lead.by))) * Unit
              ELSE Counted = 0

\* try_acquire's optimistic locking makes a call one step: what an EXEC writes
\* was computed from the bucket it replaces, in a race and across an expiry,
\* and a call that is denied for contention has no effect.
Atomic == INSTANCE TokenBucket
TryAcquireIsAtomic == Atomic!Spec

\* What makes TryAcquireIsAtomic inductive: a worker whose WATCH is unbroken
\* has taken its token, if any, from a refill of the bucket as it still is.
Taken(w) == loc[w].bucket.tokens + Grant(w) * Unit

Linked ==
    \A w \in Workers : Clean(w) =>
        /\ loc[w].bucket.ts \in Atomic!Readings
        /\ Atomic!MayHold(Taken(w), loc[w].bucket.ts)
        /\ loc[w].allowed <=> Taken(w) >= Unit

\* limiter.py's module comment: "Backed by Redis so it's correct across
\* multiple worker processes/hosts".  The bound, on hosts whose clocks differ.
CorrectAcrossHosts == issued =< Burst + clock + Skew

\* report_backpressure's comment: "Repeated calls compound (each halves
\* again)".  Two reports that are done have cut the rate to a quarter.
BackpressureCompounds ==
    reports.done >= 2 => factor # 0 /\ factor =< Unit \div 4
=============================================================================

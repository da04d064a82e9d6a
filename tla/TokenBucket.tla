---------------------------- MODULE TokenBucket ----------------------------
(***************************************************************************)
(* What sentinel_core.rate_limiter promises of a target's bucket: a call   *)
(* that gets through is one step, which refills the stored bucket for some *)
(* reading of some host's clock, at no more than the full rate, and takes  *)
(* a token if there is one.  No call sees another half done; RateLimiter   *)
(* is shown to implement this.                                             *)
(***************************************************************************)
EXTENDS Integers

CONSTANTS
    Burst, BucketTTL, Unit, NoBucket,   \* as in RateLimiter
    Skew            \* how far a reading of the clock may be ahead

VARIABLES
    clock,          \* true time
    bucket,         \* the hash at bucket_key
    issued          \* tokens granted so far

vars == <<clock, bucket, issued>>

Init == clock = 0 /\ bucket = NoBucket /\ issued = 0

\* The bucket may hold n once it is refilled at a reading now.
MayHold(n, now) ==
    IF bucket = NoBucket THEN n = Burst * Unit
    ELSE /\ n \in bucket.tokens..Burst * Unit
         /\ n = bucket.tokens \/ n - bucket.tokens =< (now - bucket.ts) * Unit

\* The readings of the hosts' clocks: one that is behind the bucket's is
\* behind by no more than the skew.
Readings == {now \in 0..clock + Skew : bucket.ts =< now + Skew}

\* A call of try_acquire that gets through and takes got of the tokens that
\* were there: one if there is one.
Acquire(now, got) ==
    /\ bucket' = [tokens |-> bucket'.tokens, ts |-> now, expires |-> clock + BucketTTL]
    /\ MayHold(bucket'.tokens + got * Unit, now)
    /\ got = 1 <=> bucket'.tokens + got * Unit >= Unit
    /\ issued' = issued + got
    /\ UNCHANGED clock

Tick == clock' = clock + 1 /\ UNCHANGED <<bucket, issued>>

Expire ==
    /\ bucket # NoBucket
    /\ clock >= bucket.expires
    /\ bucket' = NoBucket
    /\ UNCHANGED <<clock, issued>>

Next ==
    \/ \E now \in Readings, got \in {0, 1} : Acquire(now, got)
    \/ Tick
    \/ Expire

Spec == Init /\ [][Next]_vars
=============================================================================

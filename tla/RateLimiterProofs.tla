------------------------- MODULE RateLimiterProofs -------------------------
(***************************************************************************)
(* Proofs about RateLimiter, for any number of workers, any burst, any     *)
(* number of tries, any clocks and any sequence of reports: the types, the *)
(* two bounds on the tokens handed out, and that a call of try_acquire is  *)
(* one step of TokenBucket.                                                *)
(***************************************************************************)
EXTENDS RateLimiter, TLAPS

Local == [rate : Factor, tries : 0..MaxTries, bucket : Bucket,
          allowed : BOOLEAN, factor : Factor]

\* Constants and the empty records are of their types.
LEMMA ConstantTypes ==
    /\ NoBucket \in Bucket
    /\ NoLocals \in Local
    /\ Unit \in Nat /\ Burst * Unit \in Nat /\ Unit =< Burst * Unit
  BY LimiterAssumption DEF NoBucket, NoLocals, Bucket, Local, Factor, Unit, MinFactor

\* A refill for e ticks at a factor of at most one earns at most e tokens.
LEMMA RefillBound ==
    ASSUME NEW e \in Nat, NEW r \in Nat, r =< Unit
    PROVE  e * r \in Nat /\ e * r =< e * Unit
  BY DEF Unit

\* Refilled stays within the burst and within what the elapsed time earns.
LEMMA RefilledBound ==
    ASSUME NEW b \in Bucket, NEW r \in Factor, NEW now \in Nat
    PROVE  /\ Refilled(b, r, now) \in b.tokens..Burst * Unit
           /\ Refilled(b, r, now) \in 0..Burst * Unit
           /\ b.ts =< now => Refilled(b, r, now) =< b.tokens + (now - b.ts) * Unit
           /\ now < b.ts => Refilled(b, r, now) =< b.tokens
  <1> DEFINE e == AtLeast(0, now - b.ts)
  <1>1. e \in Nat /\ (b.ts =< now => e = now - b.ts) /\ (now < b.ts => e = 0)
    BY DEF AtLeast, Bucket
  <1>2. r \in Nat /\ r =< Unit
    BY DEF Factor, Unit, MinFactor
  <1>3. e * r \in Nat /\ e * r =< e * Unit
    BY <1>1, <1>2, RefillBound
  <1>4. b.tokens \in Nat /\ b.tokens =< Burst * Unit /\ Burst * Unit \in Nat
    BY ConstantTypes DEF Bucket
  <1>5. Refilled(b, r, now) = AtMost(Burst * Unit, b.tokens + e * r)
    BY DEF Refilled
  <1> HIDE DEF e
  <1>6. e * Unit \in Nat /\ (e = 0 => e * Unit = 0)
    BY <1>1 DEF Unit
  <1> QED
    BY <1>1, <1>3, <1>4, <1>5, <1>6 DEF AtMost

\* The result of a WATCH, HMGET and refill: what the worker will try to write.
LEMMA WatchEffect ==
    ASSUME TypeOK, NEW w \in Workers, Watch(w)
    PROVE  /\ loc' \in [Workers -> [rate : Factor, tries : Int, bucket : Bucket,
                                    allowed : BOOLEAN, factor : Factor]]
           /\ \A v \in Workers \ {w} : loc'[v] = loc[v]
           /\ loc'[w].tries = loc[w].tries + 1
           /\ loc'[w].bucket.ts = Now(w)
           /\ Taken(w)' = IF Present THEN Refilled(bucket, loc[w].rate, Now(w)) ELSE Burst * Unit
           /\ loc'[w].allowed <=> Taken(w)' >= Unit
           /\ Grant(w)' * Unit + loc'[w].bucket.tokens =< Burst * Unit
           /\ Present /\ bucket.ts =< Now(w) =>
                 Grant(w)' * Unit + loc'[w].bucket.tokens
                    =< bucket.tokens + (Now(w) - bucket.ts) * Unit
           /\ Present /\ Now(w) < bucket.ts =>
                 Grant(w)' * Unit + loc'[w].bucket.tokens =< bucket.tokens
  <1> DEFINE tokens == IF Present THEN Refilled(bucket, loc[w].rate, Now(w)) ELSE Burst * Unit
  <1>1. Now(w) \in Nat
    BY LimiterAssumption DEF Now, Ahead, TypeOK
  <1>2. /\ tokens \in 0..Burst * Unit
        /\ Present /\ bucket.ts =< Now(w) => tokens =< bucket.tokens + (Now(w) - bucket.ts) * Unit
        /\ Present /\ Now(w) < bucket.ts => tokens =< bucket.tokens
    <2>1. bucket \in Bucket /\ loc[w].rate \in Factor
      BY DEF TypeOK
    <2> QED
      BY <1>1, <2>1, RefilledBound, ConstantTypes
  <1> DEFINE next == [tokens |-> IF tokens >= Unit THEN tokens - Unit ELSE tokens,
                      ts |-> Now(w), expires |-> 0]
  <1>3. loc' = [loc EXCEPT ![w].bucket = next, ![w].allowed = (tokens >= Unit),
                           ![w].tries = @ + 1]
    BY DEF Watch
  <1> HIDE DEF tokens
  <1>4. next \in Bucket
    BY <1>1, <1>2, ConstantTypes DEF Bucket
  <1>5. /\ loc'[w].bucket = next /\ loc'[w].allowed = (tokens >= Unit)
        /\ loc'[w].tries = loc[w].tries + 1
        /\ loc'[w].rate = loc[w].rate /\ loc'[w].factor = loc[w].factor
    BY <1>3 DEF TypeOK
  <1>6. /\ loc' \in [Workers -> [rate : Factor, tries : Int, bucket : Bucket,
                                 allowed : BOOLEAN, factor : Factor]]
        /\ \A v \in Workers \ {w} : loc'[v] = loc[v]
    <2> HIDE DEF next
    <2> QED
      BY <1>3, <1>4 DEF TypeOK
  <1>7. Grant(w)' * Unit + loc'[w].bucket.tokens = tokens /\ Taken(w)' = tokens
        /\ (loc'[w].allowed <=> tokens >= Unit)
    <2>0. tokens \in Nat
      BY <1>2, ConstantTypes
    <2>1. CASE tokens >= Unit
      <3>1. (tokens >= Unit) = TRUE
        BY <2>1
      <3>2. loc'[w].allowed = TRUE
        BY <1>5, <3>1, Zenon
      <3>3. loc'[w].bucket.tokens = tokens - Unit
        BY <1>5, <2>1
      <3> QED
        BY <2>0, <2>1, <3>2, <3>3 DEF Grant, Taken, Unit
    <2>2. CASE ~(tokens >= Unit)
      <3>1. (tokens >= Unit) = FALSE
        BY <2>2
      <3>2. loc'[w].allowed = FALSE
        BY <1>5, <3>1, Zenon
      <3>3. loc'[w].bucket.tokens = tokens
        BY <1>5, <2>2
      <3> QED
        BY <2>0, <2>2, <3>2, <3>3 DEF Grant, Taken, Unit
    <2> QED
      BY <2>1, <2>2
  <1> QED
    BY <1>2, <1>5, <1>6, <1>7 DEF tokens

\* A factor halved or recovered is a factor.
LEMMA FactorTypes ==
    ASSUME NEW f \in MinFactor..Unit
    PROVE  /\ Halved(f) \in MinFactor..Unit
           /\ AtMost(Unit, (f * 11) \div 10) \in MinFactor..Unit
  BY DEF Halved, AtLeast, AtMost, Unit, MinFactor

-----------------------------------------------------------------------------
(* Type correctness.                                                       *)

\* TypeOK and what it takes to preserve it: a worker that is about to WATCH
\* has a try left, and one that reports has read a factor.
LimiterTypes ==
    /\ TypeOK
    /\ \A w \in Workers :
          /\ pc[w] = "watch" => loc[w].tries < MaxTries
          /\ pc[w] \in {"backpressure", "success"} => loc[w].factor \in MinFactor..Unit

\* Returning from try_acquire keeps the types.
LEMMA ReturnTypes ==
    ASSUME LimiterTypes, NEW w \in Workers, NEW a \in BOOLEAN, Return(w, a)
    PROVE  /\ issued' \in Nat
           /\ pc' \in [Workers -> {"idle", "watch", "exec", "backpressure", "success"}]
           /\ loc' \in [Workers -> Local]
           /\ pc'[w] = "idle"
           /\ \A v \in Workers \ {w} : pc'[v] = pc[v] /\ loc'[v] = loc[v]
  BY ConstantTypes DEF LimiterTypes, TypeOK, Return, Local

\* One step keeps the types, whichever worker takes it.
LEMMA StepTypes ==
    ASSUME LimiterTypes, [Next]_vars
    PROVE  LimiterTypes'
  <1>t. TypeOK
    BY DEF LimiterTypes
  <1>1. ASSUME NEW w \in Workers, GetRate(w) PROVE LimiterTypes'
    <2>1. AtLeast(MinFactor, IF factor = 0 THEN Unit ELSE factor) \in Factor
      BY <1>t DEF TypeOK, Factor, AtLeast, Unit, MinFactor
    <2>2. loc' \in [Workers -> Local] /\ loc'[w].tries = 0
      BY <1>1, <1>t, <2>1, ConstantTypes DEF GetRate, TypeOK, Local, NoLocals
    <2>3. \A v \in Workers \ {w} : loc'[v] = loc[v] /\ pc'[v] = pc[v]
      BY <1>1, <1>t DEF GetRate, TypeOK
    <2>4. pc' \in [Workers -> {"idle", "watch", "exec", "backpressure", "success"}] /\ pc'[w] = "watch"
      BY <1>1, <1>t DEF GetRate, TypeOK
    <2>5. 0 < MaxTries
      BY LimiterAssumption
    <2> QED
      BY <1>1, <2>2, <2>3, <2>4, <2>5 DEF GetRate, LimiterTypes, TypeOK, Local
  <1>2. ASSUME NEW w \in Workers, Watch(w) PROVE LimiterTypes'
    <2>1. loc[w].tries \in Nat /\ loc[w].tries < MaxTries
      BY <1>2, <1>t DEF Watch, LimiterTypes, TypeOK
    <2>2. loc' \in [Workers -> Local]
      <3>1. \A v \in Workers : loc'[v].tries \in 0..MaxTries
        BY <1>2, <1>t, <2>1, WatchEffect, LimiterAssumption DEF TypeOK
      <3> QED
        BY <1>2, <1>t, <3>1, WatchEffect DEF Local
    <2>3. \A v \in Workers \ {w} : loc'[v] = loc[v] /\ pc'[v] = pc[v]
      <3>1. \A v \in Workers \ {w} : loc'[v] = loc[v]
        BY <1>2, <1>t, WatchEffect
      <3> QED
        BY <1>2, <1>t, <3>1 DEF Watch, TypeOK
    <2>4. /\ pc' \in [Workers -> {"idle", "watch", "exec", "backpressure", "success"}] /\ pc'[w] = "exec"
          /\ dirty' \in [Workers -> BOOLEAN]
      BY <1>2, <1>t DEF Watch, TypeOK
    <2> QED
      BY <1>2, <2>2, <2>3, <2>4 DEF Watch, LimiterTypes, TypeOK, Local
  <1>3. ASSUME NEW w \in Workers, Exec(w) PROVE LimiterTypes'
    <2>1. loc[w].allowed \in BOOLEAN /\ loc[w].bucket \in Bucket /\ clock + BucketTTL \in Nat
      BY <1>t, LimiterAssumption DEF TypeOK
    <2>2. bucket' \in Bucket
      BY <1>3, <2>1 DEF Exec, Bucket
    <2>3. dirty' \in [Workers -> BOOLEAN] /\ lead' \in [by : {0, Skew}, turns : Nat]
      BY <1>3, <1>t DEF Exec, Leads, Ahead, TypeOK
    <2>4. /\ issued' \in Nat
          /\ pc' \in [Workers -> {"idle", "watch", "exec", "backpressure", "success"}]
          /\ loc' \in [Workers -> Local]
          /\ pc'[w] = "idle"
          /\ \A v \in Workers \ {w} : pc'[v] = pc[v] /\ loc'[v] = loc[v]
      BY <1>3, <2>1, ReturnTypes DEF Exec
    <2> QED
      BY <1>3, <2>2, <2>3, <2>4 DEF Exec, LimiterTypes, TypeOK, Local
  <1>4. ASSUME NEW w \in Workers, ExecConflict(w) PROVE LimiterTypes'
    <2>1. /\ pc' \in [Workers -> {"idle", "watch", "exec", "backpressure", "success"}]
          /\ \A v \in Workers \ {w} : pc'[v] = pc[v]
          /\ pc'[w] = "watch"
      BY <1>4, <1>t DEF ExecConflict, TypeOK
    <2> QED
      BY <1>4, <2>1 DEF ExecConflict, LimiterTypes, TypeOK
  <1>5. ASSUME NEW w \in Workers, Contended(w) PROVE LimiterTypes'
    BY <1>5, ReturnTypes DEF Contended, LimiterTypes, TypeOK, Local
  <1>6. ASSUME NEW w \in Workers, NEW op \in {"backpressure", "success"}, GetFactor(w, op)
        PROVE  LimiterTypes'
    <2>1. (IF factor = 0 THEN Unit ELSE factor) \in MinFactor..Unit
      BY <1>t DEF TypeOK, Factor, Unit, MinFactor
    <2>2. loc' \in [Workers -> Local] /\ loc'[w].factor \in MinFactor..Unit
      BY <1>6, <1>t, <2>1 DEF GetFactor, TypeOK, Local, Factor
    <2>3. \A v \in Workers \ {w} : loc'[v] = loc[v] /\ pc'[v] = pc[v]
      BY <1>6, <1>t DEF GetFactor, TypeOK
    <2>4. pc' \in [Workers -> {"idle", "watch", "exec", "backpressure", "success"}] /\ pc'[w] = op
      BY <1>6, <1>t DEF GetFactor, TypeOK
    <2>5. reports' \in [begun : Nat, done : Nat]
      BY <1>6, <1>t DEF GetFactor, TypeOK
    <2> QED
      BY <1>6, <2>2, <2>3, <2>4, <2>5 DEF GetFactor, LimiterTypes, TypeOK, Local
  <1>7. ASSUME NEW w \in Workers, SetHalved(w) \/ SetRecovered(w) PROVE LimiterTypes'
    <2>1. loc[w].factor \in MinFactor..Unit
      BY <1>7 DEF SetHalved, SetRecovered, LimiterTypes
    <2>2. factor' \in Factor
      BY <1>7, <2>1, FactorTypes DEF SetHalved, SetRecovered, Factor
    <2>3. loc' \in [Workers -> Local] /\ \A v \in Workers \ {w} : loc'[v] = loc[v] /\ pc'[v] = pc[v]
      BY <1>7, <1>t, ConstantTypes DEF SetHalved, SetRecovered, TypeOK, Local
    <2>4. pc' \in [Workers -> {"idle", "watch", "exec", "backpressure", "success"}] /\ pc'[w] = "idle"
      BY <1>7, <1>t DEF SetHalved, SetRecovered, TypeOK
    <2>5. reports' \in [begun : Nat, done : Nat]
      BY <1>7, <1>t DEF SetHalved, SetRecovered, TypeOK
    <2> QED
      BY <1>7, <2>2, <2>3, <2>4, <2>5 DEF SetHalved, SetRecovered, LimiterTypes, TypeOK, Local
  <1>8. CASE Tick \/ FactorExpires
    BY <1>8 DEF Tick, FactorExpires, LimiterTypes, TypeOK, Factor
  <1>11. CASE OpenWindow
    <2>1. window' \in [from : Nat, issued : Nat, turns : Nat, open : BOOLEAN]
      BY <1>11, <1>t DEF OpenWindow, TypeOK
    <2> QED
      BY <1>11, <2>1 DEF OpenWindow, LimiterTypes, TypeOK
  <1>9. CASE BucketExpires
    BY <1>9, ConstantTypes DEF BucketExpires, LimiterTypes, TypeOK
  <1>10. CASE UNCHANGED vars
    BY <1>10 DEF vars, LimiterTypes, TypeOK
  <1> QED
    BY <1>1, <1>2, <1>3, <1>4, <1>5, <1>6, <1>7, <1>8, <1>9, <1>10, <1>11 DEF Next

\* The typing invariant is inductive.
THEOREM LimiterTypesInvariant == Spec => []LimiterTypes
  <1>1. Init => LimiterTypes
    BY ConstantTypes DEF Init, LimiterTypes, TypeOK, Factor, Local
  <1>2. LimiterTypes /\ [Next]_vars => LimiterTypes'
    BY StepTypes
  <1> QED
    BY <1>1, <1>2, PTL DEF Spec

\* Every variable keeps its type, with or without clock skew: the bucket never
\* holds more than the burst, the factor never leaves its range, and no call
\* of try_acquire makes more tries than allowed.
THEOREM LimiterTypeCorrect == Spec => []TypeOK
  <1>1. LimiterTypes => TypeOK
    BY DEF LimiterTypes
  <1> QED
    BY <1>1, LimiterTypesInvariant, PTL

-----------------------------------------------------------------------------
(* The account of tokens, on any clocks.                                   *)

\* The facts about the numbers that the arithmetic steps rest on.
LEMMA Numbers ==
    ASSUME TypeOK
    PROVE  /\ clock \in Nat /\ issued \in Nat /\ Burst \in Nat /\ BucketTTL \in Nat
           /\ Burst =< BucketTTL
           /\ bucket.tokens \in Nat /\ bucket.tokens =< Burst * Unit /\ bucket.ts \in Nat
           /\ bucket.expires \in Nat
           /\ window.from \in Nat /\ window.issued \in Nat /\ Skew * window.turns \in Nat
           /\ \A w \in Workers :
                 /\ loc[w].bucket.tokens \in Nat /\ loc[w].bucket.ts \in Nat
                 /\ Grant(w) \in {0, 1}
                 /\ loc[w].bucket \in Bucket
           /\ Skew \in Nat /\ lead.turns \in Nat /\ Skew * lead.turns \in Nat
           /\ lead.by \in {0, Skew}
  BY LimiterAssumption, ConstantTypes DEF TypeOK, Bucket, Grant

\* The clock a worker reads.
LEMMA ClockReading ==
    ASSUME TypeOK, NEW w \in Workers
    PROVE  Ahead(w) \in {0, Skew} /\ Now(w) = clock + Ahead(w) /\ Now(w) \in Nat
  BY LimiterAssumption DEF Now, Ahead, TypeOK

\* A write keeps the credit apart from the lead its timestamp shows.
LEMMA LeadsEffect ==
    ASSUME TypeOK, NEW w \in Workers, Leads(w)
    PROVE  /\ lead'.by = Ahead(w) /\ lead'.turns \in Nat
           /\ Credit(lead.by)' = Credit(AtMost(Ahead(w), lead.by))
  <1>1. lead'.by = Ahead(w)
    BY DEF Leads
  <1>2. lead'.turns = lead.turns + IF lead.by < Ahead(w) THEN 1 ELSE 0
    BY DEF Leads
  <1>3. Skew * (lead.turns + 1) = Skew * lead.turns + Skew
    BY Numbers
  <1>4. Skew * lead'.turns = Skew * lead.turns + IF lead.by < Ahead(w) THEN Skew ELSE 0
    BY <1>2, <1>3, Numbers
  <1>5. Credit(lead.by)' = Skew * lead'.turns - lead'.by
    BY DEF Credit
  <1>6. Credit(AtMost(Ahead(w), lead.by)) = Skew * lead.turns - AtMost(Ahead(w), lead.by)
    BY DEF Credit
  <1>7. Ahead(w) \in {0, Skew}
    BY ClockReading
  <1> QED
    BY <1>1, <1>2, <1>4, <1>5, <1>6, <1>7, Numbers DEF AtMost

\* A successful EXEC writes the worker's bucket, hands out the worker's grant
\* and fails every other EXEC.
LEMMA ExecEffect ==
    ASSUME TypeOK, NEW w \in Workers, Exec(w)
    PROVE  /\ Clean(w)
           /\ bucket'.tokens = loc[w].bucket.tokens /\ bucket'.ts = loc[w].bucket.ts
           /\ bucket'.expires = clock + BucketTTL
           /\ Present'
           /\ issued' = issued + Grant(w)
           /\ \A v \in Workers : ~Clean(v)'
           /\ clock' = clock /\ window' = window /\ Leads(w)
  <1>1. /\ bucket'.tokens = loc[w].bucket.tokens /\ bucket'.ts = loc[w].bucket.ts
        /\ bucket'.expires = clock + BucketTTL
    BY Numbers DEF Exec, Bucket
  <1>2. Present'
    BY <1>1, Numbers, LimiterAssumption DEF Present, NoBucket
  <1>3. issued' = issued + Grant(w)
    BY Numbers DEF Exec, Return, Grant
  <1>4. \A v \in Workers : ~Clean(v)'
    BY DEF Exec, Clean
  <1> QED
    BY <1>1, <1>2, <1>3, <1>4 DEF Exec, Clean

\* The steps that touch neither the bucket nor the grants: what is clean
\* after one of them was clean before, with the same bucket to write.
Quiet ==
    /\ bucket' = bucket /\ issued' = issued /\ lead' = lead
    /\ clock' \in Nat /\ clock =< clock'
    /\ \A v \in Workers : Clean(v)' =>
          Clean(v) /\ loc'[v].bucket = loc[v].bucket /\ loc'[v].allowed = loc[v].allowed

\* Every step but WATCH, a successful EXEC and the expiry is quiet.
LEMMA QuietSteps ==
    ASSUME LimiterTypes, [Next]_vars, ~BucketExpires,
           \A w \in Workers : ~Watch(w) /\ ~Exec(w)
    PROVE  Quiet /\ (clock' = clock \/ Tick)
  <1>t. TypeOK
    BY DEF LimiterTypes
  <1>1. ASSUME NEW w \in Workers,
               \/ GetRate(w) \/ ExecConflict(w)
               \/ \E op \in {"backpressure", "success"} : GetFactor(w, op)
               \/ SetHalved(w) \/ SetRecovered(w)
        PROVE  Quiet /\ clock' = clock
    BY <1>1, <1>t DEF GetRate, ExecConflict, GetFactor, SetHalved, SetRecovered,
                      Quiet, Clean, TypeOK
  <1>2. ASSUME NEW w \in Workers, Contended(w) PROVE Quiet /\ clock' = clock
    BY <1>2, <1>t DEF Contended, Return, Quiet, Clean, TypeOK
  <1>3. CASE Tick \/ FactorExpires \/ OpenWindow
    BY <1>3, <1>t DEF Tick, FactorExpires, OpenWindow, Quiet, Clean, TypeOK
  <1>4. CASE UNCHANGED vars
    BY <1>4, <1>t DEF vars, Quiet, Clean, TypeOK
  <1> QED
    BY <1>1, <1>2, <1>3, <1>4 DEF Next

\* What WATCH and the refill prepare is covered like the bucket they read: if
\* time goes back, by at most the skew, the credit of the lead makes up for it.
LEMMA WatchCovered ==
    ASSUME TypeOK, TypeOK', Accounted, NEW w \in Workers, Watch(w)
    PROVE  (issued + Grant(w)') * Unit + loc'[w].bucket.tokens
              =< (Burst + Now(w) + Credit(AtMost(Ahead(w), lead.by))) * Unit
  <1> DEFINE taken  == Grant(w)' * Unit + loc'[w].bucket.tokens
             shown  == AtMost(Ahead(w), lead.by)
  <1>1. /\ taken =< Burst * Unit
        /\ Present /\ bucket.ts =< Now(w) =>
              taken =< bucket.tokens + (Now(w) - bucket.ts) * Unit
        /\ Present /\ Now(w) < bucket.ts => taken =< bucket.tokens
    BY WatchEffect
  <1>2. Grant(w)' \in {0, 1} /\ loc'[w].bucket.tokens \in Nat /\ taken \in Nat
    BY DEF TypeOK, Grant, Bucket, Unit
  <1>3. Ahead(w) \in {0, Skew} /\ Now(w) = clock + Ahead(w) /\ Now(w) \in Nat
    BY ClockReading
  <1>4. /\ shown \in Nat /\ shown =< Ahead(w) /\ shown =< lead.by
        /\ shown = Ahead(w) \/ shown = lead.by
    BY <1>3, Numbers DEF AtMost
  <1>5. /\ Credit(shown) = Skew * lead.turns - shown
        /\ Credit(lead.by) = Skew * lead.turns - lead.by
    BY DEF Credit
  <1> HIDE DEF taken, shown
  <1>6. issued * Unit + taken =< (Burst + Now(w) + Credit(shown)) * Unit
    <2>1. CASE Present
      <3>1. /\ issued * Unit + bucket.tokens =< (Burst + bucket.ts + Credit(lead.by)) * Unit
            /\ bucket.ts =< clock + lead.by
        BY <2>1 DEF Accounted
      <3>2. CASE bucket.ts =< Now(w)
        BY <1>1, <1>2, <1>3, <1>4, <1>5, <2>1, <3>1, <3>2, Numbers DEF Unit
      <3>3. CASE Now(w) < bucket.ts
        BY <1>1, <1>2, <1>3, <1>4, <1>5, <2>1, <3>1, <3>3, Numbers DEF Unit
      <3> QED
        BY <1>3, <3>2, <3>3, Numbers
    <2>2. CASE ~Present
      <3>1. issued =< clock + Skew * lead.turns
        BY <2>2 DEF Accounted
      <3> QED
        BY <1>1, <1>2, <1>3, <1>4, <1>5, <3>1, Numbers DEF Unit
    <2> QED
      BY <2>1, <2>2
  <1> QED
    BY <1>2, <1>6, Numbers DEF taken, shown, Unit

\* The account survives every step.
LEMMA StepAccounted ==
    ASSUME LimiterTypes, LimiterTypes', Accounted, [Next]_vars
    PROVE  Accounted'
  <1>t. TypeOK /\ TypeOK'
    BY DEF LimiterTypes
  <1>1. ASSUME NEW w \in Workers, Watch(w) PROVE Accounted'
    <2>1. /\ clock' = clock /\ bucket' = bucket /\ issued' = issued /\ lead' = lead
          /\ \A v \in Workers \ {w} : Clean(v)' => Clean(v) /\ loc'[v] = loc[v]
      <3>1. \A v \in Workers \ {w} : loc'[v] = loc[v]
        BY <1>1, <1>t, WatchEffect
      <3>2. \A v \in Workers \ {w} : pc'[v] = pc[v] /\ dirty'[v] = dirty[v]
        BY <1>1, <1>t DEF Watch, TypeOK
      <3> QED
        BY <1>1, <3>1, <3>2 DEF Watch, Clean
    <2>2. /\ loc'[w].bucket.ts = Now(w)
          /\ Grant(w)' * Unit + loc'[w].bucket.tokens =< Burst * Unit
          /\ (issued + Grant(w)') * Unit + loc'[w].bucket.tokens
                =< (Burst + Now(w) + Credit(AtMost(Ahead(w), lead.by))) * Unit
      BY <1>1, <1>t, WatchEffect, WatchCovered
    <2>3. Now(w) =< Now(w)
      BY <1>t, ClockReading
    <2>4. \A v \in Workers : Now(v)' = Now(v) /\ Credit(AtMost(Ahead(v), lead.by))' = Credit(AtMost(Ahead(v), lead.by))
      BY <2>1 DEF Now, Credit
    <2>5. \A v \in Workers \ {w} : Clean(v)' => Grant(v)' = Grant(v)
      BY <2>1 DEF Grant
    <2>6. (Present' <=> Present) /\ Credit(lead.by)' = Credit(lead.by)
      BY <2>1 DEF Present, Credit
    <2> QED
      BY <2>1, <2>2, <2>3, <2>4, <2>5, <2>6 DEF Accounted
  <1>2. ASSUME NEW w \in Workers, Exec(w) PROVE Accounted'
    <2>1. /\ (issued + Grant(w)) * Unit + loc[w].bucket.tokens
                =< (Burst + loc[w].bucket.ts + Credit(AtMost(Ahead(w), lead.by))) * Unit
          /\ loc[w].bucket.ts =< clock + Ahead(w)
      BY <1>2, <1>t, ExecEffect, ClockReading DEF Accounted
    <2>2. /\ lead'.by = Ahead(w) /\ Credit(lead.by)' = Credit(AtMost(Ahead(w), lead.by))
      BY <1>2, <1>t, ExecEffect, LeadsEffect
    <2>3. Fast = {} => lead'.by = 0 /\ lead'.turns = 0
      <3>1. Fast = {} => Ahead(w) = 0 /\ lead.by = 0 /\ lead.turns = 0
        BY DEF Ahead, Accounted
      <3>2. /\ lead'.by = Ahead(w)
            /\ lead'.turns = lead.turns + IF lead.by < Ahead(w) THEN 1 ELSE 0
        BY <1>2, <1>t, ExecEffect DEF Leads
      <3> QED
        BY <3>1, <3>2
    <2>4. bucket'.ts =< clock' + lead'.by
      BY <1>2, <1>t, <2>1, <2>2, ExecEffect
    <2>5. bucket'.ts + BucketTTL =< bucket'.expires + lead'.by
      <3>1. lead'.by = Ahead(w) /\ Ahead(w) \in Nat
        BY <1>t, <2>2, ClockReading, Numbers
      <3> QED
        BY <1>2, <1>t, <2>1, <3>1, ExecEffect, Numbers
    <2>6. issued' * Unit + bucket'.tokens =< (Burst + bucket'.ts + Credit(lead.by)') * Unit
      BY <1>2, <1>t, <2>1, <2>2, ExecEffect
    <2> QED
      BY <1>2, <1>t, <2>3, <2>4, <2>5, <2>6, ExecEffect DEF Accounted
  <1>3. CASE BucketExpires
    <2>1. /\ ~Present' /\ (\A v \in Workers : ~Clean(v)')
          /\ issued' = issued /\ clock' = clock /\ lead' = lead
      BY <1>3 DEF BucketExpires, Present, Clean
    <2>2. issued =< clock + Skew * lead.turns
      <3>1. /\ issued * Unit + bucket.tokens =< (Burst + bucket.ts + Credit(lead.by)) * Unit
            /\ bucket.ts + BucketTTL =< bucket.expires + lead.by
            /\ bucket.expires =< clock
        BY <1>3, <1>t, Numbers DEF BucketExpires, Accounted
      <3>2. /\ Credit(lead.by) \in Int /\ lead.by \in Nat
            /\ Credit(lead.by) + lead.by = Skew * lead.turns
        BY <1>t, Numbers DEF Credit
      <3> QED
        BY <1>t, <3>1, <3>2, Numbers DEF Unit
    <2> QED
      BY <2>1, <2>2 DEF Accounted
  <1>4. CASE Quiet
    <2>1. (Present' <=> Present) /\ Credit(lead.by)' = Credit(lead.by)
      BY <1>4 DEF Quiet, Present, Credit
    <2>2. \A v \in Workers : Clean(v)' => Clean(v) /\ loc'[v].bucket = loc[v].bucket /\ Grant(v)' = Grant(v)
      BY <1>4 DEF Quiet, Grant
    <2>3. \A v \in Workers : Credit(AtMost(Ahead(v), lead.by))' = Credit(AtMost(Ahead(v), lead.by))
      BY <1>4 DEF Quiet, Credit
    <2>4. \A v \in Workers : Now(v) \in Nat /\ Now(v)' \in Nat /\ Now(v) =< Now(v)'
      <3>1. \A v \in Workers : Ahead(v) \in Nat
        BY <1>t, ClockReading, Numbers
      <3> QED
        BY <1>4, <1>t, <3>1, Numbers DEF Quiet, Now
    <2>5. lead.by \in Nat /\ Skew * lead.turns \in Nat
      BY <1>t, Numbers DEF Credit
    <2>6. \A v \in Workers : Clean(v)' =>
             /\ (issued' + Grant(v)') * Unit + loc'[v].bucket.tokens
                   =< (Burst + loc'[v].bucket.ts + Credit(AtMost(Ahead(v), lead.by))') * Unit
             /\ loc'[v].bucket.ts =< Now(v)'
             /\ Grant(v)' * Unit + loc'[v].bucket.tokens =< Burst * Unit
      BY <1>4, <1>t, <2>2, <2>3, <2>4, Numbers DEF Accounted, Quiet
    <2>7. Present => bucket.ts =< clock' + lead.by
      BY <1>4, <1>t, <2>5, Numbers DEF Accounted, Quiet
    <2>8. ~Present => issued =< clock' + Skew * lead.turns
      BY <1>4, <1>t, <2>5, Numbers DEF Accounted, Quiet
    <2> QED
      BY <1>4, <2>1, <2>6, <2>7, <2>8 DEF Quiet, Accounted
  <1> QED
    BY <1>1, <1>2, <1>3, <1>4, QuietSteps

-----------------------------------------------------------------------------
(* The count of a window, on any clocks.                                   *)

\* The offset of a window's account, spelled out.
LEMMA SinceIs ==
    ASSUME TypeOK, NEW by \in Nat
    PROVE  /\ Since(by) = Skew * lead.turns - by - Skew * window.turns - window.from
           /\ Since(by) \in Int
  BY Numbers DEF Since, Credit

\* What WATCH and the refill prepare is covered by the window's account like
\* the bucket they read.
LEMMA WatchCounted ==
    ASSUME TypeOK, TypeOK', Accounted, WindowAccounted, window.open,
           NEW w \in Workers, Watch(w)
    PROVE  (Counted + Grant(w)') * Unit + loc'[w].bucket.tokens
              =< (Burst + 1 + Now(w) + Since(AtMost(Ahead(w), lead.by))) * Unit
  <1> DEFINE taken  == Grant(w)' * Unit + loc'[w].bucket.tokens
             shown  == AtMost(Ahead(w), lead.by)
  <1>1. /\ taken =< Burst * Unit
        /\ Present /\ bucket.ts =< Now(w) =>
              taken =< bucket.tokens + (Now(w) - bucket.ts) * Unit
        /\ Present /\ Now(w) < bucket.ts => taken =< bucket.tokens
    BY WatchEffect
  <1>2. Grant(w)' \in {0, 1} /\ loc'[w].bucket.tokens \in Nat /\ taken \in Nat
    BY DEF TypeOK, Grant, Bucket, Unit
  <1>3. Ahead(w) \in {0, Skew} /\ Now(w) = clock + Ahead(w) /\ Now(w) \in Nat
    BY ClockReading
  <1>4. /\ shown \in Nat /\ shown =< Ahead(w) /\ shown =< lead.by /\ lead.by \in Nat
        /\ shown = Ahead(w) \/ shown = lead.by
    BY <1>3, Numbers DEF AtMost
  <1> HIDE DEF taken, shown
  <1>5. /\ Since(shown) = Since(0) - shown /\ Since(lead.by) = Since(0) - lead.by
        /\ Since(0) \in Int /\ 0 - window.from =< Since(0)
    <2>1. Skew * window.turns =< Skew * lead.turns
      BY DEF WindowAccounted
    <2>2. /\ Since(shown) = Skew * lead.turns - shown - Skew * window.turns - window.from
          /\ Since(lead.by) = Skew * lead.turns - lead.by - Skew * window.turns - window.from
          /\ Since(0) = Skew * lead.turns - 0 - Skew * window.turns - window.from
      BY <1>4, SinceIs
    <2> QED
      BY <1>4, <2>1, <2>2, Numbers
  <1>6. Counted \in Int /\ window.from =< clock
    BY Numbers DEF Counted, WindowAccounted
  <1>7. Counted * Unit + taken =< (Burst + 1 + Now(w) + Since(shown)) * Unit
    <2>1. CASE Present /\ window.from =< bucket.ts - lead.by
      <3>1. /\ Counted * Unit + bucket.tokens =< (Burst + 1 + bucket.ts + Since(lead.by)) * Unit
            /\ bucket.ts =< clock + lead.by
        BY <2>1 DEF WindowAccounted, Accounted
      <3>2. CASE bucket.ts =< Now(w)
        BY <1>1, <1>2, <1>3, <1>4, <1>5, <1>6, <2>1, <3>1, <3>2, Numbers DEF Unit
      <3>3. CASE Now(w) < bucket.ts
        BY <1>1, <1>2, <1>3, <1>4, <1>5, <1>6, <2>1, <3>1, <3>3, Numbers DEF Unit
      <3> QED
        BY <1>3, <3>2, <3>3, Numbers
    <2>2. CASE Present /\ ~(window.from =< bucket.ts - lead.by)
      <3>1. Counted =< 1
        BY <2>2 DEF WindowAccounted
      <3> QED
        BY <1>1, <1>2, <1>3, <1>4, <1>5, <1>6, <3>1, Numbers DEF Unit
    <2>3. CASE ~Present
      <3>1. Counted =< 1 + clock + Since(0)
        BY <2>3 DEF WindowAccounted
      <3> QED
        BY <1>1, <1>2, <1>3, <1>4, <1>5, <1>6, <3>1, Numbers DEF Unit
    <2> QED
      BY <2>1, <2>2, <2>3
  <1> QED
    BY <1>2, <1>6, <1>7, Numbers DEF taken, shown, Unit

\* The account from the window's opening survives every step.
LEMMA StepWindow ==
    ASSUME LimiterTypes, LimiterTypes', Accounted, WindowAccounted, [Next]_vars
    PROVE  WindowAccounted'
  <1>t. TypeOK /\ TypeOK'
    BY DEF LimiterTypes
  <1>1. ASSUME NEW w \in Workers, Watch(w) PROVE WindowAccounted'
    <2>1. /\ clock' = clock /\ bucket' = bucket /\ issued' = issued /\ window' = window
          /\ lead' = lead
          /\ \A v \in Workers \ {w} : Clean(v)' => Clean(v) /\ loc'[v] = loc[v]
      <3>1. \A v \in Workers \ {w} : loc'[v] = loc[v]
        BY <1>1, <1>t, WatchEffect
      <3>2. \A v \in Workers \ {w} : pc'[v] = pc[v] /\ dirty'[v] = dirty[v]
        BY <1>1, <1>t DEF Watch, TypeOK
      <3> QED
        BY <1>1, <3>1, <3>2 DEF Watch, Clean
    <2>2. /\ loc'[w].bucket.ts = Now(w)
          /\ window.open =>
                (Counted + Grant(w)') * Unit + loc'[w].bucket.tokens
                   =< (Burst + 1 + Now(w) + Since(AtMost(Ahead(w), lead.by))) * Unit
      BY <1>1, <1>t, WatchEffect, WatchCounted
    <2>3. window.open => window.from =< Now(w) - Ahead(w)
      BY <1>t, ClockReading, Numbers DEF WindowAccounted
    <2>4. \A v \in Workers \ {w} : Clean(v)' => Grant(v)' = Grant(v)
      BY <2>1 DEF Grant
    <2>5. /\ (Present' <=> Present) /\ Counted' = Counted
          /\ Since(lead.by)' = Since(lead.by) /\ Since(0)' = Since(0)
          /\ \A v \in Workers : Since(AtMost(Ahead(v), lead.by))' = Since(AtMost(Ahead(v), lead.by))
      BY <2>1 DEF Present, Counted, Since, Credit
    <2> QED
      BY <2>1, <2>2, <2>3, <2>4, <2>5 DEF WindowAccounted
  <1>2. ASSUME NEW w \in Workers, Exec(w) PROVE WindowAccounted'
    <2>0. Counted \in Int /\ Counted' = Counted + Grant(w) /\ Grant(w) \in {0, 1}
      <3>1. issued \in Nat /\ window.issued \in Nat /\ Grant(w) \in {0, 1}
        BY <1>t, Numbers
      <3>2. issued' = issued + Grant(w) /\ window' = window
        BY <1>2, <1>t, ExecEffect
      <3> QED
        BY <3>1, <3>2 DEF Counted
    <2>1. /\ Clean(w) /\ Present' /\ (\A v \in Workers : ~Clean(v)')
          /\ bucket'.ts = loc[w].bucket.ts /\ bucket'.tokens = loc[w].bucket.tokens
          /\ clock' = clock /\ window' = window /\ Leads(w)
      BY <1>2, <1>t, ExecEffect
    <2>2. /\ lead'.by = Ahead(w)
          /\ Since(lead.by)' = Since(AtMost(Ahead(w), lead.by))
      BY <1>t, <2>1, LeadsEffect DEF Since
    <2>3. Skew * lead.turns =< Skew * lead'.turns
      <3>1. Skew * (lead.turns + 1) = Skew * lead.turns + Skew
        BY <1>t, Numbers
      <3>2. lead'.turns = lead.turns + IF lead.by < Ahead(w) THEN 1 ELSE 0
        BY <2>1 DEF Leads
      <3> QED
        BY <1>t, <3>1, <3>2, Numbers
    <2> SUFFICES ASSUME window.open PROVE WindowAccounted'
      BY <2>1 DEF WindowAccounted
    <2>4. window.from =< clock /\ Skew * window.turns =< Skew * lead'.turns
      <3>1. Skew * lead'.turns \in Nat
        BY <1>t, LimiterAssumption DEF TypeOK
      <3> QED
        BY <1>t, <2>3, <3>1, Numbers DEF WindowAccounted
    <2>5. IF window.from =< bucket'.ts - lead'.by
          THEN Counted' * Unit + bucket'.tokens =< (Burst + 1 + bucket'.ts + Since(lead.by)') * Unit
          ELSE Counted' =< 1
      BY <2>0, <2>1, <2>2 DEF WindowAccounted
    <2> QED
      BY <2>1, <2>4, <2>5 DEF WindowAccounted
  <1>3. CASE BucketExpires
    <2>1. /\ ~Present' /\ (\A v \in Workers : ~Clean(v)') /\ Since(0)' = Since(0)
          /\ issued' = issued /\ clock' = clock /\ window' = window /\ lead' = lead
          /\ Counted' = Counted
      BY <1>3 DEF BucketExpires, Present, Clean, Counted, Since, Credit
    <2>2. ASSUME window.open PROVE Counted =< 1 + clock + Since(0)
      <3>0. Counted \in Int /\ window.from =< clock /\ Skew * window.turns =< Skew * lead.turns
        BY <1>t, <2>2, Numbers DEF Counted, WindowAccounted
      <3>1. Present /\ bucket.ts + BucketTTL =< clock + lead.by
        BY <1>3, <1>t, Numbers DEF BucketExpires, Accounted
      <3>2. lead.by \in Nat
        BY <1>t, Numbers
      <3>3. /\ Since(lead.by) = Skew * lead.turns - lead.by - Skew * window.turns - window.from
            /\ Since(0) = Skew * lead.turns - 0 - Skew * window.turns - window.from
        BY <1>t, <3>2, SinceIs
      <3>4. CASE window.from =< bucket.ts - lead.by
        <4>1. Counted * Unit + bucket.tokens =< (Burst + 1 + bucket.ts + Since(lead.by)) * Unit
          BY <2>2, <3>1, <3>4 DEF WindowAccounted
        <4> QED
          BY <1>t, <3>0, <3>1, <3>2, <3>3, <4>1, Numbers DEF Unit
      <3>5. CASE ~(window.from =< bucket.ts - lead.by)
        <4>1. Counted =< 1
          BY <2>2, <3>1, <3>5 DEF WindowAccounted
        <4> QED
          BY <1>t, <3>0, <3>3, <4>1, Numbers
      <3> QED
        BY <3>4, <3>5
    <2> QED
      BY <2>1, <2>2 DEF WindowAccounted
  <1>4. CASE OpenWindow
    <2>1. /\ window'.from = clock /\ window'.issued = issued /\ window'.turns = lead.turns
          /\ clock' = clock /\ bucket' = bucket /\ issued' = issued /\ loc' = loc /\ lead' = lead
          /\ Counted' = 0
          /\ (Present' <=> Present) /\ \A v \in Workers : (Clean(v)' <=> Clean(v)) /\ Grant(v)' = Grant(v)
      BY <1>4, <1>t, Numbers DEF OpenWindow, Counted, Present, Clean, Grant
    <2>2. ASSUME NEW by \in Nat PROVE Since(by)' = 0 - by - clock
      BY <1>t, <2>1, Numbers DEF Since, Credit
    <2>3. lead.by \in Nat /\ \A v \in Workers : Ahead(v) \in Nat
      BY <1>t, Numbers, ClockReading
    <2>4. Present /\ clock =< bucket.ts - lead.by =>
             0 * Unit + bucket.tokens =< (Burst + 1 + bucket.ts + (0 - lead.by - clock)) * Unit
      BY <1>t, <2>3, Numbers DEF Unit
    <2>5. ASSUME NEW v \in Workers, Clean(v), clock =< loc[v].bucket.ts - Ahead(v)
          PROVE  (0 + Grant(v)) * Unit + loc[v].bucket.tokens
                    =< (Burst + 1 + loc[v].bucket.ts + Since(AtMost(Ahead(v), lead.by))') * Unit
      <3>1. AtMost(Ahead(v), lead.by) \in Nat /\ AtMost(Ahead(v), lead.by) =< Ahead(v)
        BY <2>3 DEF AtMost
      <3>2. Since(AtMost(Ahead(v), lead.by))' = 0 - AtMost(Ahead(v), lead.by) - clock
        BY <1>t, <2>1, <3>1, Numbers DEF Since, Credit
      <3>3. Grant(v) * Unit + loc[v].bucket.tokens =< Burst * Unit
        BY <2>5 DEF Accounted
      <3> QED
        BY <1>t, <2>3, <2>5, <3>1, <3>2, <3>3, Numbers DEF Unit
    <2>6. Since(lead.by)' = 0 - lead.by - clock /\ Since(0)' = 0 - clock
      BY <1>t, <2>1, <2>3, Numbers DEF Since, Credit
    <2>7. clock =< clock /\ Skew * lead.turns =< Skew * lead.turns /\ 0 =< 1 + clock + (0 - clock)
      BY <1>t, Numbers
    <2> QED
      BY <1>t, <2>1, <2>4, <2>5, <2>6, <2>7 DEF WindowAccounted
  <1>5. CASE Quiet /\ window' = window
    <2>1. /\ (Present' <=> Present) /\ Counted' = Counted /\ lead' = lead
          /\ Since(lead.by)' = Since(lead.by) /\ Since(0)' = Since(0)
          /\ \A v \in Workers : Since(AtMost(Ahead(v), lead.by))' = Since(AtMost(Ahead(v), lead.by))
      BY <1>5 DEF Quiet, Present, Counted, Since, Credit
    <2>2. \A v \in Workers : Clean(v)' => Clean(v) /\ loc'[v].bucket = loc[v].bucket /\ Grant(v)' = Grant(v)
      BY <1>5 DEF Quiet, Grant
    <2>3. /\ clock \in Nat /\ clock' \in Nat /\ clock =< clock' /\ window.from \in Nat
          /\ Counted \in Int /\ bucket' = bucket /\ Since(0) \in Int
      BY <1>5, <1>t, Numbers, SinceIs DEF Quiet, Counted
    <2> QED
      BY <1>5, <2>1, <2>2, <2>3 DEF WindowAccounted
  <1>6. window' = window \/ OpenWindow
    BY DEF Next, vars, GetRate, Watch, Exec, ExecConflict, Contended, GetFactor,
           SetHalved, SetRecovered, Tick, BucketExpires, FactorExpires
  <1> QED
    BY <1>1, <1>2, <1>3, <1>4, <1>5, <1>6, QuietSteps

-----------------------------------------------------------------------------
(* The bounds.                                                             *)

\* The inductive invariant behind the bounds, on any clocks.
THEOREM LimiterAccounted == Spec => [](LimiterTypes /\ Accounted)
  <1>1. Init => LimiterTypes /\ Accounted
    <2> SUFFICES ASSUME Init PROVE LimiterTypes /\ Accounted
      OBVIOUS
    <2>1. LimiterTypes
      BY ConstantTypes DEF Init, LimiterTypes, TypeOK, Factor, Local
    <2>2. /\ ~Present /\ issued = 0 /\ clock = 0 /\ lead.by = 0 /\ lead.turns = 0
          /\ \A w \in Workers : ~Clean(w)
      BY DEF Init, Present, Clean
    <2>3. Skew * 0 = 0
      BY LimiterAssumption
    <2> QED
      BY <2>1, <2>2, <2>3 DEF Accounted
  <1>2. LimiterTypes /\ Accounted /\ [Next]_vars => (LimiterTypes /\ Accounted)'
    BY StepTypes, StepAccounted
  <1> QED
    BY <1>1, <1>2, PTL DEF Spec

\* The account yields the bound.
LEMMA AccountBounds ==
    ASSUME TypeOK, Accounted
    PROVE  NeverOverIssued
  <1>1. Credit(lead.by) = Skew * lead.turns - lead.by
    BY DEF Credit
  <1>2. CASE Present
    BY <1>1, <1>2, Numbers DEF Accounted, NeverOverIssued, Unit
  <1>3. CASE ~Present
    BY <1>3, Numbers DEF Accounted, NeverOverIssued
  <1> QED
    BY <1>2, <1>3

\* On hosts with any clocks, what the limiter hands out beyond the burst and
\* the time at full rate is at most the skew for every time a host that is
\* ahead writes the bucket after one that is not: for any number of workers,
\* tries, races of try_acquire, expiries of the bucket and reports.
THEOREM LimiterNeverOverIssues == Spec => []NeverOverIssued
  <1>1. LimiterTypes /\ Accounted => NeverOverIssued
    BY AccountBounds DEF LimiterTypes
  <1> QED
    BY <1>1, LimiterAccounted, PTL

\* On hosts whose clocks agree nobody is ever ahead, and the bound is the burst
\* plus one token per tick of the full rate.
THEOREM LimiterExactOnAgreeingClocks ==
    ASSUME Fast = {} \/ Skew = 0
    PROVE  Spec => [](issued =< Burst + clock)
  <1>1. LimiterTypes /\ Accounted => issued =< Burst + clock
    <2> SUFFICES ASSUME TypeOK, Accounted PROVE issued =< Burst + clock
      BY DEF LimiterTypes
    <2>1. Skew * lead.turns = 0
      BY Numbers DEF Accounted
    <2> QED
      BY <2>1, AccountBounds, Numbers DEF NeverOverIssued
  <1> QED
    BY <1>1, LimiterAccounted, PTL

\* The same for a count that starts at any moment, on any clocks, up to the one
\* EXEC that may be under way at that moment.
THEOREM LimiterWindowBounded == Spec => []WindowBounded
  <1>1. Init => WindowAccounted
    BY DEF Init, WindowAccounted
  <1>2. LimiterTypes /\ LimiterTypes' /\ Accounted /\ WindowAccounted /\ [Next]_vars
           => WindowAccounted'
    BY StepWindow
  <1>3. LimiterTypes /\ Accounted /\ WindowAccounted => WindowBounded
    <2> SUFFICES ASSUME TypeOK, Accounted, WindowAccounted, window.open
                 PROVE  Counted =< Burst + 1 + (clock - window.from)
                                   + Skew * (lead.turns - window.turns)
      BY DEF LimiterTypes, WindowBounded
    <2>1. Skew * (lead.turns - window.turns) = Skew * lead.turns - Skew * window.turns
      BY LimiterAssumption DEF TypeOK
    <2>2. /\ Counted \in Int /\ window.from =< clock /\ lead.by \in Nat
          /\ Skew * window.turns =< Skew * lead.turns
      BY Numbers DEF Counted, WindowAccounted
    <2>3. /\ Since(lead.by) = Skew * lead.turns - lead.by - Skew * window.turns - window.from
          /\ Since(0) = Skew * lead.turns - 0 - Skew * window.turns - window.from
      BY <2>2, SinceIs
    <2>4. Counted =< Burst + 1 + (clock - window.from) + (Skew * lead.turns - Skew * window.turns)
      <3>1. CASE Present /\ window.from =< bucket.ts - lead.by
        <4>1. /\ Counted * Unit + bucket.tokens =< (Burst + 1 + bucket.ts + Since(lead.by)) * Unit
              /\ bucket.ts =< clock + lead.by
          BY <3>1 DEF WindowAccounted, Accounted
        <4> QED
          BY <2>2, <2>3, <4>1, Numbers DEF Unit
      <3>2. CASE Present /\ ~(window.from =< bucket.ts - lead.by)
        <4>1. Counted =< 1
          BY <3>2 DEF WindowAccounted
        <4> QED
          BY <2>2, <4>1, Numbers
      <3>3. CASE ~Present
        <4>1. Counted =< 1 + clock + Since(0)
          BY <3>3 DEF WindowAccounted
        <4> QED
          BY <2>2, <2>3, <4>1, Numbers
      <3> QED
        BY <3>1, <3>2, <3>3
    <2> QED
      BY <2>1, <2>4
  <1> QED
    BY <1>1, <1>2, <1>3, LimiterAccounted, PTL DEF Spec

-----------------------------------------------------------------------------
(* try_acquire is atomic.                                                  *)

\* A refill is one the abstract bucket allows.
LEMMA RefillAllowed ==
    ASSUME TypeOK, NEW rate \in Factor, NEW now \in Nat
    PROVE  Atomic!MayHold(IF Present THEN Refilled(bucket, rate, now) ELSE Burst * Unit, now)
  <1>1. CASE Present
    <2>1. bucket \in Bucket
      BY DEF TypeOK
    <2>2. /\ Refilled(bucket, rate, now) \in bucket.tokens..Burst * Unit
          /\ bucket.ts =< now => Refilled(bucket, rate, now) =< bucket.tokens + (now - bucket.ts) * Unit
          /\ now < bucket.ts => Refilled(bucket, rate, now) =< bucket.tokens
      BY <2>1, RefilledBound
    <2> QED
      BY <1>1, <2>2, Numbers DEF Present, Atomic!MayHold, Unit
  <1>2. CASE ~Present
    BY <1>2 DEF Present, Atomic!MayHold
  <1> QED
    BY <1>1, <1>2

\* A reading is at most the skew ahead of the time, and behind the bucket by
\* at most the skew.
LEMMA ReadingAllowed ==
    ASSUME TypeOK, Accounted, NEW w \in Workers
    PROVE  Now(w) \in Atomic!Readings
  <1>1. Ahead(w) \in {0, Skew} /\ Now(w) = clock + Ahead(w) /\ Now(w) \in Nat
    BY ClockReading
  <1>2. bucket.ts =< clock + Skew
    BY Numbers DEF Accounted, Present, NoBucket
  <1> QED
    BY <1>1, <1>2, Numbers DEF Atomic!Readings

\* An unbroken WATCH still sees the bucket it read.
LEMMA StepLinked ==
    ASSUME LimiterTypes, LimiterTypes', Accounted, Linked, [Next]_vars
    PROVE  Linked'
  <1>t. TypeOK /\ TypeOK'
    BY DEF LimiterTypes
  <1>1. ASSUME NEW w \in Workers, Watch(w) PROVE Linked'
    <2>1. clock' = clock /\ bucket' = bucket
      BY <1>1 DEF Watch
    <2>2. Atomic!Readings' = Atomic!Readings
          /\ \A n, now : Atomic!MayHold(n, now)' <=> Atomic!MayHold(n, now)
      BY <2>1 DEF Atomic!Readings, Atomic!MayHold
    <2>3. \A v \in Workers \ {w} : loc'[v] = loc[v]
      BY <1>1, <1>t, WatchEffect
    <2>4. \A v \in Workers \ {w} : (Clean(v)' <=> Clean(v)) /\ Taken(v)' = Taken(v)
      BY <1>1, <1>t, <2>3 DEF Watch, Clean, Taken, Grant, TypeOK
    <2>5. /\ loc'[w].bucket.ts = Now(w) /\ Now(w) \in Nat
          /\ Taken(w)' = IF Present THEN Refilled(bucket, loc[w].rate, Now(w)) ELSE Burst * Unit
          /\ loc'[w].allowed <=> Taken(w)' >= Unit
      BY <1>1, <1>t, WatchEffect, ClockReading
    <2>6. Now(w) \in Atomic!Readings /\ Atomic!MayHold(Taken(w)', Now(w))
      <3>1. loc[w].rate \in Factor
        BY <1>t DEF TypeOK
      <3> QED
        BY <1>t, <2>5, <3>1, ReadingAllowed, RefillAllowed
    <2>7. \A v \in Workers : Clean(v)' =>
             /\ loc'[v].bucket.ts \in Atomic!Readings
             /\ Atomic!MayHold(Taken(v)', loc'[v].bucket.ts)
             /\ loc'[v].allowed <=> Taken(v)' >= Unit
      BY <2>3, <2>4, <2>5, <2>6 DEF Linked
    <2> QED
      BY <2>1, <2>7 DEF Linked, Atomic!Readings, Atomic!MayHold
  <1>2. CASE BucketExpires \/ \E w \in Workers : Exec(w)
    <2>1. \A v \in Workers : ~Clean(v)'
      BY <1>2 DEF BucketExpires, Exec, Clean
    <2> QED
      BY <2>1 DEF Linked
  <1>3. CASE Quiet
    <2>1. \A v \in Workers : Clean(v)' =>
             /\ Clean(v) /\ loc'[v].bucket = loc[v].bucket /\ loc'[v].allowed = loc[v].allowed
             /\ Taken(v)' = Taken(v)
      BY <1>3 DEF Quiet, Taken, Grant
    <2>2. bucket' = bucket /\ \A now \in Atomic!Readings : now \in Atomic!Readings'
      BY <1>3, <1>t, Numbers DEF Quiet, Atomic!Readings
    <2>3. \A v \in Workers : Clean(v)' => Atomic!MayHold(Taken(v)', loc'[v].bucket.ts)
      BY <2>1 DEF Linked
    <2> QED
      BY <2>1, <2>2, <2>3 DEF Linked, Atomic!MayHold
  <1> QED
    BY <1>1, <1>2, <1>3, QuietSteps

\* A successful EXEC is an abstract acquire, a step of the clock and an expiry
\* are themselves, and every other step leaves the bucket alone.
LEMMA StepAtomic ==
    ASSUME LimiterTypes, Linked, [Next]_vars
    PROVE  [Atomic!Next]_(Atomic!vars)
  <1>t. TypeOK
    BY DEF LimiterTypes
  <1>1. ASSUME NEW w \in Workers, Exec(w) PROVE Atomic!Next
    <2>1. /\ bucket' = [tokens |-> loc[w].bucket.tokens, ts |-> loc[w].bucket.ts,
                        expires |-> clock + BucketTTL]
          /\ Clean(w) /\ issued' = issued + Grant(w) /\ clock' = clock
      <3>1. loc[w].bucket \in Bucket
        BY <1>t, Numbers
      <3>2. bucket' = [tokens |-> loc[w].bucket.tokens, ts |-> loc[w].bucket.ts,
                       expires |-> clock + BucketTTL]
        BY <1>1, <3>1 DEF Exec, Bucket
      <3> QED
        BY <1>1, <1>t, <3>2, ExecEffect
    <2>2. /\ loc[w].bucket.ts \in Atomic!Readings
          /\ Atomic!MayHold(Taken(w), loc[w].bucket.ts)
          /\ loc[w].allowed <=> Taken(w) >= Unit
      BY <2>1 DEF Linked
    <2>3. Grant(w) \in {0, 1} /\ (Grant(w) = 1 <=> loc[w].allowed)
      BY <1>t, Numbers DEF Grant
    <2>4. bucket'.tokens + Grant(w) * Unit = Taken(w)
      BY <2>1 DEF Taken
    <2>5. bucket' = [tokens |-> bucket'.tokens, ts |-> loc[w].bucket.ts,
                     expires |-> clock + BucketTTL]
      BY <2>1
    <2>6. Atomic!Acquire(loc[w].bucket.ts, Grant(w))
      BY <2>1, <2>2, <2>3, <2>4, <2>5 DEF Atomic!Acquire
    <2> QED
      BY <2>2, <2>3, <2>6 DEF Atomic!Next
  <1>2. CASE BucketExpires
    BY <1>2 DEF BucketExpires, Present, Atomic!Next, Atomic!Expire
  <1>3. CASE Tick
    BY <1>3 DEF Tick, Atomic!Next, Atomic!Tick
  <1>4. CASE Quiet /\ clock' = clock
    BY <1>4 DEF Quiet, Atomic!vars
  <1>5. ASSUME NEW w \in Workers, Watch(w) PROVE UNCHANGED Atomic!vars
    BY <1>5 DEF Watch, Atomic!vars
  <1> QED
    BY <1>1, <1>2, <1>3, <1>4, <1>5, QuietSteps

\* The optimistic locking of try_acquire does what its comments rely on: for
\* any number of workers, tries and interleavings, with or without skew, the
\* bucket and the tokens granted behave as if every call were one step.
THEOREM LimiterIsAtomic == Spec => TryAcquireIsAtomic
  <1>1. Init => Linked /\ Atomic!Init
    BY DEF Init, Linked, Clean, Atomic!Init
  <1>2. LimiterTypes /\ LimiterTypes' /\ Accounted /\ Linked /\ [Next]_vars => Linked'
    BY StepLinked
  <1>3. LimiterTypes /\ Linked /\ [Next]_vars => [Atomic!Next]_(Atomic!vars)
    BY StepAtomic
  <1> QED
    BY <1>1, <1>2, <1>3, LimiterAccounted, PTL DEF Spec, TryAcquireIsAtomic, Atomic!Spec
=============================================================================

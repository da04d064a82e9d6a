------------------------- MODULE TokenBudgetProofs -------------------------
(***************************************************************************)
(* Theorems about TokenBudget, for any number of callers, any limit and    *)
(* any size of a call.                                                     *)
(***************************************************************************)
EXTENDS TokenBudget, FiniteSetTheorems, TLAPS

-----------------------------------------------------------------------------
(* Types, and what the counters have to do with each other.                *)

Call == [at : {"idle", "asked", "answered"}, tier : Tier, effective : Tier,
         usage : 0..MaxUsage]

\* A call is charged to the dearest tier only when it is charged at all.
BudgetShape ==
    /\ used \in Nat /\ highSpend \in Nat /\ highSpend =< used
    /\ ask \in [Callers -> Call]

BudgetInv == BudgetShape /\ SpendBounded /\ DearTierBounded

\* client.py, _DEGRADE_TIER: no tier degrades to the dearest.
LEMMA DegradedIsCheaper ==
    ASSUME NEW tier \in Tier
    PROVE  DEGRADE_TIER[tier] \in Tier /\ DEGRADE_TIER[tier] # "high"
  BY DEF Tier, DEGRADE_TIER

\* How much n calls can use, and one call more or less.
LEMMA UseOfCalls ==
    ASSUME NEW n \in Nat, NEW m \in Nat, n =< m
    PROVE  /\ MaxUsage * n \in Nat /\ MaxUsage * m \in Nat /\ MaxUsage * n =< MaxUsage * m
           /\ MaxUsage * (n + 1) = MaxUsage * n + MaxUsage
           /\ n > 0 => MaxUsage * (n - 1) = MaxUsage * n - MaxUsage
  BY BudgetAssumption

\* The sets of calls are finite, and no larger than the set of callers.
LEMMA OutstandingFinite ==
    /\ IsFiniteSet(Outstanding) /\ IsFiniteSet(OutstandingHigh)
    /\ Cardinality(Outstanding) \in Nat /\ Cardinality(OutstandingHigh) \in Nat
    /\ Cardinality(Outstanding) =< Cardinality(Callers)
    /\ Cardinality(OutstandingHigh) =< Cardinality(Callers)
    /\ Cardinality(Callers) \in Nat \ {0}
  <1>1. Outstanding \in SUBSET Callers /\ OutstandingHigh \in SUBSET Callers
    BY DEF Outstanding, OutstandingHigh
  <1>2. IsFiniteSet(Callers) /\ Callers # {}
    BY BudgetAssumption
  <1>3. /\ IsFiniteSet(Outstanding) /\ IsFiniteSet(OutstandingHigh)
        /\ Cardinality(Outstanding) =< Cardinality(Callers)
        /\ Cardinality(OutstandingHigh) =< Cardinality(Callers)
    BY <1>1, <1>2, FS_Subset
  <1>4. /\ Cardinality(Outstanding) \in Nat /\ Cardinality(OutstandingHigh) \in Nat
        /\ Cardinality(Callers) \in Nat
    BY <1>2, <1>3, FS_CardinalityType
  <1>5. Cardinality(Callers) # 0
    BY <1>2, FS_EmptySet
  <1> QED
    BY <1>3, <1>4, <1>5

\* A call that ends is outstanding no more.
LEMMA OneLess ==
    ASSUME NEW c \in Outstanding, BudgetShape, ask' = [ask EXCEPT ![c] = Idle]
    PROVE  /\ Cardinality(Outstanding) > 0
           /\ Cardinality(Outstanding') = Cardinality(Outstanding) - 1
           /\ ask[c].effective = "high" =>
                 /\ Cardinality(OutstandingHigh) > 0
                 /\ Cardinality(OutstandingHigh') = Cardinality(OutstandingHigh) - 1
           /\ ask[c].effective # "high" =>
                 Cardinality(OutstandingHigh') = Cardinality(OutstandingHigh)
  <1>1. Outstanding' = Outstanding \ {c} /\ OutstandingHigh' = OutstandingHigh \ {c}
    BY DEF BudgetShape, Outstanding, OutstandingHigh, Idle
  <1>2. c \in OutstandingHigh <=> ask[c].effective = "high"
    BY DEF OutstandingHigh
  <1>3. /\ Cardinality(Outstanding \ {c}) = Cardinality(Outstanding) - 1
        /\ Cardinality(OutstandingHigh \ {c}) = IF c \in OutstandingHigh
              THEN Cardinality(OutstandingHigh) - 1 ELSE Cardinality(OutstandingHigh)
    BY OutstandingFinite, FS_RemoveElement
  <1>4. Cardinality(Outstanding) > 0 /\ (c \in OutstandingHigh => Cardinality(OutstandingHigh) > 0)
    BY OutstandingFinite, FS_EmptySet
  <1> QED
    BY <1>1, <1>2, <1>3, <1>4

-----------------------------------------------------------------------------
(* The bounds are inductive.                                               *)

\* A fresh budget satisfies the invariant.
LEMMA BudgetInitial == BudgetInit => BudgetInv
  <1> SUFFICES ASSUME BudgetInit PROVE BudgetInv
    OBVIOUS
  <1>1. Idle \in Call
    BY BudgetAssumption DEF Idle, Call, Tier, DEGRADE_TIER
  <1>2. BudgetShape
    BY <1>1 DEF BudgetInit, BudgetShape
  <1>3. Outstanding = {} /\ OutstandingHigh = {}
    BY DEF BudgetInit, Outstanding, OutstandingHigh, Idle
  <1>4. Cardinality(Outstanding) = 0 /\ Cardinality(OutstandingHigh) = 0
    BY <1>3, FS_EmptySet
  <1>5. OneCallEach \in Nat \ {0}
    BY OutstandingFinite, BudgetAssumption DEF OneCallEach
  <1>6. MaxUsage * 0 = 0
    BY BudgetAssumption
  <1>7. SpendBounded
    BY <1>4, <1>5, <1>6, BudgetAssumption DEF SpendBounded, BudgetInit
  <1>8. DearTierBounded
    BY <1>4, <1>5, <1>6, BudgetAssumption DEF DearTierBounded, BudgetInit
  <1> QED
    BY <1>2, <1>7, <1>8 DEF BudgetInv

\* A call starts only below the limit, and on the dearest tier only below
\* the threshold: there is room for one call of every caller.
LEMMA AskKeeps ==
    ASSUME BudgetInv, NEW c \in Callers, NEW tier \in Tier, Ask(c, tier)
    PROVE  BudgetInv'
  <1> DEFINE effective == IF IsUnderPressure THEN DEGRADE_TIER[tier] ELSE tier
             new == [at |-> "asked", tier |-> tier, usage |-> 0, effective |-> effective]
  <1>1. BudgetShape /\ SpendBounded /\ DearTierBounded
    BY DEF BudgetInv
  <1>2. effective \in Tier /\ (effective = "high" => ~IsUnderPressure)
    BY DegradedIsCheaper
  <1>3. new \in Call /\ new.at = "asked" /\ new.effective = effective
    BY <1>2, BudgetAssumption DEF Call
  <1>4. ask' = [ask EXCEPT ![c] = new] /\ used' = used /\ highSpend' = highSpend
    BY DEF Ask
  <1> HIDE DEF new, effective
  <1>5. BudgetShape'
    BY <1>1, <1>3, <1>4 DEF BudgetShape
  <1>6. /\ Cardinality(Outstanding') \in Nat /\ Cardinality(OutstandingHigh') \in Nat
        /\ Cardinality(Outstanding') =< Cardinality(Callers)
        /\ Cardinality(OutstandingHigh') =< Cardinality(Callers)
        /\ Cardinality(Callers) \in Nat
    <2>1. Outstanding' \in SUBSET Callers /\ OutstandingHigh' \in SUBSET Callers
      BY DEF Outstanding, OutstandingHigh
    <2>2. IsFiniteSet(Callers)
      BY BudgetAssumption
    <2>3. /\ IsFiniteSet(Outstanding') /\ IsFiniteSet(OutstandingHigh')
          /\ Cardinality(Outstanding') =< Cardinality(Callers)
          /\ Cardinality(OutstandingHigh') =< Cardinality(Callers)
      BY <2>1, <2>2, FS_Subset
    <2> QED
      BY <2>2, <2>3, FS_CardinalityType
  <1>7. /\ MaxUsage * Cardinality(Outstanding') =< OneCallEach
        /\ MaxUsage * Cardinality(OutstandingHigh') =< OneCallEach
        /\ MaxUsage * Cardinality(Outstanding') \in Nat
        /\ MaxUsage * Cardinality(OutstandingHigh') \in Nat
        /\ OneCallEach \in Nat
    BY <1>6, UseOfCalls DEF OneCallEach
  <1>8. used \in Nat /\ highSpend \in Nat /\ highSpend =< used /\ used < Limit
    BY <1>1, BudgetAssumption DEF Ask, IsExhausted, BudgetShape
  <1>9. SpendBounded'
    BY <1>4, <1>7, <1>8, BudgetAssumption DEF SpendBounded, OneCallEach
  <1>10. DearTierBounded'
    <2>1. CASE effective = "high"
      <3>1. 10 * used < 8 * Limit
        BY <1>2, <1>8, <2>1, BudgetAssumption DEF IsUnderPressure
      <3> QED
        BY <1>4, <1>7, <1>8, <3>1, BudgetAssumption DEF DearTierBounded, OneCallEach
    <2>2. CASE effective # "high"
      <3>1. OutstandingHigh' = OutstandingHigh
        BY <1>1, <1>3, <1>4, <2>2 DEF BudgetShape, Outstanding, OutstandingHigh, Ask
      <3> QED
        BY <1>1, <1>4, <3>1 DEF DearTierBounded, OneCallEach
    <2> QED
      BY <2>1, <2>2
  <1> QED
    BY <1>5, <1>9, <1>10 DEF BudgetInv

\* An answer that arrives charges nothing yet.
LEMMA AnswerKeeps ==
    ASSUME BudgetInv, NEW c \in Callers, NEW u \in 0..MaxUsage, ProviderAnswers(c, u)
    PROVE  BudgetInv'
  <1>1. BudgetShape /\ SpendBounded /\ DearTierBounded
    BY DEF BudgetInv
  <1>2. ask' = [ask EXCEPT ![c].at = "answered", ![c].usage = u]
        /\ used' = used /\ highSpend' = highSpend
    BY DEF ProviderAnswers
  <1>3. BudgetShape'
    BY <1>1, <1>2 DEF BudgetShape, Call
  <1>4. Outstanding' = Outstanding /\ OutstandingHigh' = OutstandingHigh
    BY <1>1, <1>2 DEF BudgetShape, Call, Outstanding, OutstandingHigh, ProviderAnswers
  <1> QED
    BY <1>1, <1>2, <1>3, <1>4 DEF BudgetInv, SpendBounded, DearTierBounded, OneCallEach

\* What a call that ends adds to the books was set aside for it.
LEMMA EndKeeps ==
    ASSUME BudgetInv, NEW c \in Outstanding, NEW u \in 0..MaxUsage,
           ask' = [ask EXCEPT ![c] = Idle], used' = used + u,
           highSpend' = highSpend + (IF ask[c].effective = "high" THEN u ELSE 0)
    PROVE  BudgetInv'
  <1>1. BudgetShape /\ SpendBounded /\ DearTierBounded
    BY DEF BudgetInv
  <1>2. Idle \in Call
    BY BudgetAssumption DEF Idle, Call, Tier, DEGRADE_TIER
  <1>3. BudgetShape'
    <2>1. ask' \in [Callers -> Call]
      BY <1>1, <1>2 DEF BudgetShape
    <2>2. used \in Nat /\ highSpend \in Nat /\ highSpend =< used /\ u \in Nat
      BY <1>1, BudgetAssumption DEF BudgetShape
    <2>3. used' \in Nat /\ highSpend' \in Nat /\ highSpend' =< used'
      BY <2>2
    <2> QED
      BY <2>1, <2>3 DEF BudgetShape
  <1>4. OneCallEach \in Nat /\ MaxUsage \in Nat /\ Limit \in Nat
    BY OutstandingFinite, UseOfCalls, BudgetAssumption DEF OneCallEach
  <1> DEFINE n == Cardinality(Outstanding)
             h == Cardinality(OutstandingHigh)
  <1>5. n \in Nat /\ n > 0 /\ Cardinality(Outstanding') = n - 1
    BY <1>1, OneLess, OutstandingFinite
  <1>6. /\ h \in Nat
        /\ ask[c].effective = "high" => h > 0 /\ Cardinality(OutstandingHigh') = h - 1
        /\ ask[c].effective # "high" => Cardinality(OutstandingHigh') = h
    BY <1>1, OneLess, OutstandingFinite
  <1>7. MaxUsage * n \in Nat /\ MaxUsage * (n - 1) = MaxUsage * n - MaxUsage
    BY <1>5, UseOfCalls
  <1>8. MaxUsage * h \in Nat /\ (h > 0 => MaxUsage * (h - 1) = MaxUsage * h - MaxUsage)
    BY <1>6, UseOfCalls
  <1>9. used + MaxUsage * n < Limit + OneCallEach
    BY <1>1 DEF SpendBounded
  <1>10. 10 * (highSpend + MaxUsage * h) < 8 * Limit + 10 * OneCallEach
    BY <1>1 DEF DearTierBounded
  <1>11. used \in Nat /\ highSpend \in Nat
    BY <1>1 DEF BudgetShape
  <1> HIDE DEF n, h
  <1>12. SpendBounded'
    <2>1. used' + MaxUsage * (n - 1) < Limit + OneCallEach
      BY <1>4, <1>7, <1>9, <1>11
    <2> QED
      BY <1>5, <2>1 DEF SpendBounded, OneCallEach
  <1>13. DearTierBounded'
    <2>1. CASE ask[c].effective = "high"
      <3>1. h > 0 /\ Cardinality(OutstandingHigh') = h - 1
        BY <1>6, <2>1
      <3>2. 10 * (highSpend' + MaxUsage * (h - 1)) < 8 * Limit + 10 * OneCallEach
        BY <1>4, <1>8, <1>10, <1>11, <2>1, <3>1
      <3> QED
        BY <3>1, <3>2 DEF DearTierBounded, OneCallEach
    <2>2. CASE ask[c].effective # "high"
      <3>1. Cardinality(OutstandingHigh') = h /\ highSpend' = highSpend
        BY <1>6, <1>11, <2>2
      <3> QED
        BY <1>10, <3>1 DEF DearTierBounded, OneCallEach
    <2> QED
      BY <2>1, <2>2
  <1> QED
    BY <1>3, <1>12, <1>13 DEF BudgetInv

\* Every step of a caller keeps the bounds.
LEMMA BudgetStep == BudgetInv /\ [BudgetNext]_budgetVars => BudgetInv'
  <1> SUFFICES ASSUME BudgetInv, [BudgetNext]_budgetVars PROVE BudgetInv'
    OBVIOUS
  <1>1. ASSUME NEW c \in Callers, NEW tier \in Tier, Ask(c, tier) PROVE BudgetInv'
    BY <1>1, AskKeeps
  <1>2. ASSUME NEW c \in Callers, NEW u \in 0..MaxUsage, ProviderAnswers(c, u) PROVE BudgetInv'
    BY <1>2, AnswerKeeps
  <1>3. ASSUME NEW c \in Callers, NEW u \in 0..MaxUsage, ProviderFails(c, u) PROVE BudgetInv'
    <2>1. c \in Outstanding /\ used \in Nat /\ highSpend \in Nat /\ 0 \in 0..MaxUsage
      BY <1>3, BudgetAssumption DEF ProviderFails, Outstanding, BudgetInv, BudgetShape
    <2>2. /\ ask' = [ask EXCEPT ![c] = Idle] /\ used' = used + 0
          /\ highSpend' = highSpend + (IF ask[c].effective = "high" THEN 0 ELSE 0)
      BY <1>3, <2>1 DEF ProviderFails
    <2> QED
      BY <2>1, <2>2, EndKeeps
  <1>4. ASSUME NEW c \in Callers, NEW hasTool \in BOOLEAN, Take(c, hasTool) PROVE BudgetInv'
    <2>1. c \in Outstanding /\ ask[c].usage \in 0..MaxUsage
      BY <1>4 DEF Take, Outstanding, BudgetInv, BudgetShape, Call
    <2> QED
      BY <1>4, <2>1, EndKeeps DEF Take
  <1>5. CASE UNCHANGED budgetVars
    BY <1>5 DEF budgetVars, BudgetInv, BudgetShape, SpendBounded, DearTierBounded, OneCallEach,
                Outstanding, OutstandingHigh
  <1> QED
    BY <1>1, <1>2, <1>3, <1>4, <1>5 DEF BudgetNext

\* The inductive invariant behind the two theorems below.
LEMMA BudgetInvAlways == BudgetSpec => []BudgetInv
  BY BudgetInitial, BudgetStep, PTL DEF BudgetSpec

-----------------------------------------------------------------------------
(* Every token charged is accounted for.                                   *)

\* Only an answer that waits to be charged holds tokens.
ChargeInv ==
    /\ BudgetShape
    /\ billed \in Nat /\ lostUsage \in Nat
    /\ \A c \in Callers : ask[c].at # "answered" => ask[c].usage = 0
    /\ AnswersAreCharged

\* The tokens that the calls a hold for the callers in S.
Held(a, S) == {t \in S \X (1..MaxUsage) : t[2] =< a[t[1]].usage}

\* An answer of u tokens holds u tokens.
LEMMA TokensOfOne ==
    ASSUME NEW c, NEW u \in Nat
    PROVE  IsFiniteSet({c} \X (1..u)) /\ Cardinality({c} \X (1..u)) = u
  <1>1. IsFiniteSet({c}) /\ Cardinality({c}) = 1
    BY FS_Singleton
  <1>2. IsFiniteSet(1..u)
    BY FS_Interval
  <1>3. Cardinality(1..u) = IF 1 > u THEN 0 ELSE u - 1 + 1
    BY FS_Interval
  <1>4. Cardinality(1..u) = u
    BY <1>3
  <1>5. IsFiniteSet({c} \X (1..u))
    BY <1>1, <1>2, FS_Product
  <1>6. Cardinality({c} \X (1..u)) = Cardinality({c}) * Cardinality(1..u)
    BY <1>1, <1>2, FS_Product
  <1> QED
    BY <1>1, <1>4, <1>5, <1>6

\* What all callers hold is the usage of c and what the others hold.
LEMMA HeldSplit ==
    ASSUME NEW a \in [Callers -> Call], NEW c \in Callers
    PROVE  /\ Cardinality(Held(a, Callers \ {c})) \in Nat
           /\ Cardinality(Held(a, Callers)) = Cardinality(Held(a, Callers \ {c})) + a[c].usage
  <1> DEFINE rest == Held(a, Callers \ {c})
             own  == {c} \X (1..a[c].usage)
  <1>1. a[c].usage \in 0..MaxUsage /\ a[c].usage \in Nat
    BY BudgetAssumption DEF Call
  <1>2. IsFiniteSet(own) /\ Cardinality(own) = a[c].usage
    BY <1>1, TokensOfOne
  <1>3. IsFiniteSet(rest) /\ Cardinality(rest) \in Nat
    <2>1. IsFiniteSet(Callers) /\ IsFiniteSet(1..MaxUsage)
      BY BudgetAssumption, FS_Interval
    <2>2. IsFiniteSet(Callers \X (1..MaxUsage))
      BY <2>1, FS_Product
    <2>3. rest \in SUBSET (Callers \X (1..MaxUsage))
      BY DEF Held
    <2> QED
      BY <2>2, <2>3, FS_Subset, FS_CardinalityType
  <1>4. Held(a, Callers) = rest \cup own
    BY <1>1, BudgetAssumption DEF Held
  <1>5. rest \cap own = {}
    BY DEF Held
  <1> HIDE DEF rest, own
  <1>6. Cardinality(rest \cup own) = Cardinality(rest) + Cardinality(own) - Cardinality({})
    BY <1>2, <1>3, <1>5, FS_Union
  <1>7. Cardinality(rest \cup own) = Cardinality(rest) + a[c].usage
    BY <1>1, <1>2, <1>3, <1>6, FS_EmptySet
  <1> QED
    BY <1>3, <1>4, <1>7 DEF rest

\* A step of c moves Pending by what it does to c's usage.
LEMMA PendingMoves ==
    ASSUME BudgetShape, BudgetShape', NEW c \in Callers,
           \A d \in Callers \ {c} : ask'[d] = ask[d]
    PROVE  /\ Pending \in Nat /\ Pending' \in Nat
           /\ Pending' = Pending - ask[c].usage + ask'[c].usage
  <1>1. ask \in [Callers -> Call] /\ ask' \in [Callers -> Call]
    BY DEF BudgetShape
  <1>2. Held(ask', Callers \ {c}) = Held(ask, Callers \ {c})
    BY DEF Held
  <1>3. /\ Cardinality(Held(ask, Callers \ {c})) \in Nat
        /\ Pending = Cardinality(Held(ask, Callers \ {c})) + ask[c].usage
    BY <1>1, HeldSplit DEF Pending, PendingTokens, Held
  <1>4. Pending' = Cardinality(Held(ask', Callers \ {c})) + ask'[c].usage
    BY <1>1, HeldSplit DEF Pending, PendingTokens, Held
  <1>5. ask[c].usage \in Nat /\ ask'[c].usage \in Nat
    BY <1>1, BudgetAssumption DEF Call
  <1> QED
    BY <1>2, <1>3, <1>4, <1>5

\* Nothing is pending at the start.
LEMMA ChargeInitial == BudgetInit => ChargeInv
  <1> SUFFICES ASSUME BudgetInit PROVE ChargeInv
    OBVIOUS
  <1>1. BudgetShape
    BY BudgetInitial DEF BudgetInv
  <1>2. PendingTokens = {}
    BY BudgetAssumption DEF BudgetInit, PendingTokens, Idle
  <1>3. Pending = 0
    BY <1>2, FS_EmptySet DEF Pending
  <1> QED
    BY <1>1, <1>3 DEF BudgetInit, ChargeInv, AnswersAreCharged, Idle

\* An answer moves its tokens to Pending, a charge from there to the books.
LEMMA ChargeStep == BudgetInv /\ BudgetInv' /\ ChargeInv /\ [BudgetNext]_budgetVars => ChargeInv'
  <1> SUFFICES ASSUME BudgetInv, BudgetInv', ChargeInv, [BudgetNext]_budgetVars PROVE ChargeInv'
    OBVIOUS
  <1>1. BudgetShape /\ BudgetShape' /\ used \in Nat /\ used' \in Nat
    BY DEF BudgetInv, BudgetShape
  <1>2. /\ billed \in Nat /\ lostUsage \in Nat /\ billed = used + Pending + lostUsage
        /\ \A c \in Callers : ask[c].at # "answered" => ask[c].usage = 0
    BY DEF ChargeInv, AnswersAreCharged
  <1>3. ask \in [Callers -> Call]
    BY <1>1 DEF BudgetShape
  <1>4. ASSUME NEW c \in Callers, NEW tier \in Tier, Ask(c, tier) PROVE ChargeInv'
    <2>1. /\ \A d \in Callers \ {c} : ask'[d] = ask[d]
          /\ ask[c].usage = 0 /\ ask'[c].usage = 0
          /\ used' = used /\ billed' = billed /\ lostUsage' = lostUsage
      BY <1>2, <1>3, <1>4 DEF Ask
    <2>2. Pending \in Nat /\ Pending' \in Nat /\ Pending' = Pending - 0 + 0
      BY <1>1, <2>1, PendingMoves
    <2> QED
      BY <1>1, <1>2, <2>1, <2>2 DEF ChargeInv, AnswersAreCharged
  <1>5. ASSUME NEW c \in Callers, NEW u \in 0..MaxUsage, ProviderAnswers(c, u) PROVE ChargeInv'
    <2>1. /\ \A d \in Callers \ {c} : ask'[d] = ask[d]
          /\ ask[c].usage = 0 /\ ask'[c].usage = u /\ ask'[c].at = "answered" /\ u \in Nat
          /\ used' = used /\ billed' = billed + u /\ lostUsage' = lostUsage
      BY <1>2, <1>3, <1>5, BudgetAssumption DEF ProviderAnswers, Call
    <2>2. Pending \in Nat /\ Pending' \in Nat /\ Pending' = Pending - 0 + u
      BY <1>1, <2>1, PendingMoves
    <2> QED
      BY <1>1, <1>2, <2>1, <2>2 DEF ChargeInv, AnswersAreCharged
  <1>6. ASSUME NEW c \in Callers, NEW u \in 0..MaxUsage, ProviderFails(c, u) PROVE ChargeInv'
    <2>1. /\ \A d \in Callers \ {c} : ask'[d] = ask[d]
          /\ ask[c].usage = 0 /\ ask'[c].usage = 0 /\ u \in Nat
          /\ used' = used /\ billed' = billed + u /\ lostUsage' = lostUsage + u
      BY <1>2, <1>3, <1>6, BudgetAssumption DEF ProviderFails, Idle
    <2>2. Pending \in Nat /\ Pending' \in Nat /\ Pending' = Pending - 0 + 0
      BY <1>1, <2>1, PendingMoves
    <2> QED
      BY <1>1, <1>2, <2>1, <2>2 DEF ChargeInv, AnswersAreCharged
  <1>7. ASSUME NEW c \in Callers, NEW hasTool \in BOOLEAN, Take(c, hasTool) PROVE ChargeInv'
    <2>1. /\ \A d \in Callers \ {c} : ask'[d] = ask[d]
          /\ ask[c].usage \in Nat /\ ask'[c].usage = 0
          /\ used' = used + ask[c].usage /\ billed' = billed /\ lostUsage' = lostUsage
      BY <1>3, <1>7, BudgetAssumption DEF Take, Call, Idle
    <2>2. Pending \in Nat /\ Pending' \in Nat /\ Pending' = Pending - ask[c].usage + 0
      BY <1>1, <2>1, PendingMoves
    <2> QED
      BY <1>1, <1>2, <2>1, <2>2 DEF ChargeInv, AnswersAreCharged
  <1>8. CASE UNCHANGED budgetVars
    BY <1>8, <1>1 DEF budgetVars, ChargeInv, AnswersAreCharged, Pending, PendingTokens
  <1> QED
    BY <1>4, <1>5, <1>6, <1>7, <1>8 DEF BudgetNext

-----------------------------------------------------------------------------
(* The theorems.                                                           *)

\* LLMClient.complete_structured over one TokenBudget: the limit is passed by
\* less than one call of every coroutine, whatever they ask for and when.
THEOREM SpendIsBounded == BudgetSpec => []SpendBounded
  BY BudgetInvAlways, PTL DEF BudgetInv

\* The same for the dearest tier and the degrade threshold.
THEOREM DearTierIsBounded == BudgetSpec => []DearTierBounded
  BY BudgetInvAlways, PTL DEF BudgetInv

\* complete_structured records the usage before it looks for the tool block:
\* no token of an answer that arrived escapes the books, however the calls of
\* any number of coroutines overlap and whichever of them raise.
THEOREM AnswersAlwaysCharged == BudgetSpec => []AnswersAreCharged
  <1>1. BudgetSpec => []ChargeInv
    BY BudgetInvAlways, ChargeInitial, ChargeStep, PTL DEF BudgetSpec
  <1> QED
    BY <1>1, PTL DEF ChargeInv
=============================================================================

---------------------------- MODULE TokenBudget ----------------------------
(***************************************************************************)
(* sentinel_ai: LLMClient.complete_structured over the TokenBudget of one  *)
(* scan, called by several coroutines.  The budget is read before the call *)
(* to the provider is awaited and charged after it.                        *)
(***************************************************************************)
EXTENDS Naturals, FiniteSets

CONSTANTS
    Callers,        \* coroutines that share the client
    Limit,          \* TokenBudget.limit
    MaxUsage        \* bound: tokens of one call

ASSUME BudgetAssumption ==
    /\ IsFiniteSet(Callers) /\ Callers # {}
    /\ Limit \in Nat
    /\ MaxUsage \in Nat \ {0}

VARIABLES
    used,           \* TokenBudget.used
    ask,            \* ask[c]: the call of c: where it is, its tiers, its usage
    billed,         \* history: tokens the provider has charged
    lostUsage,      \* history: of these, tokens of answers that never arrived
    highSpend       \* history: of used, tokens of calls that ran on the high tier

budgetVars == <<used, ask, billed, lostUsage, highSpend>>

DEGRADE_TIER == [high |-> "mid", mid |-> "low", low |-> "low"]
Tier == DOMAIN DEGRADE_TIER

Idle == [at |-> "idle", tier |-> "low", effective |-> "low", usage |-> 0]

BudgetInit ==
    /\ used = 0 /\ billed = 0 /\ lostUsage = 0 /\ highSpend = 0
    /\ ask = [c \in Callers |-> Idle]

\* Mutant: the last token may be spent twice.
IsExhaustedLate == used > Limit

IsExhausted == used >= Limit

\* Mutant: the threshold itself is not yet pressure.
IsUnderPressureLate == Limit = 0 \/ used * 10 > Limit * 8

\* fraction_used() >= DEGRADE_THRESHOLD.
IsUnderPressure == Limit = 0 \/ used * 10 >= Limit * 8

\* complete_structured up to the await; an exhausted budget raises.
Ask(c, tier) ==
    /\ ask[c].at = "idle" /\ ~IsExhausted
    /\ ask' = [ask EXCEPT ![c] = [at |-> "asked", tier |-> tier, usage |-> 0,
                 effective |-> IF IsUnderPressure THEN DEGRADE_TIER[tier] ELSE tier]]
    /\ UNCHANGED <<used, billed, lostUsage, highSpend>>

\* The provider answers.
ProviderAnswers(c, u) ==
    /\ ask[c].at = "asked"
    /\ ask' = [ask EXCEPT ![c].at = "answered", ![c].usage = u]
    /\ billed' = billed + u
    /\ UNCHANGED <<used, lostUsage, highSpend>>

\* create() raises: the provider may have worked for it.
ProviderFails(c, u) ==
    /\ ask[c].at = "asked"
    /\ ask' = [ask EXCEPT ![c] = Idle]
    /\ billed' = billed + u
    /\ lostUsage' = lostUsage + u
    /\ UNCHANGED <<used, highSpend>>

\* Mutant: the tool block is extracted before the usage is recorded.
TakeExtractsFirst(c, hasTool) ==
    /\ ask[c].at = "answered"
    /\ used' = IF hasTool THEN used + ask[c].usage ELSE used
    /\ highSpend' = highSpend + IF ask[c].effective = "high" THEN ask[c].usage ELSE 0
    /\ ask' = [ask EXCEPT ![c] = Idle]
    /\ UNCHANGED <<billed, lostUsage>>

\* The rest of complete_structured: a result, or ValueError when the answer
\* has no tool_use block.
Take(c, hasTool) ==
    /\ ask[c].at = "answered"
    /\ used' = used + ask[c].usage
    /\ highSpend' = highSpend + IF ask[c].effective = "high" THEN ask[c].usage ELSE 0
    /\ ask' = [ask EXCEPT ![c] = Idle]
    /\ UNCHANGED <<billed, lostUsage>>

\* What is lost counts towards the bound of the model.
BudgetNext ==
    \E c \in Callers :
        \/ \E tier \in Tier : Ask(c, tier)
        \/ \E u \in 0..MaxUsage :
              \/ ProviderAnswers(c, u)
              \/ lostUsage + u =< MaxUsage /\ ProviderFails(c, u)
        \/ \E hasTool \in BOOLEAN : Take(c, hasTool)

BudgetSpec == BudgetInit /\ [][BudgetNext]_budgetVars

-----------------------------------------------------------------------------
(* Properties.                                                             *)

\* Calls under way, with the budget read and not yet charged.
Outstanding == {c \in Callers : ask[c].at # "idle"}
OutstandingHigh == {c \in Outstanding : ask[c].effective = "high"}

OneCallEach == MaxUsage * Cardinality(Callers)

\* budget.py: "the hard cost-control mechanism".  The check comes before the
\* await and the charge after it, so concurrent calls can pass the limit, but
\* what is spent and what the calls under way may still spend together passes
\* it by less than one call of every caller.
SpendBounded ==
    used + MaxUsage * Cardinality(Outstanding) < Limit + OneCallEach

\* client.py: under pressure a call steps down to a cheaper tier.  However
\* calls overlap, the dearest tier has taken, and may still take for the calls
\* under way, less than the threshold's share of the budget and one call of
\* every caller.
DearTierBounded ==
    10 * (highSpend + MaxUsage * Cardinality(OutstandingHigh)) < 8 * Limit + 10 * OneCallEach

\* Tokens of answers that have arrived and are about to be charged: the nth
\* token of c is the pair <<c, n>>.
PendingTokens == {t \in Callers \X (1..MaxUsage) : t[2] =< ask[t[1]].usage}
Pending == Cardinality(PendingTokens)

\* Every token the provider charged is on the books, about to be, or was
\* charged for an answer that never arrived: also when the answer turns out
\* to be useless and the call raises.
AnswersAreCharged == billed = used + Pending + lostUsage
=============================================================================

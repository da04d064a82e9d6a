----------------------------- MODULE ScopeGuard -----------------------------
(***************************************************************************)
(* sentinel_core.scope_guard as operators: ScopeGuard.evaluate and         *)
(* DestructiveActionGuard.check, and build_scope_guard, which makes a      *)
(* guard from a target and its rule rows.                                  *)
(*                                                                         *)
(* A host is the sequence of its labels in lower case without a final dot, *)
(* a path the sequence of its segments, and so is the pattern of a rule or *)
(* of an allowed host: "*.acme" is <<"*", "acme">>, the method rule DELETE *)
(* is <<"DELETE">>.  Rules cut paths at segments.  Whether a URL's path or *)
(* query matches a destructive pattern is part of the URL.                 *)
(***************************************************************************)
EXTENDS SequencesExt

PathKinds == {"path_prefix", "path_regex"}

DefaultMethods == {"GET", "HEAD", "OPTIONS", "POST", "PUT", "PATCH", "DELETE"}

NonIdempotentMethods == {"POST", "PUT", "PATCH", "DELETE"}

HostMatches(host, pattern) ==
    IF Head(pattern) = "*" THEN IsStrictSuffix(Tail(pattern), host) ELSE host = pattern

\* re.search (external) of a pattern without operators.
Search(pattern, path) ==
    \E i \in 1..Len(path) : IsPrefix(pattern, SubSeq(path, i, Len(path)))

PathRuleMatches(rule, path) ==
    \/ rule.kind = "path_prefix" /\ IsPrefix(rule.pattern, path)
    \/ rule.kind = "path_regex" /\ Search(rule.pattern, path)

Rules(guard, kinds, effect) ==
    {r \in guard.rules : r.kind \in kinds /\ r.effect = effect}

\* A method include rule replaces the default methods.
AllowedMethods(guard) ==
    LET included == {Head(r.pattern) : r \in Rules(guard, {"method"}, "include")}
    IN  IF included = {} THEN DefaultMethods ELSE included

\* Mutant: an include rule that matches settles the question.
EvaluateIncludeWins(guard, method, url) ==
    LET Hit(effect) ==
            \E r \in Rules(guard, PathKinds, effect) : PathRuleMatches(r, url.path)
    IN  IF ~guard.verified THEN "blocked_unverified_target"
        ELSE IF ~\E h \in guard.allowedHosts : HostMatches(url.host, h) THEN "blocked_host"
        ELSE IF Hit("exclude") /\ ~Hit("include") THEN "blocked_path_excluded"
        ELSE IF method \notin AllowedMethods(guard) THEN "blocked_method"
        ELSE "allowed"

\* evaluate(): the verdict, by the first check that fails.  Rules of kind
\* "host" take no part in it.
Evaluate(guard, method, url) ==
    LET Hit(effect) ==
            \E r \in Rules(guard, PathKinds, effect) : PathRuleMatches(r, url.path)
    IN  IF ~guard.verified THEN "blocked_unverified_target"
        ELSE IF ~\E h \in guard.allowedHosts : HostMatches(url.host, h) THEN "blocked_host"
        ELSE IF Hit("exclude") THEN "blocked_path_excluded"
        ELSE IF Rules(guard, PathKinds, "include") # {} /\ ~Hit("include")
             THEN "blocked_path_not_included"
        ELSE IF \/ \E r \in Rules(guard, {"method"}, "exclude") : Head(r.pattern) = method
                \/ method \notin AllowedMethods(guard)
             THEN "blocked_method"
        ELSE "allowed"

\* check() of a guard that has not been opened for writes, as every guard
\* of this milestone: nothing sets read_write_enabled.
IsSuspect(method, url) == url.destructive \/ method \in NonIdempotentMethods

\* build_scope_guard(target, scope_rules).
BuildScopeGuard(target, rules) ==
    [allowedHosts |-> {target.rootDomain, <<"*">> \o target.rootDomain},
     rules |-> rules, verified |-> target.verified]
=============================================================================

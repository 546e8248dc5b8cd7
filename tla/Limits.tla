--------------------------------- MODULE Limits ---------------------------------
(***************************************************************************)
(* The sliding window of requests in a process (RateLimiter of             *)
(* web/security.py, which services/limits.py and the login routes use).    *)
(***************************************************************************)
EXTENDS Orders, SequencesExt

CONSTANTS
  RateLimit, \* limit
  Window     \* window_seconds

ASSUME LimitsAssumption == {RateLimit, Window} \subseteq Nat

InWindow(hits, now) == Selected(hits, {i \in DOMAIN hits : now - hits[i] < Window})

(* Mutated: a refused request is a hit. *)
Check_CountsRefused(hits, now) ==
  [ok |-> Len(InWindow(hits, now)) < RateLimit, hits |-> Append(InWindow(hits, now), now)]

(* One call of check: the answer, and the hits that are left. *)
Check(hits, now) ==
  LET recent == InWindow(hits, now) IN
  IF Len(recent) >= RateLimit
  THEN [ok |-> FALSE, hits |-> recent]
  ELSE [ok |-> TRUE, hits |-> Append(recent, now)]

(* The answers to requests at the given times, in order. *)
Answered(times) ==
  LET Ask(s, t) == [hits |-> Check(s.hits, t).hits, oks |-> Append(s.oks, Check(s.hits, t).ok)] IN
  FoldLeft(Ask, [hits |-> <<>>, oks |-> <<>>], times).oks
=============================================================================

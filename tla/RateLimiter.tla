----------------------------- MODULE RateLimiter -----------------------------
(***************************************************************************)
(* The RateLimiter actor, one token bucket per plugin namespace:           *)
(* internal/metastructure/changeset/rate_limiter.go.                       *)
(*                                                                         *)
(* Time is what replenish observes of it: whether more than a second has   *)
(* passed since the bucket was last refilled.                              *)
(***************************************************************************)
EXTENDS Naturals, FiniteSets

CONSTANTS Namespaces,   \* the namespaces of the installed resource plugins
          Capacity      \* MaxRequestsPerSecond of each

ASSUME CapacityAssumption == Capacity \in [Namespaces -> Nat]

VARIABLES bucket,       \* Tokens of each namespace
          elapsed       \* more than a second has passed since LastRefill

limiterVars == <<bucket, elapsed>>

LimiterTypeOK ==
    /\ bucket \in [Namespaces -> Nat]
    /\ elapsed \in [Namespaces -> BOOLEAN]

InitLimiter ==
    /\ bucket = Capacity
    /\ elapsed = [ns \in Namespaces |-> FALSE]

\* The tokens of ns once replenish has run.
Replenished(ns) == IF elapsed[ns] THEN Capacity[ns] ELSE bucket[ns]

\* TokensGranted for a request of n tokens.
Granted(ns, n) == IF n <= Replenished(ns) THEN n ELSE Replenished(ns)

\* One RequestTokens call for each namespace in the domain of n.
RequestTokens(n) ==
    /\ bucket'  = [ns \in Namespaces |->
                     IF ns \in DOMAIN n THEN Replenished(ns) - Granted(ns, n[ns])
                                        ELSE bucket[ns]]
    /\ elapsed' = [ns \in Namespaces |-> elapsed[ns] /\ ns \notin DOMAIN n]

\* A second passes.
SecondPasses ==
    /\ \E ns \in Namespaces : ~elapsed[ns]
    /\ elapsed' = [ns \in Namespaces |-> TRUE]
    /\ UNCHANGED bucket

=============================================================================

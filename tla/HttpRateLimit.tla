---------------------------- MODULE HttpRateLimit ----------------------------
(***************************************************************************)
(* The rate limit of an HTTP endpoint: RateLimitGenerator finds the policy *)
(* of the handler, RateLimitProcessor its resolver, HttpRateLimitResolver  *)
(* keeps a bucket of timestamps per client and endpoint, and               *)
(* RateLimitGuard refuses the request. Nothing in it is awaited but the    *)
(* promise of the processor, after the decision was taken: one action.     *)
(* The clock does not go back.                                             *)
(***************************************************************************)
EXTENDS Integers, Sequences, Selection

CONSTANTS
    Clients,             \* IP addresses, of which an unknown one is a single client
    LimitedEndpoints,    \* method, path and handler
    NotGiven,            \* undefined; also the policy of an unlimited endpoint
    LimitedApplications, \* endpoint -> [method, class], the metadata of its decorators
    LimitConfigurations, \* HttpPluginOptions: [rateLimit, ttl, limit]
    DefaultTtl, DefaultLimit,
    SweepEvery,    \* 256 in the code
    Second,        \* in milliseconds
    MaxTime

VARIABLES
    limits,          \* options.rateLimit
    metadata,
    now,
    buckets,         \* partial function of keys to [timestamps, ttl]
    checkedRequests, \* modulo SweepEvery, which is all the code reads of it
    decisions,       \* key -> the decision on its last request
    retryAfter       \* key -> the Retry-After header of its last request, or NotGiven

limitVars == <<limits, metadata, now, buckets, checkedRequests, decisions, retryAfter>>

\* What @RateLimit and @NoRateLimit leave as metadata, and the plugin's options.
NoRateLimit == [disabled |-> TRUE, ttl |-> NotGiven, limit |-> NotGiven]
Given == Nat \cup {NotGiven}
Definitions == {NotGiven, NoRateLimit} \cup [disabled : {FALSE}, ttl : Given, limit : Given]

\* NotGiven is none of the values it stands in for.
RateLimitAssumptions ==
    /\ LimitConfigurations \subseteq [rateLimit : BOOLEAN, ttl : Given, limit : Given]
    /\ LimitedApplications \subseteq [LimitedEndpoints -> [method : Definitions, class : Definitions]]
    /\ DefaultTtl \in Nat /\ DefaultLimit \in Nat
    /\ NotGiven \notin Nat /\ NotGiven \notin [ttl : Nat, limit : Nat]
    /\ NotGiven \notin {NoRateLimit} \cup [disabled : {FALSE}, ttl : Given, limit : Given]

Keys == Clients \X LimitedEndpoints
NoDecision == [allowed |-> TRUE, at |-> 0, retryAfterMs |-> 0]

LimitInit ==
    /\ limits \in LimitConfigurations
    /\ metadata \in LimitedApplications
    /\ now = 0
    /\ buckets = <<>>
    /\ checkedRequests = 0
    /\ decisions = [k \in Keys |-> NoDecision]
    /\ retryAfter = [k \in Keys |-> NotGiven]

Tick ==
    /\ now < MaxTime
    /\ now' = now + 1
    /\ UNCHANGED <<limits, metadata, buckets, checkedRequests, decisions, retryAfter>>

-----------------------------------------------------------------------------
(* RateLimitGenerator.generate, of the decorators @RateLimit and           *)
(* @NoRateLimit and of the default the plugin registers.                   *)

Or(value, otherwise) == IF value = NotGiven THEN otherwise ELSE value

DefaultDefinition == [ttl |-> Or(limits.ttl, DefaultTtl), limit |-> Or(limits.limit, DefaultLimit)]

Scope(endpoint) == Or(metadata[endpoint].method, metadata[endpoint].class)

\* Without options.rateLimit the guard is removed, and no default registered.
Generate(endpoint) ==
    LET scope == Scope(endpoint) IN
    IF ~limits.rateLimit THEN NotGiven
    ELSE IF scope = NotGiven THEN DefaultDefinition
    ELSE IF scope.disabled THEN NotGiven
    ELSE [ttl |-> Or(scope.ttl, DefaultDefinition.ttl),
          limit |-> Or(scope.limit, DefaultDefinition.limit)]

-----------------------------------------------------------------------------
(* HttpRateLimitResolver.consume.                                          *)

Live(timestamps, ttl, time) == Select(timestamps, {i \in DOMAIN timestamps : timestamps[i] > time - ttl})
Larger(a, b) == IF a > b THEN a ELSE b

SetBucket(bs, key, bucket) ==
    [k \in (DOMAIN bs \cup {key}) |-> IF k = key THEN bucket ELSE bs[k]]
DeleteBuckets(bs, keys) == [k \in DOMAIN bs \ keys |-> bs[k]]

\* Not the code: for the mutants.
RemoveWithTtlOf(bs, ttl) ==
    LET cleaned == [k \in DOMAIN bs |-> [bs[k] EXCEPT !.timestamps = Live(@, ttl, now)]] IN
    DeleteBuckets(cleaned, {k \in DOMAIN bs : cleaned[k].timestamps = <<>>})

\* Each bucket by the ttl of its last request, whatever the current one is.
RemoveExpiredBuckets(bs, ttl) ==
    LET cleaned == [k \in DOMAIN bs |-> [bs[k] EXCEPT !.timestamps = Live(@, bs[k].ttl, now)]] IN
    DeleteBuckets(cleaned, {k \in DOMAIN bs : cleaned[k].timestamps = <<>>})

RetryAfterMs(timestamps, ttl) ==
    IF timestamps = <<>> THEN Larger(ttl, 0) ELSE Larger(Head(timestamps) + ttl - now, 0)

CeilSeconds(ms) == (ms + Second - 1) \div Second
Header(ms) == Larger(1, CeilSeconds(ms))

Consume(key, ttl, limit) ==
    LET kept == IF key \in DOMAIN buckets THEN Live(buckets[key].timestamps, ttl, now) ELSE <<>>
        refused == limit <= 0 \/ Len(kept) >= limit
        timestamps == IF refused THEN kept ELSE Append(kept, now)
        stored == IF timestamps = <<>> THEN DeleteBuckets(buckets, {key})
                  ELSE SetBucket(buckets, key, [timestamps |-> timestamps, ttl |-> ttl])
        wait == IF refused THEN RetryAfterMs(kept, ttl) ELSE 0 IN
    /\ checkedRequests' = (checkedRequests + 1) % SweepEvery
    /\ buckets' = IF checkedRequests' = 0 THEN RemoveExpiredBuckets(stored, ttl) ELSE stored
    /\ decisions' = [decisions EXCEPT ![key] =
                        [allowed |-> ~refused, at |-> now, retryAfterMs |-> wait]]
    /\ retryAfter' = [retryAfter EXCEPT ![key] = IF refused THEN Header(wait) ELSE NotGiven]

\* RateLimitGuard.failedCheckRateLimit: a refused request is answered with 429
\* and its Retry-After header, an endpoint without a policy is not counted.
CheckRateLimit(client, endpoint) ==
    LET definition == Generate(endpoint) IN
    /\ \/ /\ definition # NotGiven
          /\ Consume(<<client, endpoint>>, definition.ttl, definition.limit)
       \/ /\ definition = NotGiven
          /\ decisions' = [decisions EXCEPT ![<<client, endpoint>>] =
                                [allowed |-> TRUE, at |-> now, retryAfterMs |-> 0]]
          /\ retryAfter' = [retryAfter EXCEPT ![<<client, endpoint>>] = NotGiven]
          /\ UNCHANGED <<buckets, checkedRequests>>
    /\ UNCHANGED <<limits, metadata, now>>

LimitNext == Tick \/ \E client \in Clients, endpoint \in LimitedEndpoints : CheckRateLimit(client, endpoint)

LimitSpec == LimitInit /\ [][LimitNext]_limitVars

-----------------------------------------------------------------------------
(* Properties.                                                             *)

\* The policy of an endpoint as the documentation of the decorators has it:
\* that of the method, else of the class, else the default.
Policy(endpoint) ==
    LET m == metadata[endpoint].method
        c == metadata[endpoint].class
        Filled(s) == [ttl |-> Or(s.ttl, DefaultDefinition.ttl), limit |-> Or(s.limit, DefaultDefinition.limit)] IN
    IF ~limits.rateLimit \/ m = NoRateLimit \/ (m = NotGiven /\ c = NoRateLimit) THEN NotGiven
    ELSE IF m # NotGiven THEN Filled(m)
    ELSE IF c # NotGiven THEN Filled(c) ELSE DefaultDefinition

Window(key) ==
    IF key \in DOMAIN buckets THEN Live(buckets[key].timestamps, buckets[key].ttl, now) ELSE <<>>

Abstract == INSTANCE SlidingWindow
    WITH Unlimited <- NotGiven, policies <- [k \in Keys |-> Policy(k[2])],
         window <- [k \in Keys |-> Window(k)]

\* The buckets, cleaned only when they are used or swept, decide every request
\* of every key as a sliding window does that forgets at once: no sweep, no
\* request of another client, no other policy ever changes a decision.
ImplementsSlidingWindow == Abstract!Spec
=============================================================================

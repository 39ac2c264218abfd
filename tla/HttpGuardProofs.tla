---------------------------- MODULE HttpGuardProofs ----------------------------
(***************************************************************************)
(* HttpRateLimit implements SlidingWindow, for any clients, endpoints,     *)
(* policies and times: the buckets, which keep expired timestamps until a  *)
(* request or a sweep removes them, decide as a window does that forgets   *)
(* at once.                                                                *)
(*                                                                         *)
(* And what HttpUpload exposes to a handler is the whole request, for any  *)
(* limits, parts and order of the parser's events.                         *)
(*                                                                         *)
(* And of the routes of one path, the one that HttpRouting picks matches   *)
(* the request best, for any controllers, hosts, versions and requests.    *)
(*                                                                         *)
(* What filter does to a sequence is proved by induction on its length     *)
(* (SelectionProofs).                                                      *)
(***************************************************************************)
EXTENDS HttpRateLimit, HttpRouting, HttpUpload, SelectionProofs, FiniteSetTheorems

-----------------------------------------------------------------------------
(* Live, what is left of the timestamps.                                   *)

LEMMA LiveEmpty ==
    ASSUME NEW ttl, NEW time PROVE Live(<<>>, ttl, time) = <<>>
BY SelectEmpty DEF Live

LEMMA LiveAppend ==
    ASSUME NEW ts \in Seq(Nat), NEW x \in Nat, NEW ttl \in Nat, NEW time \in Nat
    PROVE  Live(Append(ts, x), ttl, time) =
               IF x > time - ttl THEN Append(Live(ts, ttl, time), x) ELSE Live(ts, ttl, time)
<1>. DEFINE us == Append(ts, x)
            I == {i \in DOMAIN us : us[i] > time - ttl}
            J == {i \in DOMAIN ts : ts[i] > time - ttl}
<1>1. /\ DOMAIN us = 1 .. Len(ts) + 1 /\ us[Len(ts) + 1] = x /\ Len(ts) \in Nat /\ DOMAIN ts = 1 .. Len(ts)
      /\ \A i \in 1 .. Len(ts) : us[i] = ts[i]
  OBVIOUS
<1>2. (\A i \in 1 .. Len(ts) : i \in I <=> i \in J) /\ (Len(ts) + 1 \in I <=> x > time - ttl)
  BY <1>1
<1>3. Live(us, ttl, time) = Select(us, I) /\ Live(ts, ttl, time) = Select(ts, J)
  BY DEF Live
<1>. HIDE DEF I, J
<1>. QED  BY <1>2, <1>3, SelectAppend

\* A later look finds the same, whether the expired ones were removed before or not,
\* and what is left are live timestamps.
LEMMA LiveProperties ==
    ASSUME NEW ttl \in Nat, NEW time \in Nat, NEW later \in Nat, time <= later, NEW ts \in Seq(Nat)
    PROVE  /\ Live(ts, ttl, time) \in Seq(Nat)
           /\ \A i \in 1 .. Len(Live(ts, ttl, time)) : Live(ts, ttl, time)[i] > time - ttl
           /\ Live(Live(ts, ttl, time), ttl, later) = Live(ts, ttl, later)
<1>. DEFINE Holds(s) ==
              /\ Live(s, ttl, time) \in Seq(Nat)
              /\ \A i \in 1 .. Len(Live(s, ttl, time)) : Live(s, ttl, time)[i] > time - ttl
              /\ Live(Live(s, ttl, time), ttl, later) = Live(s, ttl, later)
            T == {s \in Seq(Nat) : Holds(s)}
<1>1. <<>> \in T
  <2>1. PICK s : s = <<>>
    OBVIOUS
  <2>2. Live(s, ttl, time) = s /\ Live(s, ttl, later) = s
    BY <2>1, LiveEmpty
  <2>3. s \in Seq(Nat) /\ 1 .. Len(s) = {}
    BY <2>1
  <2>4. Holds(s)
    BY <2>2, <2>3
  <2>. QED  BY <2>1, <2>3, <2>4
<1>2. ASSUME NEW s \in T, NEW x \in Nat PROVE Append(s, x) \in T
  <2>1. Append(s, x) \in Seq(Nat) /\ s \in Seq(Nat)
    OBVIOUS
  <2>. DEFINE kept == Live(s, ttl, time)
  <2>2. kept \in Seq(Nat) /\ (\A i \in 1 .. Len(kept) : kept[i] > time - ttl)
          /\ Live(kept, ttl, later) = Live(s, ttl, later)
    OBVIOUS
  <2>. HIDE DEF kept
  <2>3. Live(Append(s, x), ttl, later) =
          IF x > later - ttl THEN Append(Live(s, ttl, later), x) ELSE Live(s, ttl, later)
    BY <2>1, LiveAppend
  <2>4. CASE x > time - ttl
    <3>1. Live(Append(s, x), ttl, time) = Append(kept, x)
      BY <2>1, <2>4, LiveAppend DEF kept
    <3>2. Live(Append(kept, x), ttl, later) =
            IF x > later - ttl THEN Append(Live(kept, ttl, later), x) ELSE Live(kept, ttl, later)
      BY <2>2, LiveAppend
    <3>3. Append(kept, x) \in Seq(Nat) /\ \A i \in 1 .. Len(Append(kept, x)) : Append(kept, x)[i] > time - ttl
      BY <2>2, <2>4
    <3>4. Holds(Append(s, x))
      BY <2>2, <2>3, <3>1, <3>2, <3>3
    <3>. QED  BY <2>1, <3>4
  <2>5. CASE ~(x > time - ttl)
    <3>1. Live(Append(s, x), ttl, time) = kept /\ ~(x > later - ttl)
      BY <2>1, <2>5, LiveAppend DEF kept
    <3>2. Holds(Append(s, x))
      BY <2>2, <2>3, <3>1
    <3>. QED  BY <2>1, <3>2
  <2>. QED  BY <2>4, <2>5
<1>3. T \in SUBSET Seq(Nat)
  OBVIOUS
<1>. HIDE DEF T
<1>4. T = Seq(Nat)
  BY <1>1, <1>2, <1>3, SequenceInduction
<1>. QED  BY <1>4 DEF T

\* SlidingWindow counts from the timestamp, the code from the present.
LEMMA LiveIsAbstract ==
    ASSUME NEW ts \in Seq(Nat), NEW ttl \in Nat, NEW time \in Nat
    PROVE  Abstract!Live(ts, ttl, time) = Live(ts, ttl, time)
<1>1. DOMAIN ts = 1 .. Len(ts) /\ \A i \in 1 .. Len(ts) : ts[i] \in Nat
  OBVIOUS
<1>2. {i \in DOMAIN ts : ts[i] + ttl > time} = {i \in DOMAIN ts : ts[i] > time - ttl}
  BY <1>1
<1>3. PICK I : I = {i \in DOMAIN ts : ts[i] > time - ttl}
  OBVIOUS
<1>4. Abstract!Select(ts, I) = Select(ts, I)
  BY Zenon DEF Select, Abstract!Select
<1>. QED  BY <1>2, <1>3, <1>4 DEF Live, Abstract!Live

-----------------------------------------------------------------------------
(* Policies.                                                               *)

Limited == [ttl : Nat, limit : Nat]

ConfigurationInv ==
    /\ limits \in LimitConfigurations
    /\ metadata \in LimitedApplications

\* RateLimitGenerator finds the policy the decorators promise.
LEMMA PolicyFound ==
    ASSUME RateLimitAssumptions, ConfigurationInv, NEW e \in LimitedEndpoints
    PROVE  /\ Generate(e) = Policy(e)
           /\ Policy(e) = NotGiven \/ Policy(e) \in Limited
           /\ NotGiven \notin Limited
<1>. DEFINE m == metadata[e].method
            c == metadata[e].class
<1>1. m \in Definitions /\ c \in Definitions
  BY DEF RateLimitAssumptions, ConfigurationInv
<1>2. limits.ttl \in Given /\ limits.limit \in Given /\ limits.rateLimit \in BOOLEAN
  BY DEF RateLimitAssumptions, ConfigurationInv
<1>3. DefaultDefinition \in Limited
  BY <1>2 DEF DefaultDefinition, Or, Given, Limited, RateLimitAssumptions
<1>4. ASSUME NEW s \in Definitions, s # NotGiven, s # NoRateLimit
      PROVE  /\ ~s.disabled
             /\ [ttl |-> Or(s.ttl, DefaultDefinition.ttl),
                 limit |-> Or(s.limit, DefaultDefinition.limit)] \in Limited
  <2>1. s \in [disabled : {FALSE}, ttl : Given, limit : Given]
    BY <1>4 DEF Definitions
  <2>2. ~s.disabled /\ s.ttl \in Given /\ s.limit \in Given
    BY <2>1
  <2>. QED  BY <1>3, <2>2 DEF Or, Given, Limited
<1>5. NoRateLimit.disabled
  BY DEF NoRateLimit
<1>6. NotGiven # NoRateLimit /\ NotGiven \notin Limited
  BY DEF RateLimitAssumptions, Limited
<1>7. Scope(e) = IF m = NotGiven THEN c ELSE m
  BY DEF Scope, Or
<1>. HIDE DEF m, c
<1>8. CASE ~limits.rateLimit
  BY <1>6, <1>8 DEF Generate, Policy
<1>9. CASE limits.rateLimit /\ m = NoRateLimit
  <2>1. Generate(e) = NotGiven
    BY <1>5, <1>6, <1>7, <1>9 DEF Generate
  <2>2. Policy(e) = NotGiven
    BY <1>9 DEF Policy, m
  <2>. QED  BY <1>6, <2>1, <2>2
<1>10. CASE limits.rateLimit /\ m # NoRateLimit /\ m # NotGiven
  <2>1. Generate(e) = [ttl |-> Or(m.ttl, DefaultDefinition.ttl), limit |-> Or(m.limit, DefaultDefinition.limit)]
    BY <1>1, <1>4, <1>7, <1>10 DEF Generate
  <2>2. Policy(e) = [ttl |-> Or(m.ttl, DefaultDefinition.ttl), limit |-> Or(m.limit, DefaultDefinition.limit)]
    BY <1>10 DEF Policy, m
  <2>. QED  BY <1>1, <1>4, <1>6, <1>10, <2>1, <2>2
<1>11. CASE limits.rateLimit /\ m = NotGiven /\ c = NotGiven
  <2>1. Generate(e) = DefaultDefinition
    BY <1>7, <1>11 DEF Generate
  <2>2. Policy(e) = DefaultDefinition
    BY <1>6, <1>11 DEF Policy, m, c
  <2>. QED  BY <1>3, <1>6, <2>1, <2>2
<1>12. CASE limits.rateLimit /\ m = NotGiven /\ c = NoRateLimit
  <2>1. Generate(e) = NotGiven
    BY <1>5, <1>6, <1>7, <1>12 DEF Generate
  <2>2. Policy(e) = NotGiven
    BY <1>12 DEF Policy, m, c
  <2>. QED  BY <1>6, <2>1, <2>2
<1>13. CASE limits.rateLimit /\ m = NotGiven /\ c # NotGiven /\ c # NoRateLimit
  <2>1. Generate(e) = [ttl |-> Or(c.ttl, DefaultDefinition.ttl), limit |-> Or(c.limit, DefaultDefinition.limit)]
    BY <1>1, <1>4, <1>7, <1>13 DEF Generate
  <2>2. Policy(e) = [ttl |-> Or(c.ttl, DefaultDefinition.ttl), limit |-> Or(c.limit, DefaultDefinition.limit)]
    BY <1>6, <1>13 DEF Policy, m, c
  <2>. QED  BY <1>1, <1>4, <1>6, <1>13, <2>1, <2>2
<1>. QED  BY <1>8, <1>9, <1>10, <1>11, <1>12, <1>13

-----------------------------------------------------------------------------
(* Buckets.                                                                *)

\* A bucket belongs to an endpoint with a policy, and has the ttl of it.
AreBuckets(bs) ==
    /\ DOMAIN bs \subseteq Keys
    /\ \A k \in DOMAIN bs : /\ Policy(k[2]) \in Limited
                            /\ bs[k] \in [timestamps : Seq(Nat), ttl : {Policy(k[2]).ttl}]

WindowIn(bs, key, time) ==
    IF key \in DOMAIN bs THEN Live(bs[key].timestamps, bs[key].ttl, time) ELSE <<>>

\* What a request leaves in the buckets.
Stored(bs, key, timestamps, ttl) ==
    IF timestamps = <<>> THEN DeleteBuckets(bs, {key})
    ELSE SetBucket(bs, key, [timestamps |-> timestamps, ttl |-> ttl])

\* A sweep takes nothing out of a window.
LEMMA SweepKeepsWindows ==
    ASSUME now \in Nat, NEW bs, AreBuckets(bs), NEW ttl
    PROVE  /\ AreBuckets(RemoveExpiredBuckets(bs, ttl))
           /\ \A k \in Keys : WindowIn(RemoveExpiredBuckets(bs, ttl), k, now) = WindowIn(bs, k, now)
<1>. DEFINE left(k) == Live(bs[k].timestamps, bs[k].ttl, now)
<1>1. PICK swept : swept = RemoveExpiredBuckets(bs, ttl)
  OBVIOUS
<1>2. ASSUME NEW k \in DOMAIN bs
      PROVE  /\ bs[k].ttl \in Nat /\ bs[k].timestamps \in Seq(Nat)
             /\ bs[k].ttl = Policy(k[2]).ttl
             /\ left(k) \in Seq(Nat) /\ Live(left(k), bs[k].ttl, now) = left(k)
             /\ [bs[k] EXCEPT !.timestamps = left(k)] = [timestamps |-> left(k), ttl |-> bs[k].ttl]
  <2>1. bs[k] \in [timestamps : Seq(Nat), ttl : {Policy(k[2]).ttl}] /\ Policy(k[2]).ttl \in Nat
    BY DEF AreBuckets, Limited
  <2>2. bs[k].ttl \in Nat /\ bs[k].timestamps \in Seq(Nat) /\ bs[k].ttl = Policy(k[2]).ttl
    BY <2>1
  <2>3. left(k) \in Seq(Nat) /\ Live(left(k), bs[k].ttl, now) = left(k)
    BY <2>2, LiveProperties
  <2>. HIDE DEF left
  <2>4. [bs[k] EXCEPT !.timestamps = left(k)] = [timestamps |-> left(k), ttl |-> bs[k].ttl]
    BY <2>1
  <2>. QED  BY <2>2, <2>3, <2>4
<1>3. /\ DOMAIN swept = {k \in DOMAIN bs : left(k) # <<>>}
      /\ \A k \in DOMAIN swept : swept[k] = [timestamps |-> left(k), ttl |-> bs[k].ttl]
  <2>1. PICK cleaned : cleaned = [k \in DOMAIN bs |-> [bs[k] EXCEPT !.timestamps = left(k)]]
    OBVIOUS
  <2>2. swept = DeleteBuckets(cleaned, {k \in DOMAIN bs : cleaned[k].timestamps = <<>>})
    BY <1>1, <2>1 DEF RemoveExpiredBuckets
  <2>. HIDE DEF left
  <2>3. DOMAIN cleaned = DOMAIN bs
        /\ \A k \in DOMAIN bs : cleaned[k] = [timestamps |-> left(k), ttl |-> bs[k].ttl]
    BY <1>2, <2>1
  <2>. QED  BY <2>2, <2>3 DEF DeleteBuckets
<1>. HIDE DEF left
<1>4. AreBuckets(swept)
  <2>1. DOMAIN swept \subseteq Keys
    BY <1>3 DEF AreBuckets
  <2>2. ASSUME NEW k \in DOMAIN swept
        PROVE  Policy(k[2]) \in Limited /\ swept[k] \in [timestamps : Seq(Nat), ttl : {Policy(k[2]).ttl}]
    <3>1. k \in DOMAIN bs /\ swept[k] = [timestamps |-> left(k), ttl |-> bs[k].ttl]
      BY <1>3
    <3>2. Policy(k[2]) \in Limited
      BY <3>1 DEF AreBuckets
    <3>. QED  BY <1>2, <3>1, <3>2
  <2>. QED  BY <2>1, <2>2 DEF AreBuckets
<1>5. ASSUME NEW k \in Keys PROVE WindowIn(swept, k, now) = WindowIn(bs, k, now)
  <2>1. CASE k \in DOMAIN swept
    <3>1. k \in DOMAIN bs /\ swept[k].timestamps = left(k) /\ swept[k].ttl = bs[k].ttl
      BY <1>3, <2>1
    <3>2. Live(left(k), bs[k].ttl, now) = left(k)
      BY <1>2, <3>1
    <3>. QED  BY <2>1, <3>1, <3>2 DEF WindowIn, left
  <2>2. CASE k \notin DOMAIN swept
    <3>1. k \notin DOMAIN bs \/ left(k) = <<>>
      BY <1>3, <2>2
    <3>. QED  BY <2>2, <3>1 DEF WindowIn, left
  <2>. QED  BY <2>1, <2>2
<1>. QED  BY <1>1, <1>4, <1>5

\* A request changes the window of its own key only.
LEMMA StoredWindows ==
    ASSUME NEW bs, AreBuckets(bs), NEW key \in Keys, Policy(key[2]) \in Limited,
           NEW ts \in Seq(Nat), NEW stored, stored = Stored(bs, key, ts, Policy(key[2]).ttl)
    PROVE  /\ AreBuckets(stored)
           /\ WindowIn(stored, key, now) = Live(ts, Policy(key[2]).ttl, now)
           /\ \A k \in Keys \ {key} : WindowIn(stored, k, now) = WindowIn(bs, k, now)
<1>1. CASE ts = <<>>
  <2>1. DOMAIN stored = DOMAIN bs \ {key} /\ \A k \in DOMAIN stored : stored[k] = bs[k]
    BY <1>1 DEF Stored, DeleteBuckets
  <2>2. Live(ts, Policy(key[2]).ttl, now) = <<>>
    BY <1>1, LiveEmpty
  <2>. QED  BY <2>1, <2>2 DEF AreBuckets, WindowIn
<1>2. CASE ts # <<>>
  <2>1. /\ DOMAIN stored = DOMAIN bs \cup {key}
        /\ stored[key] = [timestamps |-> ts, ttl |-> Policy(key[2]).ttl]
        /\ \A k \in DOMAIN bs \ {key} : stored[k] = bs[k]
    BY <1>2 DEF Stored, SetBucket
  <2>2. stored[key].timestamps = ts /\ stored[key].ttl = Policy(key[2]).ttl
        /\ stored[key] \in [timestamps : Seq(Nat), ttl : {Policy(key[2]).ttl}]
    BY <2>1
  <2>3. AreBuckets(stored)
    BY <2>1, <2>2 DEF AreBuckets
  <2>4. WindowIn(stored, key, now) = Live(ts, Policy(key[2]).ttl, now)
    BY <2>1, <2>2 DEF WindowIn
  <2>5. \A k \in Keys \ {key} : WindowIn(stored, k, now) = WindowIn(bs, k, now)
    BY <2>1 DEF WindowIn
  <2>. QED  BY <2>3, <2>4, <2>5
<1>. QED  BY <1>1, <1>2

-----------------------------------------------------------------------------
(* The invariant, and the steps.                                           *)

RateLimitInv == ConfigurationInv /\ now \in Nat /\ AreBuckets(buckets)

LEMMA PolicyStays ==
    ASSUME UNCHANGED <<limits, metadata>>
    PROVE  /\ \A e \in LimitedEndpoints : Policy(e)' = Policy(e)
           /\ ConfigurationInv' <=> ConfigurationInv
           /\ \A bs : AreBuckets(bs)' <=> AreBuckets(bs)
<1>1. \A e \in LimitedEndpoints : Policy(e)' = Policy(e)
  BY DEF Policy, DefaultDefinition, Or
<1>2. \A k \in Keys : k[2] \in LimitedEndpoints
  BY DEF Keys
<1>. QED  BY <1>1, <1>2 DEF ConfigurationInv, AreBuckets

\* What Consume decides, and which window it changes.
LEMMA ConsumeSteps ==
    ASSUME RateLimitInv, NEW key \in Keys, Policy(key[2]) \in Limited,
           Consume(key, Policy(key[2]).ttl, Policy(key[2]).limit)
    PROVE  LET policy == Policy(key[2])
               window == Window(key) IN
           \E new :
           /\ buckets' = new /\ AreBuckets(new)
           /\ \A k \in Keys \ {key} : WindowIn(new, k, now) = Window(k)
           /\ \/ /\ Len(window) < policy.limit
                 /\ WindowIn(new, key, now) = Abstract!Live(Append(window, now), policy.ttl, now)
                 /\ Abstract!Decide(key, TRUE, 0)
              \/ /\ Len(window) >= policy.limit
                 /\ WindowIn(new, key, now) = window
                 /\ Abstract!Decide(key, FALSE, IF window = <<>> THEN policy.ttl
                                                ELSE Head(window) + policy.ttl - now)
<1>1. PICK ttl \in Nat, limit \in Nat : ttl = Policy(key[2]).ttl /\ limit = Policy(key[2]).limit
  BY DEF Limited
<1>2. now \in Nat /\ AreBuckets(buckets)
  BY DEF RateLimitInv
<1>3. PICK kept : kept = IF key \in DOMAIN buckets THEN Live(buckets[key].timestamps, ttl, now) ELSE <<>>
  OBVIOUS
<1>4. /\ kept = Window(key) /\ kept \in Seq(Nat)
      /\ \A i \in 1 .. Len(kept) : kept[i] > now - ttl
      /\ Live(kept, ttl, now) = kept
  <2>1. CASE key \in DOMAIN buckets
    <3>1. buckets[key].timestamps \in Seq(Nat) /\ buckets[key].ttl = ttl
      BY <1>1, <1>2, <2>1 DEF AreBuckets
    <3>. QED  BY <1>1, <1>2, <1>3, <2>1, <3>1, LiveProperties DEF Window
  <2>2. CASE key \notin DOMAIN buckets
    <3>1. kept = <<>> /\ Window(key) = <<>>
      BY <1>3, <2>2 DEF Window
    <3>2. Live(kept, ttl, now) = kept
      BY <3>1, LiveEmpty
    <3>. QED  BY <3>1, <3>2
  <2>. QED  BY <2>1, <2>2
<1>5. PICK refused \in BOOLEAN : refused <=> Len(kept) >= limit
  <2>1. TRUE \in BOOLEAN /\ FALSE \in BOOLEAN
    OBVIOUS
  <2>. QED  BY Zenon, <2>1
<1>6. refused = (limit <= 0 \/ Len(kept) >= limit)
  BY <1>1, <1>4, <1>5
<1>7. PICK ts : ts = IF refused THEN kept ELSE Append(kept, now)
  OBVIOUS
<1>8. ts \in Seq(Nat)
  BY <1>2, <1>4, <1>7
<1>9. PICK stored : stored = Stored(buckets, key, ts, ttl)
  OBVIOUS
<1>10. PICK wait : wait = IF refused THEN RetryAfterMs(kept, ttl) ELSE 0
  OBVIOUS
<1>11. /\ buckets' = stored \/ buckets' = RemoveExpiredBuckets(stored, ttl)
       /\ Abstract!Decide(key, ~refused, wait)
  BY <1>1, <1>3, <1>6, <1>7, <1>9, <1>10 DEF Consume, Stored, Abstract!Decide
<1>12. /\ AreBuckets(stored)
       /\ WindowIn(stored, key, now) = Live(ts, ttl, now)
       /\ \A k \in Keys \ {key} : WindowIn(stored, k, now) = Window(k)
  <2>1. \A k \in Keys : WindowIn(buckets, k, now) = Window(k)
    BY DEF WindowIn, Window
  <2>. QED  BY <1>1, <1>2, <1>8, <1>9, <2>1, StoredWindows
<1>13. PICK new : new = buckets'
  OBVIOUS
<1>14. /\ AreBuckets(new)
       /\ WindowIn(new, key, now) = Live(ts, ttl, now)
       /\ \A k \in Keys \ {key} : WindowIn(new, k, now) = Window(k)
  BY <1>2, <1>11, <1>12, <1>13, SweepKeepsWindows
<1>15. CASE ~refused
  <2>1. Len(kept) < limit /\ ts = Append(kept, now) /\ wait = 0
    <3>1. ~(Len(kept) >= limit) /\ Len(kept) \in Nat
      BY <1>4, <1>5, <1>15
    <3>. QED  BY <1>1, <1>7, <1>10, <1>15, <3>1
  <2>2. Live(ts, ttl, now) = Abstract!Live(ts, ttl, now)
    BY <1>1, <1>2, <1>8, LiveIsAbstract
  <2>3. Abstract!Decide(key, TRUE, 0)
    BY <1>11, <1>15, <2>1
  <2>. QED  BY <1>1, <1>4, <1>13, <1>14, <2>1, <2>2, <2>3
<1>16. CASE refused
  <2>1. Len(kept) >= limit /\ ts = kept /\ wait = RetryAfterMs(kept, ttl)
    BY <1>5, <1>7, <1>10, <1>16
  <2>2. wait = IF kept = <<>> THEN ttl ELSE Head(kept) + ttl - now
    <3>1. CASE kept = <<>>
      BY <1>1, <2>1, <3>1 DEF RetryAfterMs, Larger
    <3>2. CASE kept # <<>>
      <4>1. Head(kept) = kept[1] /\ 1 \in 1 .. Len(kept) /\ Head(kept) \in Nat
        BY <1>4, <3>2
      <4>2. Head(kept) + ttl - now > 0
        BY <1>1, <1>2, <1>4, <4>1
      <4>. QED  BY <1>1, <1>2, <2>1, <3>2, <4>1, <4>2 DEF RetryAfterMs, Larger
    <3>. QED  BY <3>1, <3>2
  <2>3. Abstract!Decide(key, FALSE, IF kept = <<>> THEN ttl ELSE Head(kept) + ttl - now)
    BY <1>11, <1>16, <2>2
  <2>. QED  BY <1>1, <1>4, <1>13, <1>14, <2>1, <2>3
<1>. QED  BY <1>15, <1>16

LEMMA RateLimitInit ==
    ASSUME RateLimitAssumptions, LimitInit PROVE RateLimitInv /\ Abstract!Init
<1>1. RateLimitInv
  BY DEF LimitInit, RateLimitInv, ConfigurationInv, AreBuckets
<1>2. [k \in Keys |-> Policy(k[2])] \in [Keys -> [ttl : Nat, limit : Nat] \cup {NotGiven}]
  <2>1. \A k \in Keys : k[2] \in LimitedEndpoints
    BY DEF Keys
  <2>. QED  BY <1>1, <2>1, PolicyFound DEF RateLimitInv, Limited
<1>3. [k \in Keys |-> Window(k)] = [k \in Keys |-> <<>>]
  BY DEF LimitInit, Window
<1>4. Abstract!NoDecision = NoDecision
  BY DEF NoDecision, Abstract!NoDecision
<1>. QED  BY <1>1, <1>2, <1>3, <1>4 DEF LimitInit, Abstract!Init

LEMMA TickStep ==
    ASSUME RateLimitAssumptions, RateLimitInv, Tick
    PROVE  RateLimitInv' /\ Abstract!Tick
<1>1. UNCHANGED <<limits, metadata, buckets, decisions>> /\ now < MaxTime /\ now' = now + 1
  BY DEF Tick
<1>2. now \in Nat /\ now' \in Nat /\ now <= now' /\ AreBuckets(buckets) /\ ConfigurationInv
  BY <1>1 DEF RateLimitInv
<1>3. RateLimitInv'
  BY <1>1, <1>2, PolicyStays DEF RateLimitInv
<1>4. [k \in Keys |-> Policy(k[2])]' = [k \in Keys |-> Policy(k[2])]
  <2>1. \A k \in Keys : k[2] \in LimitedEndpoints
    BY DEF Keys
  <2>. QED  BY <1>1, <2>1, PolicyStays
<1>5. ASSUME NEW k \in Keys
      PROVE  Window(k)' = IF Policy(k[2]) = NotGiven THEN Window(k)
                          ELSE Abstract!Live(Window(k), Policy(k[2]).ttl, now')
  <2>0. k[2] \in LimitedEndpoints
    BY DEF Keys
  <2>1. CASE k \in DOMAIN buckets
    <3>1. PICK ts \in Seq(Nat), ttl \in Nat :
             ts = buckets[k].timestamps /\ ttl = buckets[k].ttl /\ ttl = Policy(k[2]).ttl
      BY <1>2, <2>1 DEF AreBuckets, Limited
    <3>2. Policy(k[2]) # NotGiven
      BY <1>2, <2>0, <2>1, PolicyFound DEF AreBuckets
    <3>3. Window(k) = Live(ts, ttl, now) /\ Window(k)' = Live(ts, ttl, now')
      BY <1>1, <2>1, <3>1 DEF Window
    <3>4. Live(ts, ttl, now) \in Seq(Nat) /\ Live(Live(ts, ttl, now), ttl, now') = Live(ts, ttl, now')
      BY <1>2, LiveProperties
    <3>5. Abstract!Live(Live(ts, ttl, now), ttl, now') = Live(Live(ts, ttl, now), ttl, now')
      BY <1>2, <3>4, LiveIsAbstract
    <3>. QED  BY <3>1, <3>2, <3>3, <3>4, <3>5
  <2>2. CASE k \notin DOMAIN buckets
    <3>1. Window(k) = <<>> /\ Window(k)' = <<>>
      BY <1>1, <2>2 DEF Window
    <3>2. Policy(k[2]) = NotGiven \/ Policy(k[2]).ttl \in Nat
      BY <1>2, <2>0, PolicyFound DEF Limited
    <3>3. ASSUME NEW ttl \in Nat PROVE Abstract!Live(<<>>, ttl, now') = <<>>
      <4>1. PICK s \in Seq(Nat) : s = <<>>
        <5>1. PICK s : s = <<>>
          OBVIOUS
        <5>2. s \in Seq(Nat)
          BY <5>1
        <5>. QED  BY <5>1, <5>2
      <4>2. Abstract!Live(s, ttl, now') = Live(s, ttl, now')
        BY <1>2, LiveIsAbstract
      <4>3. Live(s, ttl, now') = s
        BY <4>1, LiveEmpty
      <4>. QED  BY <4>1, <4>2, <4>3
    <3>. QED  BY <3>1, <3>2, <3>3
  <2>. QED  BY <2>1, <2>2
<1>6. [k \in Keys |-> Window(k)]' =
        [k \in Keys |-> IF Policy(k[2]) = NotGiven THEN Window(k)
                        ELSE Abstract!Live(Window(k), Policy(k[2]).ttl, now')]
  BY <1>5
<1>7. Abstract!Tick
  <2>. SUFFICES [k \in Keys |-> Window(k)]' =
            [k \in Keys |-> IF [j \in Keys |-> Policy(j[2])][k] = NotGiven THEN [j \in Keys |-> Window(j)][k]
                            ELSE Abstract!Live([j \in Keys |-> Window(j)][k], [j \in Keys |-> Policy(j[2])][k].ttl, now')]
    BY <1>1, <1>4 DEF Abstract!Tick
  <2>. QED  BY <1>6
<1>. QED  BY <1>3, <1>7

LEMMA RequestStep ==
    ASSUME RateLimitAssumptions, RateLimitInv,
           NEW client \in Clients, NEW endpoint \in LimitedEndpoints, CheckRateLimit(client, endpoint)
    PROVE  /\ RateLimitInv'
           /\ \E k \in Keys : Abstract!Pass(k) \/ Abstract!Admit(k) \/ Abstract!Refuse(k)
<1>1. PICK key \in Keys : key = <<client, endpoint>> /\ key[2] = endpoint
  <2>1. <<client, endpoint>> \in Keys /\ <<client, endpoint>>[2] = endpoint
    BY DEF Keys
  <2>. QED  BY <2>1
<1>2. UNCHANGED <<limits, metadata, now>> /\ now \in Nat /\ AreBuckets(buckets) /\ ConfigurationInv
  BY DEF CheckRateLimit, RateLimitInv
<1>3. Generate(endpoint) = Policy(key[2]) /\ (Policy(key[2]) = NotGiven \/ Policy(key[2]) \in Limited)
        /\ NotGiven \notin Limited
  BY <1>1, <1>2, PolicyFound
<1>4. [k \in Keys |-> Policy(k[2])]' = [k \in Keys |-> Policy(k[2])]
  <2>1. \A k \in Keys : k[2] \in LimitedEndpoints
    BY DEF Keys
  <2>. QED  BY <1>2, <2>1, PolicyStays
<1>5. [k \in Keys |-> Policy(k[2])][key] = Policy(key[2]) /\ [k \in Keys |-> Window(k)][key] = Window(key)
  OBVIOUS
<1>6. CASE Policy(key[2]) = NotGiven
  <2>1. buckets' = buckets /\ Abstract!Decide(key, TRUE, 0)
    BY <1>1, <1>3, <1>6 DEF CheckRateLimit, Abstract!Decide
  <2>2. RateLimitInv'
    BY <1>2, <2>1, PolicyStays DEF RateLimitInv
  <2>3. [k \in Keys |-> Window(k)]' = [k \in Keys |-> Window(k)]
    BY <1>2, <2>1 DEF Window
  <2>4. Abstract!Pass(key)
    BY <1>2, <1>4, <1>5, <1>6, <2>1, <2>3 DEF Abstract!Pass
  <2>. QED  BY <2>2, <2>4
<1>7. CASE Policy(key[2]) \in Limited
  <2>1. Policy(key[2]) # NotGiven
    BY <1>3, <1>7
  <2>2. Consume(key, Policy(key[2]).ttl, Policy(key[2]).limit)
    BY <1>1, <1>3, <2>1 DEF CheckRateLimit
  <2>3. PICK new :
           /\ buckets' = new /\ AreBuckets(new)
           /\ \A k \in Keys \ {key} : WindowIn(new, k, now) = Window(k)
           /\ \/ /\ Len(Window(key)) < Policy(key[2]).limit
                 /\ WindowIn(new, key, now) = Abstract!Live(Append(Window(key), now), Policy(key[2]).ttl, now)
                 /\ Abstract!Decide(key, TRUE, 0)
              \/ /\ Len(Window(key)) >= Policy(key[2]).limit
                 /\ WindowIn(new, key, now) = Window(key)
                 /\ Abstract!Decide(key, FALSE, IF Window(key) = <<>> THEN Policy(key[2]).ttl
                                                ELSE Head(Window(key)) + Policy(key[2]).ttl - now)
    BY <1>7, <2>2, ConsumeSteps
  <2>4. RateLimitInv'
    BY <1>2, <2>3, PolicyStays DEF RateLimitInv
  <2>5. \A k \in Keys : Window(k)' = WindowIn(new, k, now)
    BY <1>2, <2>3 DEF Window, WindowIn
  <2>6. [k \in Keys |-> Window(k)]' = [[k \in Keys |-> Window(k)] EXCEPT ![key] = WindowIn(new, key, now)]
    BY <2>3, <2>5
  <2>7. CASE /\ Len(Window(key)) < Policy(key[2]).limit
             /\ WindowIn(new, key, now) = Abstract!Live(Append(Window(key), now), Policy(key[2]).ttl, now)
             /\ Abstract!Decide(key, TRUE, 0)
    <3>1. Abstract!Admit(key)
      BY <1>2, <1>4, <1>5, <2>1, <2>6, <2>7 DEF Abstract!Admit
    <3>. QED  BY <2>4, <3>1
  <2>8. CASE /\ Len(Window(key)) >= Policy(key[2]).limit
             /\ WindowIn(new, key, now) = Window(key)
             /\ Abstract!Decide(key, FALSE, IF Window(key) = <<>> THEN Policy(key[2]).ttl
                                            ELSE Head(Window(key)) + Policy(key[2]).ttl - now)
    <3>1. [k \in Keys |-> Window(k)]' = [k \in Keys |-> Window(k)]
      BY <2>6, <2>8
    <3>2. Abstract!Refuse(key)
      BY <1>2, <1>4, <1>5, <2>1, <2>8, <3>1 DEF Abstract!Refuse
    <3>. QED  BY <2>4, <3>2
  <2>. QED  BY <2>3, <2>7, <2>8
<1>. QED  BY <1>3, <1>6, <1>7

LEMMA StutterStep ==
    ASSUME RateLimitInv, UNCHANGED limitVars
    PROVE  RateLimitInv' /\ UNCHANGED Abstract!vars
<1>1. UNCHANGED <<limits, metadata, now, buckets, decisions>>
  BY DEF limitVars
<1>2. RateLimitInv'
  BY <1>1, PolicyStays DEF RateLimitInv
<1>3. [k \in Keys |-> Policy(k[2])]' = [k \in Keys |-> Policy(k[2])]
  <2>1. \A k \in Keys : k[2] \in LimitedEndpoints
    BY DEF Keys
  <2>. QED  BY <1>1, <2>1, PolicyStays
<1>4. [k \in Keys |-> Window(k)]' = [k \in Keys |-> Window(k)]
  BY <1>1 DEF Window
<1>. QED  BY <1>1, <1>2, <1>3, <1>4 DEF Abstract!vars

LEMMA RateLimitNext ==
    ASSUME RateLimitAssumptions, RateLimitInv, [LimitNext]_limitVars
    PROVE  RateLimitInv' /\ [Abstract!Next]_Abstract!vars
<1>1. CASE Tick
  BY <1>1, TickStep DEF Abstract!Next
<1>2. ASSUME NEW client \in Clients, NEW endpoint \in LimitedEndpoints, CheckRateLimit(client, endpoint)
      PROVE  RateLimitInv' /\ Abstract!Next
  BY <1>2, RequestStep DEF Abstract!Next
<1>3. CASE UNCHANGED limitVars
  BY <1>3, StutterStep
<1>. QED  BY <1>1, <1>2, <1>3 DEF LimitNext

\* No bucket outlives its endpoint's policy or takes another ttl than that of
\* the policy: HttpRateLimitResolver stores what it was asked to consume.
THEOREM RateLimitCorrect ==
    ASSUME RateLimitAssumptions PROVE LimitSpec => []RateLimitInv
<1>1. LimitInit => RateLimitInv
  BY RateLimitInit
<1>2. RateLimitInv /\ [LimitNext]_limitVars => RateLimitInv'
  BY RateLimitNext
<1>. QED  BY <1>1, <1>2, PTL DEF LimitSpec

\* Every request of every client is decided as by a sliding window that forgets
\* at once, whenever HttpRateLimitResolver cleans and sweeps its buckets.
THEOREM RateLimitImplementsWindow ==
    ASSUME RateLimitAssumptions PROVE LimitSpec => ImplementsSlidingWindow
<1>1. LimitInit => Abstract!Init
  BY RateLimitInit
<1>2. RateLimitInv /\ [LimitNext]_limitVars => [Abstract!Next]_Abstract!vars
  BY RateLimitNext
<1>. QED  BY <1>1, <1>2, RateLimitCorrect, PTL DEF LimitSpec, ImplementsSlidingWindow, Abstract!Spec

-----------------------------------------------------------------------------
(* Uploads: the invariant.                                                 *)

UploadErrors == {"UnsupportedMediaTypeError", "ContentTooLargeError", "BadRequestError"}
IsFile(i) == multipart[i].type = "file"
IsField(i) == multipart[i].type = "field"
FilesUpTo(n) == {i \in 1 .. n : IsFile(i)}
IsWithin(i) == multipart[i].size <= MaxFileSize /\ IsMimeTypeAllowed(multipart[i].mime)

\* Of a request that is not a multipart one nothing is parsed.
NotParsed ==
    /\ outcome \in {"none", "resolved"} /\ exposed = NotSet
    /\ parts = 0 /\ streams = {} /\ parser = "none" /\ failed = FALSE /\ parsed = <<>>

UploadTypeOK ==
    /\ multipart \in Seq(MultipartParts)
    /\ parts \in 0 .. Len(multipart)
    /\ streams \subseteq FilesUpTo(parts)
    /\ parser \in {"none", "parsing", "closed"}
    /\ failed \in BOOLEAN
    /\ parsed \in Seq(1 .. parts)
    /\ outcome \in {"none", "pending", "resolved"} \cup UploadErrors

\* Where the parser, the flag and the promise stand.
StageInv ==
    /\ outcome = "none" => parts = 0 /\ parser = "none" /\ ~failed
    /\ failed => uploadAdapter = "express" /\ outcome \in UploadErrors
    /\ uploadAdapter = "express" /\ parser # "none" /\ ~failed => outcome = "pending"
    /\ uploadAdapter # "express" => parser \in {"none", "parsing"} /\ streams = {}
    /\ parser = "closed" => parts = Len(multipart)

\* Unless it failed, every part so far is within the limits, and is either
\* in what was parsed or an open stream.
KeptInv ==
    outcome \in {"pending", "resolved"} =>
        /\ \A i \in 1 .. parts : i \in streams \/ \E k \in DOMAIN parsed : parsed[k] = i
        /\ \A i \in FilesUpTo(parts) : IsWithin(i)
        /\ Cardinality(FilesUpTo(parts)) <= MaxFiles

FieldsInOrder ==
    \A x, y \in DOMAIN parsed : x < y /\ IsField(parsed[x]) /\ IsField(parsed[y]) => parsed[x] < parsed[y]

ExposedInv ==
    /\ outcome # "resolved" => exposed = NotSet
    /\ outcome = "resolved" =>
        exposed = parsed /\ parts = Len(multipart) /\ streams = {} /\ ~failed /\ (uploadAdapter = "express" => parser = "none")

ReasonInv ==
    /\ outcome = "UnsupportedMediaTypeError" =>
        \E i \in PartsOf("file", NotSet) : ~IsMimeTypeAllowed(multipart[i].mime)
    /\ outcome = "ContentTooLargeError" =>
        \/ Cardinality(PartsOf("file", NotSet)) > MaxFiles
        \/ \E i \in PartsOf("file", NotSet) : multipart[i].size >= MaxFileSize

MultipartInv ==
    /\ multipart # NotMultipart /\ UploadTypeOK
    /\ StageInv /\ KeptInv /\ FieldsInOrder /\ ExposedInv /\ ReasonInv

UploadInv ==
    /\ uploadOptions \in UploadConfigurations
    /\ (multipart = NotMultipart /\ NotParsed) \/ MultipartInv

-----------------------------------------------------------------------------
(* Uploads: facts.                                                         *)

\* A sequence over a set is one over any larger set.
LEMMA SeqGrows ==
    ASSUME NEW S, NEW T, S \subseteq T, NEW s \in Seq(S)
    PROVE  s \in Seq(T)
<1>1. PICK n \in Nat : s \in [1 .. n -> S]
  BY SeqDef
<1>2. s \in [1 .. n -> T]
  BY <1>1
<1>. QED  BY <1>2, SeqDef

\* However the options merge, a number of files is what limits them.
LEMMA MaxFilesIsANumber ==
    ASSUME UploadAssumptions, uploadOptions \in UploadConfigurations
    PROVE  MaxFiles \in Nat
<1>1. \A s \in {"plugin", "class", "method"} :
        uploadOptions[s] # NotSet => uploadOptions[s]["maxFiles"] \in Nat \cup {NotSet}
  <2>1. /\ uploadOptions["plugin"] \in FileUploadOptions /\ uploadOptions["class"] \in FileUploadOptions
        /\ uploadOptions["method"] \in FileUploadOptions
    BY DEF UploadAssumptions
  <2>. QED  BY <2>1 DEF FileUploadOptions
<1>2. Merged("maxFiles") \in Nat \cup {NotSet}
  <2>. DEFINE given == {s \in {"plugin", "class", "method"} : uploadOptions[s] # NotSet /\ uploadOptions[s]["maxFiles"] # NotSet}
              s == IF "method" \in given THEN "method" ELSE IF "class" \in given THEN "class" ELSE "plugin"
  <2>1. given # {} => s \in given
    OBVIOUS
  <2>2. Merged("maxFiles") = IF given = {} THEN NotSet ELSE uploadOptions[s]["maxFiles"]
    BY DEF Merged
  <2>3. \A x \in given : uploadOptions[x]["maxFiles"] \in Nat \cup {NotSet}
    BY <1>1
  <2>. HIDE DEF given, s
  <2>. QED  BY <2>1, <2>2, <2>3
<1>. QED  BY <1>2 DEF MaxFiles, OrDefault, UploadAssumptions

\* A part more is one file more, or none.
LEMMA OneFileMore ==
    ASSUME NEW n \in Nat
    PROVE  /\ IsFiniteSet(FilesUpTo(n)) /\ Cardinality(FilesUpTo(n)) \in Nat
           /\ IsFile(n + 1) => Cardinality(FilesUpTo(n + 1)) = Cardinality(FilesUpTo(n)) + 1
           /\ ~IsFile(n + 1) => FilesUpTo(n + 1) = FilesUpTo(n)
<1>1. IsFiniteSet(1 .. n) /\ FilesUpTo(n) \in SUBSET (1 .. n)
  BY FS_Interval DEF FilesUpTo
<1>2. IsFiniteSet(FilesUpTo(n))
  BY <1>1, FS_Subset
<1>3. Cardinality(FilesUpTo(n)) \in Nat
  BY <1>2, FS_CardinalityType
<1>4. IsFile(n + 1) => FilesUpTo(n + 1) = FilesUpTo(n) \cup {n + 1}
  BY DEF FilesUpTo
<1>5. n + 1 \notin FilesUpTo(n)
  BY DEF FilesUpTo
<1>6. Cardinality(FilesUpTo(n) \cup {n + 1}) = Cardinality(FilesUpTo(n)) + 1
  BY <1>2, <1>5, FS_AddElement
<1>7. ~IsFile(n + 1) => FilesUpTo(n + 1) = FilesUpTo(n)
  BY DEF FilesUpTo
<1>. QED  BY <1>2, <1>3, <1>4, <1>6, <1>7

\* No prefix of the parts has a file that the request has not.
LEMMA AllFiles ==
    ASSUME multipart \in Seq(MultipartParts)
    PROVE  /\ PartsOf("file", NotSet) = FilesUpTo(Len(multipart))
           /\ \A n \in 0 .. Len(multipart) :
                /\ FilesUpTo(n) \subseteq PartsOf("file", NotSet)
                /\ Cardinality(FilesUpTo(n)) <= Cardinality(PartsOf("file", NotSet))
<1>1. PartsOf("file", NotSet) = FilesUpTo(Len(multipart))
  BY DEF PartsOf, FilesUpTo, IsFile
<1>2. ASSUME NEW n \in 0 .. Len(multipart)
      PROVE  /\ FilesUpTo(n) \subseteq PartsOf("file", NotSet)
             /\ Cardinality(FilesUpTo(n)) <= Cardinality(PartsOf("file", NotSet))
  <2>1. FilesUpTo(n) \subseteq FilesUpTo(Len(multipart)) /\ Len(multipart) \in Nat
    BY DEF FilesUpTo
  <2>2. IsFiniteSet(FilesUpTo(Len(multipart)))
    BY <2>1, OneFileMore
  <2>. QED  BY <1>1, <2>1, <2>2, FS_Subset
<1>. QED  BY <1>1, <1>2

\* What a request and its limits are stays what it is.
LEMMA SameRequest ==
    ASSUME UNCHANGED input
    PROVE  /\ MaxFiles' = MaxFiles /\ MaxFileSize' = MaxFileSize
           /\ \A m : IsMimeTypeAllowed(m)' <=> IsMimeTypeAllowed(m)
           /\ \A i : /\ IsFile(i)' <=> IsFile(i)
                     /\ IsField(i)' <=> IsField(i)
                     /\ IsWithin(i)' <=> IsWithin(i)
                     /\ FilesUpTo(i)' = FilesUpTo(i)
           /\ PartsOf("file", NotSet)' = PartsOf("file", NotSet)
           /\ multipart' = multipart /\ uploadOptions' = uploadOptions /\ uploadAdapter' = uploadAdapter
<1>1. multipart' = multipart /\ uploadOptions' = uploadOptions /\ uploadAdapter' = uploadAdapter
  BY DEF input
<1>2. \A f : Merged(f)' = Merged(f)
  BY <1>1 DEF Merged
<1>3. MaxFiles' = MaxFiles /\ MaxFileSize' = MaxFileSize
  BY <1>2 DEF MaxFiles, MaxFileSize, OrDefault
<1>4. \A m : IsMimeTypeAllowed(m)' <=> IsMimeTypeAllowed(m)
  BY <1>2 DEF IsMimeTypeAllowed
<1>5. \A i : (IsFile(i)' <=> IsFile(i)) /\ (IsField(i)' <=> IsField(i)) /\ (IsWithin(i)' <=> IsWithin(i))
  BY <1>1, <1>3, <1>4 DEF IsFile, IsField, IsWithin
<1>6. \A n : FilesUpTo(n)' = FilesUpTo(n)
  BY <1>5 DEF FilesUpTo
<1>7. PartsOf("file", NotSet)' = PartsOf("file", NotSet)
  BY <1>1 DEF PartsOf
<1>. QED  BY <1>1, <1>3, <1>4, <1>5, <1>6, <1>7

\* The files so far, after a step that leaves the request alone.
LEMMA FilesAfter ==
    ASSUME UNCHANGED input, NEW n, parts' = n
    PROVE  FilesUpTo(parts)' = FilesUpTo(n)
<1>1. \A i : IsFile(i)' <=> IsFile(i)
  BY SameRequest
<1>. QED  BY <1>1 DEF FilesUpTo

\* A part that is parsed: the next one, or that of a stream that closes.
LEMMA ParsedInOrder ==
    ASSUME UploadTypeOK, FieldsInOrder, NEW i \in Nat, UNCHANGED input, parsed' = Append(parsed, i),
           IsField(i) => i = parts + 1
    PROVE  FieldsInOrder'
<1>1. PICK n \in Nat : n = Len(parsed) /\ DOMAIN parsed = 1 .. n
  BY DEF UploadTypeOK
<1>2. /\ DOMAIN parsed' = 1 .. n + 1 /\ parsed'[n + 1] = i
      /\ \A x \in 1 .. n : parsed'[x] = parsed[x] /\ parsed[x] \in 1 .. parts
  BY <1>1 DEF UploadTypeOK
<1>3. SUFFICES ASSUME NEW x \in 1 .. n + 1, NEW y \in 1 .. n + 1, x < y, IsField(parsed'[x]), IsField(parsed'[y])
               PROVE  parsed'[x] < parsed'[y]
  <2>1. \A k : IsField(k)' <=> IsField(k)
    BY SameRequest
  <2>. QED  BY <1>2, <2>1 DEF FieldsInOrder
<1>4. x \in 1 .. n
  BY <1>1, <1>3
<1>5. CASE y = n + 1
  BY <1>2, <1>3, <1>4, <1>5 DEF UploadTypeOK
<1>6. CASE y \in 1 .. n
  BY <1>1, <1>2, <1>3, <1>4, <1>6 DEF FieldsInOrder
<1>. QED  BY <1>1, <1>5, <1>6
-----------------------------------------------------------------------------
(* Uploads: the steps.                                                     *)

\* The invariant before a request is parsed.
LEMMA UploadInitially == UploadAssumptions /\ UploadInit => UploadInv
<1>. SUFFICES ASSUME UploadAssumptions, UploadInit, multipart # NotMultipart PROVE MultipartInv
  BY DEF UploadInit, UploadInv, NotParsed
<1>1. multipart \in Seq(MultipartParts) /\ <<>> \in Seq(1 .. 0) /\ DOMAIN parsed = {}
  BY EmptySeq DEF UploadInit, UploadAssumptions
<1>2. parts = 0 /\ parsed \in Seq(1 .. parts) /\ Len(multipart) \in Nat
  BY <1>1 DEF UploadInit
<1>3. UploadTypeOK
  <2>1. parts \in 0 .. Len(multipart)
    BY <1>2
  <2>2. streams = {} /\ parser = "none" /\ failed = FALSE /\ outcome = "none"
    BY DEF UploadInit
  <2>. QED  BY <1>1, <1>2, <2>1, <2>2 DEF UploadTypeOK
<1>. QED  BY <1>1, <1>2, <1>3 DEF UploadInit, MultipartInv, StageInv, KeptInv, FieldsInOrder, ExposedInv, ReasonInv, UploadErrors

\* The guard starts the parser, or the headers are refused.
LEMMA GuardKeepsUpload ==
    ASSUME UploadAssumptions, uploadOptions \in UploadConfigurations, MultipartInv, CheckFileUpload
    PROVE  MultipartInv'
<1>. USE DEF MultipartInv
<1>1. UNCHANGED input /\ UNCHANGED <<parts, streams, failed, parsed, exposed>>
  BY DEF CheckFileUpload
<1>2. \/ outcome' = "pending" /\ parser' = "parsing"
      \/ outcome' = "BadRequestError" /\ parser' = "none"
  BY DEF CheckFileUpload, StageInv
<1>3. outcome = "none" /\ parts = 0 /\ ~failed
  BY DEF CheckFileUpload, StageInv
<1>4. UploadTypeOK'
  <2>1. FilesUpTo(parts)' = FilesUpTo(parts)
    BY <1>1, FilesAfter
  <2>. QED  BY <1>1, <1>2, <2>1, SameRequest DEF UploadTypeOK, UploadErrors
<1>5. StageInv'
  BY <1>1, <1>2, <1>3, SameRequest DEF StageInv, UploadTypeOK, UploadErrors
<1>6. KeptInv'
  <2>1. FilesUpTo(0) = {} /\ Cardinality({}) = 0 /\ MaxFiles \in Nat
    BY FS_EmptySet, MaxFilesIsANumber DEF FilesUpTo
  <2>2. parts' = 0 /\ FilesUpTo(parts)' = {} /\ MaxFiles' = MaxFiles
    BY <1>1, <1>3, <2>1, SameRequest, FilesAfter
  <2>3. Cardinality(FilesUpTo(parts)') <= MaxFiles'
    <3>1. Cardinality(FilesUpTo(parts)') = Cardinality({})
      BY <2>2, Zenon
    <3>2. Cardinality(FilesUpTo(parts)') = 0
      BY <2>1, <3>1, Zenon
    <3>3. MaxFiles' \in Nat
      BY <2>1, <2>2
    <3>. QED  BY <3>2, <3>3
  <2>4. \A i \in (1 .. parts)' : FALSE
    BY <2>2
  <2>. QED  BY <2>2, <2>3, <2>4 DEF KeptInv
<1>7. FieldsInOrder'
  BY <1>1, SameRequest DEF FieldsInOrder
<1>8. ExposedInv' /\ ReasonInv'
  BY <1>1, <1>2, <1>3 DEF ExposedInv, ReasonInv
<1>. QED  BY <1>1, <1>4, <1>5, <1>6, <1>7, <1>8, SameRequest

\* The flag is set, and the promise rejected unless it was before.
LEMMA FailingKeepsUpload ==
    ASSUME MultipartInv, NEW r \in {"mimeType", "fileSize", "files", "malformed"}, Fail(r), UNCHANGED input,
           OnExpress, parts' \in parts .. Len(multipart), parsed' = parsed, exposed' = exposed,
           streams \subseteq streams', streams' \subseteq FilesUpTo(parts'), parser' \in {parser, "none"},
           r = "mimeType" => \E i \in PartsOf("file", NotSet) : ~IsMimeTypeAllowed(multipart[i].mime),
           r = "fileSize" => \E i \in PartsOf("file", NotSet) : multipart[i].size >= MaxFileSize,
           r = "files" => Cardinality(PartsOf("file", NotSet)) > MaxFiles
    PROVE  MultipartInv'
<1>. USE DEF MultipartInv
<1>1. /\ outcome' = IF failed THEN outcome ELSE ToHttpError(r)
      /\ failed' = TRUE
  BY DEF Fail
<1>2. ToHttpError(r) = CASE r = "mimeType" -> "UnsupportedMediaTypeError"
                         [] r \in {"fileSize", "files"} -> "ContentTooLargeError"
                         [] r = "malformed" -> "BadRequestError"
  BY DEF ToHttpError
<1>3. outcome' \in UploadErrors
  BY <1>1, <1>2 DEF StageInv, UploadErrors
<1>4. parts \in Nat /\ parts' \in 0 .. Len(multipart) /\ parsed \in Seq(1 .. parts') /\ parts <= parts'
  <2>1. parts \in Nat /\ Len(multipart) \in Nat /\ parsed \in Seq(1 .. parts)
    BY DEF UploadTypeOK
  <2>2. 1 .. parts \subseteq 1 .. parts'
    BY <2>1
  <2>. QED  BY <2>1, <2>2
<1>5. UploadTypeOK'
  <2>1. streams' \subseteq FilesUpTo(parts)'
    BY FilesAfter
  <2>. QED  BY <1>1, <1>3, <1>4, <2>1, SameRequest DEF UploadTypeOK
<1>6. StageInv'
  BY <1>1, <1>3, SameRequest DEF StageInv, OnExpress, UploadErrors
<1>7. KeptInv' /\ FieldsInOrder'
  BY <1>3, SameRequest DEF KeptInv, FieldsInOrder, UploadErrors
<1>8. ExposedInv'
  BY <1>3 DEF ExposedInv, OnExpress, UploadErrors, StageInv, UploadTypeOK
<1>9. ReasonInv'
  <2>1. CASE failed
    BY <1>1, <2>1, SameRequest DEF ReasonInv
  <2>2. CASE ~failed
    BY <1>1, <1>2, <2>2, SameRequest DEF ReasonInv
  <2>. QED  BY <2>1, <2>2
<1>. QED  BY <1>5, <1>6, <1>7, <1>8, <1>9, SameRequest

\* A part is taken: a field or, on Fastify, a file is parsed; on Express the stream of a file opens.
LEMMA TakingKeepsUpload ==
    ASSUME UploadAssumptions, uploadOptions \in UploadConfigurations, MultipartInv, UNCHANGED input,
           parts < Len(multipart), parts' = parts + 1, UNCHANGED <<parser, failed, outcome, exposed>>,
           OnExpress \/ OnFastify,
           \/ parsed' = Append(parsed, parts + 1) /\ streams' = streams
           \/ /\ OnExpress /\ IsFile(parts + 1) /\ streams' = streams \cup {parts + 1}
              /\ UNCHANGED parsed,
           ~failed /\ IsFile(parts + 1) =>
                IsWithin(parts + 1) /\ Cardinality(FilesUpTo(parts)) < MaxFiles
    PROVE  MultipartInv'
<1>. USE DEF MultipartInv
<1>1. parts \in Nat /\ Len(multipart) \in Nat /\ parts + 1 \in 0 .. Len(multipart)
  BY DEF UploadTypeOK
<1>2. parsed \in Seq(1 .. parts) /\ 1 .. parts \subseteq 1 .. parts + 1 /\ parts + 1 \in 1 .. parts + 1
  BY <1>1 DEF UploadTypeOK
<1>3. parsed' \in Seq(1 .. parts + 1)
  <2>1. parsed \in Seq(1 .. parts + 1)
    BY <1>2, SeqGrows
  <2>. QED  BY <1>2, <2>1
<1>4. streams' \subseteq FilesUpTo(parts + 1)
  <2>1. streams \subseteq FilesUpTo(parts + 1)
    BY <1>1 DEF UploadTypeOK, FilesUpTo
  <2>2. IsFile(parts + 1) => parts + 1 \in FilesUpTo(parts + 1)
    BY <1>1 DEF FilesUpTo
  <2>. QED  BY <2>1, <2>2
<1>5. FilesUpTo(parts)' = FilesUpTo(parts + 1)
  BY FilesAfter
<1>6. UploadTypeOK'
  BY <1>1, <1>3, <1>4, <1>5, SameRequest DEF UploadTypeOK
<1>7. outcome \notin {"none", "resolved"} /\ parser # "closed" /\ (failed \/ outcome = "pending" )
  BY DEF OnExpress, OnFastify, StageInv, UploadErrors, UploadTypeOK
<1>8. StageInv'
  BY <1>7, SameRequest DEF StageInv, OnExpress
<1>9. KeptInv'
  <2>. SUFFICES ASSUME outcome = "pending"
                PROVE  /\ \A i \in 1 .. parts + 1 : i \in streams' \/ \E k \in DOMAIN parsed' : parsed'[k] = i
                       /\ \A i \in FilesUpTo(parts + 1) : IsWithin(i)
                       /\ Cardinality(FilesUpTo(parts + 1)) <= MaxFiles
    BY <1>5, <1>7, SameRequest DEF KeptInv
  <2>1. ~failed
    BY DEF StageInv, UploadErrors
  <2>2. ASSUME NEW i \in 1 .. parts + 1
        PROVE  i \in streams' \/ \E k \in DOMAIN parsed' : parsed'[k] = i
    <3>1. CASE i = parts + 1
      <4>1. parsed' = Append(parsed, i) => Len(parsed) + 1 \in DOMAIN parsed' /\ parsed'[Len(parsed) + 1] = i
        BY <1>2
      <4>. QED  BY <3>1, <4>1
    <3>2. CASE i \in 1 .. parts
      <4>1. i \in streams \/ \E k \in DOMAIN parsed : parsed[k] = i
        BY <3>2 DEF KeptInv
      <4>2. \A k \in DOMAIN parsed : k \in DOMAIN parsed' /\ parsed'[k] = parsed[k]
        BY <1>2
      <4>. QED  BY <4>1, <4>2
    <3>. QED  BY <1>1, <3>1, <3>2
  <2>3. \A i \in FilesUpTo(parts + 1) : IsWithin(i)
    <3>. SUFFICES ASSUME NEW i \in FilesUpTo(parts + 1) PROVE IsWithin(i)
      OBVIOUS
    <3>1. i \in FilesUpTo(parts) \/ (i = parts + 1 /\ IsFile(i))
      BY <1>1 DEF FilesUpTo
    <3>. QED  BY <2>1, <3>1 DEF KeptInv
  <2>4. Cardinality(FilesUpTo(parts + 1)) <= MaxFiles
    <3>1. MaxFiles \in Nat /\ Cardinality(FilesUpTo(parts)) <= MaxFiles
      BY MaxFilesIsANumber DEF KeptInv
    <3>2. CASE IsFile(parts + 1)
      <4>1. Cardinality(FilesUpTo(parts + 1)) = Cardinality(FilesUpTo(parts)) + 1
        BY <1>1, <3>2, OneFileMore
      <4>2. Cardinality(FilesUpTo(parts)) < MaxFiles /\ Cardinality(FilesUpTo(parts)) \in Nat
        BY <1>1, <2>1, <3>2, OneFileMore
      <4>. QED  BY <3>1, <4>1, <4>2
    <3>3. CASE ~IsFile(parts + 1)
      BY <1>1, <3>1, <3>3, OneFileMore
    <3>. QED  BY <3>2, <3>3
  <2>. QED  BY <2>2, <2>3, <2>4
<1>10. FieldsInOrder'
  <2>1. CASE parsed' = parsed
    BY <2>1, SameRequest DEF FieldsInOrder
  <2>2. CASE parsed' = Append(parsed, parts + 1)
    BY <1>1, <2>2, ParsedInOrder
  <2>. QED  BY <2>1, <2>2
<1>11. ExposedInv' /\ ReasonInv'
  BY <1>7, SameRequest DEF ExposedInv, ReasonInv
<1>. QED  BY <1>6, <1>8, <1>9, <1>10, <1>11, SameRequest

\* The listeners of a part, on Express.
LEMMA ExpressPartKeepsUpload ==
    ASSUME UploadAssumptions, uploadOptions \in UploadConfigurations, MultipartInv, ExpressPart
    PROVE  MultipartInv'
<1>. USE DEF MultipartInv
<1>1. /\ OnExpress /\ UNCHANGED input /\ parser' = parser /\ exposed' = exposed
      /\ parts < Len(multipart) /\ parts' = parts + 1
  BY DEF ExpressPart
<1>2. parts \in Nat /\ Len(multipart) \in Nat /\ parts + 1 \in DOMAIN multipart /\ parts + 1 \in parts .. Len(multipart)
  BY <1>1 DEF UploadTypeOK
<1>3. IsFile(parts + 1) => parts + 1 \in PartsOf("file", NotSet)
  BY <1>2 DEF IsFile, PartsOf
<1>4. /\ streams \subseteq FilesUpTo(parts + 1)
      /\ IsFile(parts + 1) => streams \cup {parts + 1} \subseteq FilesUpTo(parts + 1)
  BY <1>2 DEF UploadTypeOK, FilesUpTo
<1>5. CASE Part.type = "field"
  <2>1. parsed' = Append(parsed, parts + 1) /\ UNCHANGED <<streams, failed, outcome>>
    BY <1>5 DEF ExpressPart
  <2>2. ~IsFile(parts + 1)
    BY <1>5 DEF IsFile, Part
  <2>. QED  BY <1>1, <2>1, <2>2, TakingKeepsUpload
<1>6. CASE Part.type = "file" /\ FilesSeen >= MaxFiles
  <2>1. Fail("files") /\ UNCHANGED <<streams, parsed>>
    BY <1>6 DEF ExpressPart
  <2>2. Cardinality(PartsOf("file", NotSet)) > MaxFiles
    <3>1. FilesSeen = Cardinality(FilesUpTo(parts)) /\ IsFile(parts + 1)
      BY <1>6 DEF FilesSeen, FilesUpTo, IsFile, Part
    <3>2. Cardinality(FilesUpTo(parts + 1)) = Cardinality(FilesUpTo(parts)) + 1 /\ Cardinality(FilesUpTo(parts)) \in Nat
      BY <1>2, <3>1, OneFileMore
    <3>3. Cardinality(FilesUpTo(parts + 1)) <= Cardinality(PartsOf("file", NotSet))
      BY <1>2, AllFiles DEF UploadTypeOK
    <3>4. Cardinality(PartsOf("file", NotSet)) \in Nat
      BY <1>2, AllFiles, OneFileMore DEF UploadTypeOK
    <3>. QED  BY <1>6, <3>1, <3>2, <3>3, <3>4, MaxFilesIsANumber
  <2>. QED  BY <1>1, <1>2, <1>4, <2>1, <2>2, FailingKeepsUpload
<1>7. CASE Part.type = "file" /\ ~(FilesSeen >= MaxFiles)
  <2>1. IsFile(parts + 1) /\ multipart[parts + 1] = Part
    BY <1>7 DEF IsFile, Part
  <2>2. /\ UNCHANGED parsed
        /\ IF ~IsMimeTypeAllowed(Part.mime) THEN Fail("mimeType") /\ UNCHANGED streams
           ELSE /\ streams' = streams \cup {parts + 1}
                /\ \/ MayFit /\ UNCHANGED <<failed, outcome>>
                   \/ MayExceed /\ Fail("fileSize")
    BY <1>7 DEF ExpressPart
  <2>3. CASE ~IsMimeTypeAllowed(Part.mime)
    <3>1. Fail("mimeType") /\ UNCHANGED streams
      BY <2>2, <2>3
    <3>. QED  BY <1>1, <1>2, <1>3, <1>4, <2>1, <2>2, <2>3, <3>1, FailingKeepsUpload
  <2>4. CASE IsMimeTypeAllowed(Part.mime) /\ MayFit /\ UNCHANGED <<failed, outcome>>
    <3>1. streams' = streams \cup {parts + 1}
      BY <2>2, <2>4
    <3>2. IsWithin(parts + 1)
      BY <2>1, <2>4 DEF IsWithin, MayFit
    <3>3. Cardinality(FilesUpTo(parts)) < MaxFiles
      <4>1. FilesSeen = Cardinality(FilesUpTo(parts)) /\ ~(FilesSeen >= MaxFiles)
        BY <1>7 DEF FilesSeen, FilesUpTo, IsFile
      <4>2. Cardinality(FilesUpTo(parts)) \in Nat /\ MaxFiles \in Nat
        BY <1>2, OneFileMore, MaxFilesIsANumber
      <4>. QED  BY <4>1, <4>2
    <3>. QED  BY <1>1, <2>1, <2>2, <2>4, <3>1, <3>2, <3>3, TakingKeepsUpload
  <2>5. CASE IsMimeTypeAllowed(Part.mime) /\ MayExceed /\ Fail("fileSize")
    <3>1. streams' = streams \cup {parts + 1}
      BY <2>2, <2>5
    <3>2. multipart[parts + 1].size >= MaxFileSize
      BY <2>1, <2>5 DEF MayExceed
    <3>. QED  BY <1>1, <1>2, <1>3, <1>4, <2>1, <2>2, <2>5, <3>1, <3>2, FailingKeepsUpload
  <2>. QED  BY <2>2, <2>3, <2>4, <2>5
<1>8. Part.type \in {"file", "field"}
  <2>1. Part \in MultipartParts
    BY <1>2 DEF Part, UploadTypeOK
  <2>. QED  BY <2>1 DEF MultipartParts
<1>. QED  BY <1>5, <1>6, <1>7, <1>8

\* A stream of a file closes, when it likes.
LEMMA StreamKeepsUpload ==
    ASSUME MultipartInv, StreamCloses
    PROVE  MultipartInv'
<1>. USE DEF MultipartInv
<1>1. PICK i \in streams : streams' = streams \ {i} /\ parsed' = Append(parsed, i)
  BY DEF StreamCloses
<1>2. UNCHANGED input /\ UNCHANGED <<parts, parser, failed, outcome, exposed>>
  BY DEF StreamCloses
<1>3. i \in 1 .. parts /\ IsFile(i) /\ parts \in Nat
  BY DEF UploadTypeOK, FilesUpTo
<1>0. FilesUpTo(parts)' = FilesUpTo(parts)
  BY <1>2, FilesAfter
<1>4. UploadTypeOK'
  BY <1>0, <1>1, <1>2, <1>3, SameRequest DEF UploadTypeOK
<1>5. StageInv'
  BY <1>1, <1>2, SameRequest DEF StageInv
<1>6. KeptInv'
  <2>. SUFFICES ASSUME outcome \in {"pending", "resolved"}, NEW x \in 1 .. parts
                PROVE  x \in streams' \/ \E k \in DOMAIN parsed' : parsed'[k] = x
    BY <1>2, SameRequest DEF KeptInv
  <2>1. x \in streams \/ \E k \in DOMAIN parsed : parsed[k] = x
    BY DEF KeptInv
  <2>2. /\ \A k \in DOMAIN parsed : k \in DOMAIN parsed' /\ parsed'[k] = parsed[k]
        /\ Len(parsed) + 1 \in DOMAIN parsed' /\ parsed'[Len(parsed) + 1] = i
    BY <1>1, <1>3 DEF UploadTypeOK
  <2>. QED  BY <1>1, <2>1, <2>2
<1>7. FieldsInOrder'
  <2>1. ~IsField(i) /\ i \in Nat
    BY <1>3 DEF IsField, IsFile
  <2>. QED  BY <1>1, <1>2, <2>1, ParsedInOrder
<1>8. ExposedInv' /\ ReasonInv'
  BY <1>1, <1>2, SameRequest DEF ExposedInv, ReasonInv
<1>. QED  BY <1>2, <1>4, <1>5, <1>6, <1>7, <1>8, SameRequest

\* The parser closes, or fails.
LEMMA ParserKeepsUpload ==
    ASSUME MultipartInv, ParserCloses \/ ParserFails
    PROVE  MultipartInv'
<1>. USE DEF MultipartInv
<1>1. CASE ParserCloses
  <2>1. /\ UNCHANGED input /\ UNCHANGED <<parts, streams, failed, parsed, outcome, exposed>>
        /\ parser' = "closed" /\ OnExpress /\ parts = Len(multipart)
    BY <1>1 DEF ParserCloses
  <2>2. UploadTypeOK'
    BY <2>1, SameRequest DEF UploadTypeOK
  <2>3. StageInv'
    BY <2>1, SameRequest DEF StageInv, OnExpress
  <2>4. KeptInv' /\ FieldsInOrder' /\ ReasonInv'
    BY <2>1, SameRequest DEF KeptInv, FieldsInOrder, ReasonInv
  <2>5. ExposedInv'
    BY <2>1, SameRequest DEF ExposedInv, OnExpress
  <2>. QED  BY <2>1, <2>2, <2>3, <2>4, <2>5, SameRequest
<1>2. CASE ParserFails
  <2>1. /\ UNCHANGED input /\ OnExpress /\ Fail("malformed") /\ parser' = "none"
        /\ UNCHANGED <<parts, streams, parsed, exposed>>
    BY <1>2 DEF ParserFails
  <2>2. parts' \in parts .. Len(multipart) /\ streams' \subseteq FilesUpTo(parts')
    BY <2>1 DEF UploadTypeOK
  <2>. QED  BY <2>1, <2>2, FailingKeepsUpload
<1>. QED  BY <1>1, <1>2

\* The promise resolves: nothing is open, nothing failed, all parts were parsed.
LEMMA ResolvingKeepsUpload ==
    ASSUME MultipartInv, UNCHANGED input, UNCHANGED <<parts, streams, failed, parsed>>,
           exposed' = parsed, outcome' = "resolved", outcome = "pending", parts = Len(multipart), streams = {}, ~failed,
           parser' \in {"none", "parsing"}, uploadAdapter = "express" => parser' = "none"
    PROVE  MultipartInv'
<1>. USE DEF MultipartInv
<1>1. UploadTypeOK'
  BY SameRequest DEF UploadTypeOK
<1>2. StageInv'
  BY SameRequest DEF StageInv
<1>3. KeptInv' /\ FieldsInOrder'
  BY SameRequest DEF KeptInv, FieldsInOrder
<1>4. ExposedInv' /\ ReasonInv'
  BY SameRequest DEF ExposedInv, ReasonInv
<1>. QED  BY <1>1, <1>2, <1>3, <1>4, SameRequest

\* What was parsed is exposed: every part, since no stream is open.
LEMMA DoneKeepsUpload ==
    ASSUME MultipartInv, ExpressDone \/ FastifyDone
    PROVE  MultipartInv'
<1>. USE DEF MultipartInv
<1>1. CASE ExpressDone /\ failed
  <2>1. /\ UNCHANGED input /\ UNCHANGED <<parts, streams, failed, parsed, exposed, outcome>>
        /\ parser' = "none"
    BY <1>1 DEF ExpressDone, MayExpose
  <2>2. UploadTypeOK'
    BY <2>1, SameRequest DEF UploadTypeOK
  <2>3. StageInv' /\ KeptInv' /\ FieldsInOrder'
    BY <2>1, SameRequest DEF StageInv, KeptInv, FieldsInOrder
  <2>4. ExposedInv' /\ ReasonInv'
    BY <2>1, SameRequest DEF ExposedInv, ReasonInv
  <2>. QED  BY <2>1, <2>2, <2>3, <2>4, SameRequest
<1>2. CASE ExpressDone /\ ~failed
  <2>1. /\ UNCHANGED input /\ UNCHANGED <<parts, streams, failed, parsed>>
        /\ parser' = "none" /\ exposed' = parsed /\ outcome' = "resolved"
        /\ parser = "closed" /\ streams = {}
    BY <1>2 DEF ExpressDone, MayExpose, FilesClosed
  <2>2. outcome = "pending" /\ parts = Len(multipart)
    BY <1>2, <2>1 DEF StageInv
  <2>. QED  BY <1>2, <2>1, <2>2, ResolvingKeepsUpload
<1>3. CASE FastifyDone
  <2>1. /\ UNCHANGED input /\ UNCHANGED <<parts, streams, parser, failed, parsed>>
        /\ exposed' = parsed /\ outcome' = "resolved"
        /\ uploadAdapter = "fastify" /\ outcome = "pending" /\ parts = Len(multipart)
    BY <1>3 DEF FastifyDone, OnFastify
  <2>2. streams = {} /\ ~failed /\ parser' \in {"none", "parsing"}
    BY <2>1 DEF StageInv
  <2>. QED  BY <2>1, <2>2, ResolvingKeepsUpload
<1>. QED  BY <1>1, <1>2, <1>3

\* A part on Fastify: it is parsed, or the promise rejects.
LEMMA FastifyPartKeepsUpload ==
    ASSUME UploadAssumptions, uploadOptions \in UploadConfigurations, MultipartInv, FastifyPart
    PROVE  MultipartInv'
<1>. USE DEF MultipartInv
<1>1. /\ OnFastify /\ UNCHANGED input /\ UNCHANGED <<streams, parser, failed, exposed>> /\ parts < Len(multipart)
  BY DEF FastifyPart
<1>2. parts \in Nat /\ Len(multipart) \in Nat /\ parts + 1 \in DOMAIN multipart
  BY <1>1 DEF UploadTypeOK
<1>3. multipart[parts + 1] = Part /\ FilesSeen = Cardinality(FilesUpTo(parts))
  BY DEF Part, FilesSeen, FilesUpTo, IsFile
<1>4. Part.type = "file" => parts + 1 \in PartsOf("file", NotSet) /\ IsFile(parts + 1)
  BY <1>2, <1>3 DEF IsFile, PartsOf
<1>5. Cardinality(FilesUpTo(parts)) \in Nat /\ MaxFiles \in Nat
  BY <1>2, OneFileMore, MaxFilesIsANumber
<1>6. CASE /\ Part.type = "field" \/ (FilesSeen < MaxFiles /\ IsMimeTypeAllowed(Part.mime) /\ MayFit)
           /\ parts' = parts + 1 /\ parsed' = Append(parsed, parts + 1) /\ UNCHANGED outcome
  <2>1. IsFile(parts + 1) => IsWithin(parts + 1) /\ Cardinality(FilesUpTo(parts)) < MaxFiles
    BY <1>3, <1>6 DEF IsFile, IsWithin, MayFit
  <2>. QED  BY <1>1, <1>6, <2>1, TakingKeepsUpload
<1>7. ASSUME NEW r \in {"mimeType", "fileSize", "files", "malformed"}, Reject(r),
             r # "malformed" => Part.type = "file",
             r = "mimeType" => ~IsMimeTypeAllowed(Part.mime),
             r = "fileSize" => MayExceed,
             r = "files" => FilesSeen >= MaxFiles
      PROVE  MultipartInv'
  <2>1. /\ outcome' = ToHttpError(r) /\ UNCHANGED <<parts, parsed>>
        /\ ToHttpError(r) = CASE r = "mimeType" -> "UnsupportedMediaTypeError"
                               [] r \in {"fileSize", "files"} -> "ContentTooLargeError"
                               [] r = "malformed" -> "BadRequestError"
    BY <1>7 DEF Reject, ToHttpError
  <2>2. outcome' \in UploadErrors /\ outcome = "pending"
    BY <1>1, <2>1 DEF UploadErrors, OnFastify
  <2>3. FilesUpTo(parts)' = FilesUpTo(parts)
    BY <1>1, <2>1, FilesAfter
  <2>4. UploadTypeOK'
    BY <1>1, <2>1, <2>2, <2>3, SameRequest DEF UploadTypeOK
  <2>5. StageInv' /\ KeptInv' /\ FieldsInOrder' /\ ExposedInv'
    BY <1>1, <2>1, <2>2, SameRequest DEF StageInv, KeptInv, FieldsInOrder, ExposedInv, UploadErrors, OnFastify
  <2>6. r = "files" => Cardinality(PartsOf("file", NotSet)) > MaxFiles
    <3>. SUFFICES ASSUME r = "files" PROVE Cardinality(PartsOf("file", NotSet)) > MaxFiles
      OBVIOUS
    <3>1. IsFile(parts + 1) /\ FilesSeen >= MaxFiles
      BY <1>4, <1>7
    <3>2. Cardinality(FilesUpTo(parts + 1)) = Cardinality(FilesUpTo(parts)) + 1
      BY <1>2, <3>1, OneFileMore
    <3>3. /\ Cardinality(FilesUpTo(parts + 1)) <= Cardinality(PartsOf("file", NotSet))
          /\ Cardinality(PartsOf("file", NotSet)) \in Nat
      BY <1>2, AllFiles, OneFileMore DEF UploadTypeOK
    <3>. QED  BY <1>3, <1>5, <3>1, <3>2, <3>3
  <2>7. ReasonInv'
    BY <1>1, <1>3, <1>4, <1>7, <2>1, <2>6, SameRequest DEF ReasonInv, MayExceed
  <2>. QED  BY <1>1, <2>4, <2>5, <2>7, SameRequest
<1>. QED  BY <1>6, <1>7 DEF FastifyPart

\* Every step keeps the invariant.
LEMMA UploadStep == UploadAssumptions /\ UploadInv /\ [UploadNext]_uploadVars => UploadInv'
<1>. SUFFICES ASSUME UploadAssumptions, UploadInv, [UploadNext]_uploadVars PROVE UploadInv'
  OBVIOUS
<1>1. UNCHANGED input
  BY DEF UploadNext, Parse, uploadVars, CheckFileUpload, ParserFails, ExpressPart, StreamCloses, ParserCloses,
         ExpressDone, FastifyPart, FastifyDone
<1>2. CASE multipart = NotMultipart /\ NotParsed
  <2>1. ~OnExpress /\ ~OnFastify /\ streams = {} /\ parser = "none"
    BY <1>2 DEF NotParsed, OnExpress, OnFastify
  <2>2. CheckFileUpload \/ UNCHANGED uploadVars
    BY <2>1 DEF UploadNext, Parse, ParserFails, ExpressPart, StreamCloses, ParserCloses, ExpressDone, FastifyPart, FastifyDone
  <2>3. NotParsed'
    BY <1>2, <2>2 DEF NotParsed, CheckFileUpload, uploadVars
  <2>. QED  BY <1>1, <1>2, <2>3, SameRequest DEF UploadInv
<1>3. CASE MultipartInv
  <2>1. uploadOptions \in UploadConfigurations
    BY DEF UploadInv
  <2>2. CASE UNCHANGED uploadVars
    <3>1. MultipartInv'
      <4>1. UNCHANGED <<input, parts, streams, parser, failed, parsed, outcome, exposed>>
        BY <2>2 DEF uploadVars
      <4>2. FilesUpTo(parts)' = FilesUpTo(parts)
        BY <4>1, FilesAfter
      <4>3. UploadTypeOK'
        BY <1>3, <4>1, <4>2, SameRequest DEF MultipartInv, UploadTypeOK
      <4>4. StageInv'
        BY <1>3, <4>1, SameRequest DEF MultipartInv, StageInv
      <4>5. KeptInv'
        BY <1>3, <4>1, <4>2, SameRequest DEF MultipartInv, KeptInv
      <4>6. FieldsInOrder' /\ ExposedInv' /\ ReasonInv'
        BY <1>3, <4>1, SameRequest DEF MultipartInv, FieldsInOrder, ExposedInv, ReasonInv
      <4>. QED  BY <1>3, <4>1, <4>3, <4>4, <4>5, <4>6, SameRequest DEF MultipartInv
    <3>. QED  BY <1>1, <2>1, <3>1, SameRequest DEF UploadInv
  <2>3. CASE UploadNext
    <3>1. MultipartInv'
      BY <1>3, <2>1, <2>3, GuardKeepsUpload, ExpressPartKeepsUpload, StreamKeepsUpload, ParserKeepsUpload,
         DoneKeepsUpload, FastifyPartKeepsUpload DEF UploadNext, Parse
    <3>. QED  BY <1>1, <2>1, <3>1, SameRequest DEF UploadInv
  <2>. QED  BY <2>2, <2>3
<1>. QED  BY <1>2, <1>3 DEF UploadInv

-----------------------------------------------------------------------------
(* Uploads: what the handler gets.                                         *)

\* Everything that is selected, and nothing else.
LEMMA SelectRange ==
    ASSUME NEW S, NEW s \in Seq(S), NEW I
    PROVE  Range(Select(s, I)) = {s[k] : k \in (1 .. Len(s)) \cap I}
<1>1. PICK g \in [1 .. Len(Select(s, I)) -> (1 .. Len(s)) \cap I] :
        /\ \A k \in 1 .. Len(Select(s, I)) : Select(s, I)[k] = s[g[k]]
        /\ \A i \in (1 .. Len(s)) \cap I : \E k \in 1 .. Len(Select(s, I)) : g[k] = i
  BY SelectPlaces
<1>2. DOMAIN Select(s, I) = 1 .. Len(Select(s, I))
  BY SelectPlaces
<1>3. ASSUME NEW k \in 1 .. Len(Select(s, I))
      PROVE  g[k] \in (1 .. Len(s)) \cap I /\ Select(s, I)[k] = s[g[k]]
  BY <1>1
<1>4. ASSUME NEW i \in (1 .. Len(s)) \cap I
      PROVE  \E k \in DOMAIN Select(s, I) : Select(s, I)[k] = s[i]
  BY <1>1, <1>2
<1>5. Range(Select(s, I)) = {Select(s, I)[k] : k \in 1 .. Len(Select(s, I))}
  BY <1>2 DEF Range
<1>. QED  BY <1>2, <1>3, <1>4, <1>5

\* The files a parameter gets are the files of the request.
LEMMA FilesAreTheParts ==
    ASSUME UploadAssumptions, MultipartInv, outcome = "resolved", NEW f
    PROVE  /\ FilesOf(f) \in Seq(1 .. parts)
           /\ Range(FilesOf(f)) = PartsOf("file", f)
<1>. DEFINE I == {k \in DOMAIN exposed : multipart[exposed[k]].type = "file" /\ f \in {NotSet, multipart[exposed[k]].name}}
<1>1. /\ exposed = parsed /\ parts = Len(multipart) /\ streams = {} /\ parsed \in Seq(1 .. parts)
      /\ DOMAIN multipart = 1 .. parts /\ DOMAIN parsed = 1 .. Len(parsed)
  BY DEF MultipartInv, ExposedInv, UploadTypeOK
<1>2. \A i \in 1 .. parts : \E k \in DOMAIN parsed : parsed[k] = i
  BY <1>1 DEF MultipartInv, KeptInv
<1>3. FilesOf(f) = Select(parsed, I)
  BY <1>1 DEF FilesOf
<1>4. PartsOf("file", f) = {parsed[k] : k \in (1 .. Len(parsed)) \cap I}
  BY <1>1, <1>2 DEF PartsOf
<1>. HIDE DEF I
<1>5. FilesOf(f) \in Seq(1 .. parts)
  BY <1>1, <1>3, SelectPlaces
<1>. QED  BY <1>1, <1>3, <1>4, <1>5, SelectRange

\* The fields of a name are those of the request, in its order.
LEMMA FieldsAreTheParts ==
    ASSUME UploadAssumptions, MultipartInv, outcome = "resolved", NEW f, f # NotSet
    PROVE  /\ Range(FieldsOf(f)) = PartsOf("field", f)
           /\ InOrderOfParts(FieldsOf(f))
<1>. DEFINE I == {k \in DOMAIN exposed : multipart[exposed[k]].type = "field" /\ multipart[exposed[k]].name = f}
<1>1. /\ exposed = parsed /\ parts = Len(multipart) /\ streams = {} /\ parsed \in Seq(1 .. parts)
      /\ DOMAIN multipart = 1 .. parts /\ DOMAIN parsed = 1 .. Len(parsed)
  BY DEF MultipartInv, ExposedInv, UploadTypeOK
<1>2. \A i \in 1 .. parts : \E k \in DOMAIN parsed : parsed[k] = i
  BY <1>1 DEF MultipartInv, KeptInv
<1>3. FieldsOf(f) = Select(parsed, I)
  BY <1>1 DEF FieldsOf
<1>4. PartsOf("field", f) = {parsed[k] : k \in (1 .. Len(parsed)) \cap I}
  BY <1>1, <1>2 DEF PartsOf
<1>5. \A x, y \in (1 .. Len(parsed)) \cap I : x < y => parsed[x] < parsed[y]
  BY <1>1 DEF MultipartInv, FieldsInOrder, IsField
<1>. HIDE DEF I
<1>6. Range(FieldsOf(f)) = PartsOf("field", f)
  BY <1>1, <1>3, <1>4, SelectRange
<1>7. PICK g \in [1 .. Len(Select(parsed, I)) -> (1 .. Len(parsed)) \cap I] :
        /\ \A k \in 1 .. Len(Select(parsed, I)) : Select(parsed, I)[k] = parsed[g[k]]
        /\ \A j, k \in 1 .. Len(Select(parsed, I)) : j < k => g[j] < g[k]
  BY <1>1, SelectPlaces
<1>8. DOMAIN Select(parsed, I) = 1 .. Len(Select(parsed, I))
  BY <1>1, SelectPlaces
<1>9. InOrderOfParts(Select(parsed, I))
  BY <1>5, <1>7, <1>8 DEF InOrderOfParts
<1>. QED  BY <1>3, <1>6, <1>9

\* What the invariant says of the promise is the property.
LEMMA UploadIsWhole == UploadAssumptions /\ UploadInv => UploadIsAllOrNothing
<1>. SUFFICES ASSUME UploadAssumptions, UploadInv PROVE UploadIsAllOrNothing
  OBVIOUS
<1>1. CASE multipart = NotMultipart /\ NotParsed
  BY <1>1 DEF UploadIsAllOrNothing, NotParsed
<1>2. CASE MultipartInv
  <2>1. ReasonInv /\ (outcome # "resolved" => exposed = NotSet)
    BY <1>2 DEF MultipartInv, ExposedInv
  <2>2. ASSUME outcome = "resolved" PROVE Fits
    <3>1. PartsOf("file", NotSet) = FilesUpTo(parts)
      BY <1>2, <2>2, AllFiles DEF MultipartInv, UploadTypeOK, ExposedInv
    <3>. QED  BY <1>2, <2>2, <3>1 DEF Fits, MultipartInv, KeptInv, IsWithin
  <2>3. ASSUME outcome = "resolved", NEW p \in UploadParameters
        PROVE  CASE p[1] = "uploadedFiles" -> Range(Resolve(p[1], p[2])) = PartsOf("file", p[2])
                 [] p[1] = "uploadedFile" ->
                       IF PartsOf("file", p[2]) = {} THEN Resolve(p[1], p[2]) = NotSet
                       ELSE Resolve(p[1], p[2]) \in PartsOf("file", p[2])
                 [] p[1] = "body" -> /\ Range(Resolve(p[1], p[2])) = PartsOf("field", p[2])
                                     /\ InOrderOfParts(Resolve(p[1], p[2]))
    <3>1. exposed # NotSet
      <4>1. exposed = parsed /\ parsed \in Seq(1 .. parts)
        BY <1>2, <2>3 DEF MultipartInv, ExposedInv, UploadTypeOK
      <4>2. parsed \in Seq(Nat)
        <5>1. 1 .. parts \subseteq Nat
          OBVIOUS
        <5>. QED  BY <4>1, <5>1, SeqGrows
      <4>. QED  BY <4>1, <4>2 DEF UploadAssumptions
    <3>2. CASE p[1] = "uploadedFiles"
      <4>1. Resolve(p[1], p[2]) = FilesOf(p[2])
        BY <3>1, <3>2 DEF Resolve
      <4>. QED  BY <1>2, <2>3, <3>2, <4>1, FilesAreTheParts
    <3>3. CASE p[1] = "uploadedFile"
      <4>1. Resolve(p[1], p[2]) = IF FilesOf(p[2]) = <<>> THEN NotSet ELSE Head(FilesOf(p[2]))
        BY <3>1, <3>3 DEF Resolve
      <4>2. FilesOf(p[2]) \in Seq(1 .. parts) /\ Range(FilesOf(p[2])) = PartsOf("file", p[2])
        BY <1>2, <2>3, FilesAreTheParts
      <4>3. FilesOf(p[2]) = <<>> => PartsOf("file", p[2]) = {}
        BY <4>2 DEF Range
      <4>4. FilesOf(p[2]) # <<>> => Head(FilesOf(p[2])) \in PartsOf("file", p[2])
        BY <4>2 DEF Range
      <4>. QED  BY <3>3, <4>1, <4>3, <4>4
    <3>4. CASE p[1] = "body"
      <4>1. Resolve(p[1], p[2]) = FieldsOf(p[2]) /\ p[2] # NotSet
        BY <3>1, <3>4 DEF Resolve, UploadAssumptions
      <4>. QED  BY <1>2, <2>3, <3>4, <4>1, FieldsAreTheParts
    <3>. QED  BY <3>2, <3>3, <3>4 DEF UploadAssumptions
  <2>. QED  BY <2>1, <2>2, <2>3 DEF UploadIsAllOrNothing, ReasonInv
<1>. QED  BY <1>1, <1>2 DEF UploadInv

\* A handler runs with all the parts of its request and only if they keep the
\* limits; a request that is refused exposes nothing.
THEOREM UploadCorrect == UploadSpec => []UploadIsAllOrNothing
<1>1. UploadInit => UploadInv
  BY UploadAssumptions, UploadInitially
<1>2. UploadInv /\ [UploadNext]_uploadVars => UploadInv'
  BY UploadAssumptions, UploadStep
<1>3. UploadInv => UploadIsAllOrNothing
  BY UploadAssumptions, UploadIsWhole
<1>. QED  BY <1>1, <1>2, <1>3, PTL DEF UploadSpec

-----------------------------------------------------------------------------
(* Specificity, and the highest of a list of numbers.                      *)

\* f has the scores of the first labels of p.
IsScore(f, p, n) == f = [m \in 0 .. n |-> IF m = 0 THEN 0 ELSE f[m - 1] + LabelScore(p[m])]

LEMMA ScoreExists ==
    ASSUME NEW p, NEW n \in Nat
    PROVE  \E f : IsScore(f, p, n)
<1>. DEFINE T == {m \in Nat : \E f : IsScore(f, p, m)}
<1>1. 0 \in T
  <2>. DEFINE f == [m \in 0 .. 0 |-> 0]
  <2>1. IsScore(f, p, 0)
    BY DEF IsScore
  <2>. QED  BY <2>1
<1>2. ASSUME NEW m \in T PROVE m + 1 \in T
  <2>1. PICK f : IsScore(f, p, m)
    OBVIOUS
  <2>. DEFINE g == [k \in 0 .. m + 1 |-> IF k = m + 1 THEN f[m] + LabelScore(p[k]) ELSE f[k]]
  <2>2. \A k \in 0 .. m : g[k] = f[k]
    OBVIOUS
  <2>3. \A k \in 0 .. m : f[k] = IF k = 0 THEN 0 ELSE f[k - 1] + LabelScore(p[k])
    BY <2>1 DEF IsScore
  <2>4. ASSUME NEW k \in 0 .. m + 1
        PROVE  g[k] = IF k = 0 THEN 0 ELSE g[k - 1] + LabelScore(p[k])
    <3>1. CASE k = m + 1
      <4>1. k # 0 /\ k - 1 = m /\ g[k - 1] = f[m]
        BY <3>1, <2>2
      <4>2. g[k] = f[m] + LabelScore(p[k])
        BY <3>1
      <4>. QED  BY <4>1, <4>2
    <3>2. CASE k \in 0 .. m
      <4>1. k = 0 \/ k - 1 \in 0 .. m
        BY <3>2
      <4>2. g[k] = f[k] /\ (k # 0 => g[k - 1] = f[k - 1])
        BY <2>2, <3>2, <4>1
      <4>. HIDE DEF g
      <4>. QED  BY <2>3, <3>2, <4>2
    <3>. QED  BY <3>1, <3>2
  <2>5. g = [k \in 0 .. m + 1 |-> g[k]]
    OBVIOUS
  <2>. HIDE DEF g
  <2>6. IsScore(g, p, m + 1)
    BY <2>4, <2>5 DEF IsScore
  <2>. QED  BY <2>6
<1>3. T \in SUBSET Nat
  OBVIOUS
<1>. HIDE DEF T
<1>4. n \in T
  BY <1>1, <1>2, <1>3, NumberInduction
<1>. QED  BY <1>4 DEF T

LEMMA SpecificityIsNat ==
    ASSUME NEW S, NEW p \in Seq(S)
    PROVE  Specificity(p) \in Nat
<1>1. PICK n \in Nat : n = Len(p)
  OBVIOUS
<1>. DEFINE f == CHOOSE g : IsScore(g, p, Len(p))
<1>2. IsScore(f, p, n)
  BY <1>1, ScoreExists
<1>3. Specificity(p) = f[n]
  BY <1>1, Zenon DEF Specificity, IsScore
<1>. HIDE DEF f
<1>4. \A m \in 0 .. n : f[m] = IF m = 0 THEN 0 ELSE f[m - 1] + LabelScore(p[m])
  BY <1>2 DEF IsScore
<1>5. \A x : LabelScore(x) \in Nat
  BY DEF LabelScore
<1>. DEFINE T == {m \in Nat : m <= n => f[m] \in Nat}
<1>6. 0 \in T
  BY <1>4
<1>7. ASSUME NEW m \in T PROVE m + 1 \in T
  <2>. SUFFICES ASSUME m + 1 <= n PROVE f[m + 1] \in Nat
    OBVIOUS
  <2>1. m \in Nat /\ m + 1 \in 0 .. n /\ m + 1 # 0 /\ (m + 1) - 1 = m /\ f[m] \in Nat
    OBVIOUS
  <2>2. f[m + 1] = f[(m + 1) - 1] + LabelScore(p[m + 1])
    BY <1>4, <2>1, Zenon
  <2>3. f[m + 1] = f[m] + LabelScore(p[m + 1])
    BY <2>1, <2>2
  <2>. QED  BY <1>5, <2>1, <2>3
<1>8. T \in SUBSET Nat
  OBVIOUS
<1>. HIDE DEF T
<1>9. n \in T
  BY <1>6, <1>7, <1>8, NumberInduction
<1>. QED  BY <1>3, <1>9 DEF T

LEMMA HighestExists ==
    ASSUME NEW n \in Nat, n # 0, NEW f \in [1 .. n -> Nat]
    PROVE  \E i \in 1 .. n : \A j \in 1 .. n : f[i] >= f[j]
<1>. DEFINE T == {m \in Nat : m = 0 \/ m > n \/ \E i \in 1 .. m : \A j \in 1 .. m : f[i] >= f[j]}
<1>1. 0 \in T
  OBVIOUS
<1>2. ASSUME NEW m \in T PROVE m + 1 \in T
  <2>. SUFFICES ASSUME m + 1 <= n
                PROVE  \E i \in 1 .. m + 1 : \A j \in 1 .. m + 1 : f[i] >= f[j]
    OBVIOUS
  <2>1. PICK k \in 1 .. n : k = m + 1 /\ m \in Nat
    OBVIOUS
  <2>2. \A j \in 1 .. k : f[j] \in Nat /\ (j \in 1 .. m \/ j = k)
    BY <2>1
  <2>3. CASE m = 0
    BY <2>1, <2>2, <2>3
  <2>4. CASE m # 0
    <3>1. PICK i \in 1 .. m : \A j \in 1 .. m : f[i] >= f[j]
      BY <2>1, <2>4
    <3>2. i \in 1 .. k /\ k \in 1 .. k /\ f[i] \in Nat /\ f[k] \in Nat
      BY <2>1, <2>2
    <3>3. CASE f[i] >= f[k]
      <4>1. \A j \in 1 .. k : f[i] >= f[j]
        BY <2>2, <3>1, <3>3
      <4>. QED  BY <2>1, <3>2, <4>1
    <3>4. CASE f[k] > f[i]
      <4>1. ASSUME NEW j \in 1 .. k PROVE f[k] >= f[j]
        <5>1. f[j] \in Nat /\ (j \in 1 .. m \/ j = k)
          BY <2>2
        <5>2. j \in 1 .. m => f[i] >= f[j]
          BY <3>1
        <5>. QED  BY <3>2, <3>4, <5>1, <5>2
      <4>. QED  BY <2>1, <3>2, <4>1
    <3>. QED  BY <3>2, <3>3, <3>4
  <2>. QED  BY <2>3, <2>4
<1>3. T \in SUBSET Nat
  OBVIOUS
<1>. HIDE DEF T
<1>4. n \in T
  BY <1>1, <1>2, <1>3, NumberInduction
<1>. QED  BY <1>4 DEF T

-----------------------------------------------------------------------------
(* The routes of a group.                                                  *)

OneHost(S) == \A r \in S : AreHosts(r.hosts) /\ Len(r.hosts) = 1

\* What a selection of routes has.
LEMMA Selected ==
    ASSUME NEW S, NEW rs \in Seq(S), NEW I, NEW q, q = Select(rs, I)
    PROVE  /\ q \in Seq(S)
           /\ \A r \in Range(q) : \E i \in DOMAIN rs \cap I : r = rs[i]
           /\ \A i \in DOMAIN rs \cap I : rs[i] \in Range(q) /\ q # <<>>
<1>1. /\ q \in Seq(S)
      /\ \A k \in DOMAIN q : \E i \in DOMAIN rs \cap I : q[k] = rs[i]
      /\ \A i \in DOMAIN rs \cap I : \E k \in DOMAIN q : q[k] = rs[i]
  BY SelectHas
<1>2. q = <<>> => DOMAIN q = {}
  OBVIOUS
<1>. QED  BY <1>1, <1>2 DEF Range

LEMMA HeadIsIn ==
    ASSUME NEW S, NEW q \in Seq(S), q # <<>>
    PROVE  Head(q) \in Range(q) /\ Head(q) \in S
<1>1. 1 \in DOMAIN q /\ Head(q) = q[1] /\ q[1] \in S
  OBVIOUS
<1>. QED  BY <1>1 DEF Range

LEMMA VersionMatchIsIn ==
    ASSUME NEW S, NEW q \in Seq(S), q # <<>>, NEW version
    PROVE  VersionMatch(q, version) \in Range(q)
<1>. DEFINE exact == Select(q, {i \in DOMAIN q : version \in Range(q[i].versions)})
            any == Select(q, {i \in DOMAIN q : AcceptsAnyVersion(q[i].versions)})
<1>1. exact \in Seq(S) /\ Range(exact) \subseteq Range(q)
  <2>1. PICK t : t = exact
    OBVIOUS
  <2>2. t \in Seq(S) /\ \A r \in Range(t) : \E i \in DOMAIN q : r = q[i]
    BY <2>1, Selected
  <2>. QED  BY <2>1, <2>2 DEF Range
<1>2. any \in Seq(S) /\ Range(any) \subseteq Range(q)
  <2>1. PICK t : t = any
    OBVIOUS
  <2>2. t \in Seq(S) /\ \A r \in Range(t) : \E i \in DOMAIN q : r = q[i]
    BY <2>1, Selected
  <2>. QED  BY <2>1, <2>2 DEF Range
<1>3. \/ exact # <<>> /\ VersionMatch(q, version) = Head(exact)
      \/ any # <<>> /\ VersionMatch(q, version) = Head(any)
      \/ VersionMatch(q, version) = Head(q)
  <2>. HIDE DEF exact, any
  <2>. QED  BY DEF VersionMatch, exact, any
<1>. HIDE DEF exact, any
<1>. QED  BY <1>1, <1>2, <1>3, HeadIsIn

\* The routes that accept a host, and the most specific of them.
LEMMA AcceptingHas ==
    ASSUME NEW S, NEW rs \in Seq(S), NEW host, NEW q, q = AcceptingHost(rs, host)
    PROVE  /\ q \in Seq(S)
           /\ Range(q) = {r \in Range(rs) : IsHostAccepted(host, r.hosts)}
           /\ q = <<>> <=> {r \in Range(rs) : IsHostAccepted(host, r.hosts)} = {}
<1>. DEFINE I == {i \in DOMAIN rs : IsHostAccepted(host, rs[i].hosts)}
<1>1. /\ q \in Seq(S)
      /\ \A r \in Range(q) : \E i \in DOMAIN rs \cap I : r = rs[i]
      /\ \A i \in DOMAIN rs \cap I : rs[i] \in Range(q) /\ q # <<>>
  <2>1. q = Select(rs, I)
    BY DEF AcceptingHost
  <2>. HIDE DEF I
  <2>. QED  BY <2>1, Selected
<1>2. Range(q) = {r \in Range(rs) : IsHostAccepted(host, r.hosts)}
  BY <1>1 DEF Range
<1>3. q = <<>> <=> Range(q) = {}
  <2>1. q # <<>> => Head(q) \in Range(q)
    BY <1>1, HeadIsIn
  <2>2. q = <<>> => Range(q) = {}
    BY DEF Range
  <2>. QED  BY <2>1, <2>2
<1>. QED  BY <1>1, <1>2, <1>3

\* What a route of one host is compared by.
LEMMA OnlyHost ==
    ASSUME NEW r, AreHosts(r.hosts), Len(r.hosts) = 1, NEW host
    PROVE  /\ DOMAIN r.hosts = {1} /\ Specificity(r.hosts[1]) \in Nat
           /\ IsHostAccepted(host, r.hosts) =>
                  MatchingSpecificity(r, host) = Specificity(r.hosts[1])
<1>1. DOMAIN r.hosts = {1} /\ r.hosts[1] \in Range(r.hosts)
  BY DEF AreHosts, IsList, Range
<1>2. PICK h, v : h = r.hosts[1] /\ v = Specificity(h) /\ v \in Nat
  <2>1. PICK h : h = r.hosts[1] /\ h \in Seq(Range(h))
    BY <1>1 DEF AreHosts, IsList
  <2>. QED  BY <2>1, SpecificityIsNat
<1>3. Max({v}) = v
  BY <1>2 DEF Max
<1>4. ASSUME IsHostAccepted(host, r.hosts) PROVE MatchingSpecificity(r, host) = v
  <2>1. HostMatches(host, h)
    BY <1>1, <1>2, <1>4 DEF IsHostAccepted, Some
  <2>2. Range(r.hosts) = {h}
    BY <1>1, <1>2 DEF Range
  <2>3. {p \in Range(r.hosts) : HostMatches(host, p)} = {h}
    BY <2>1, <2>2
  <2>4. {Specificity(p) : p \in {h}} = {v}
    BY <1>2
  <2>5. {Specificity(p) : p \in {x \in Range(r.hosts) : HostMatches(host, x)}} = {v}
    BY <2>3, <2>4
  <2>. QED  BY <1>3, <2>5 DEF MatchingSpecificity
<1>. QED  BY <1>1, <1>2, <1>4

LEMMA MostSpecificHas ==
    ASSUME NEW S, OneHost(S), NEW rs \in Seq(S), rs # <<>>, NEW q, q = MostSpecific(rs)
    PROVE  /\ q \in Seq(S) /\ q # <<>> /\ Range(q) \subseteq Range(rs)
           /\ \A r \in Range(rs) :
                r \in Range(q) <=> \A s \in Range(rs) : Specificity(r.hosts[1]) >= Specificity(s.hosts[1])
<1>. DEFINE Score(i) == Specificity(rs[i].hosts[1])
            I == {i \in DOMAIN rs : HasHighest(rs, i)}
<1>1. PICK n \in Nat : DOMAIN rs = 1 .. n /\ n # 0
  OBVIOUS
<1>2. \A i \in 1 .. n : rs[i] \in S /\ DOMAIN rs[i].hosts = {1} /\ Score(i) \in Nat
  <2>1. ASSUME NEW i \in 1 .. n PROVE rs[i] \in S /\ DOMAIN rs[i].hosts = {1} /\ Score(i) \in Nat
    <3>1. PICK r \in S : r = rs[i]
      BY <1>1
    <3>. QED  BY <3>1, OnlyHost DEF OneHost
  <2>. QED  BY <2>1
<1>3. \A i \in 1 .. n : HasHighest(rs, i) <=> \A j \in 1 .. n : Score(i) >= Score(j)
  BY <1>1, <1>2 DEF HasHighest, Some
<1>4. /\ q \in Seq(S)
      /\ \A r \in Range(q) : \E i \in DOMAIN rs \cap I : r = rs[i]
      /\ \A i \in DOMAIN rs \cap I : rs[i] \in Range(q) /\ q # <<>>
  <2>1. q = Select(rs, I)
    BY DEF MostSpecific
  <2>. HIDE DEF I
  <2>. QED  BY <2>1, Selected
<1>5. q # <<>>
  <2>1. PICK f : f = [i \in 1 .. n |-> Score(i)]
    OBVIOUS
  <2>2. f \in [1 .. n -> Nat] /\ \A i \in 1 .. n : f[i] = Score(i)
    BY <1>2, <2>1
  <2>3. PICK i \in 1 .. n : \A j \in 1 .. n : f[i] >= f[j]
    BY <1>1, <2>2, HighestExists
  <2>4. i \in DOMAIN rs \cap I
    BY <1>1, <1>3, <2>2, <2>3
  <2>. QED  BY <1>4, <2>4
<1>6. Range(q) \subseteq Range(rs)
  BY <1>4 DEF Range
<1>7. Range(rs) = {rs[i] : i \in 1 .. n}
  BY <1>1 DEF Range
<1>8. ASSUME NEW r \in Range(rs)
      PROVE  r \in Range(q) <=> \A s \in Range(rs) : Specificity(r.hosts[1]) >= Specificity(s.hosts[1])
  <2>1. ASSUME r \in Range(q), NEW s \in Range(rs)
        PROVE  Specificity(r.hosts[1]) >= Specificity(s.hosts[1])
    <3>1. PICK i \in 1 .. n : r = rs[i] /\ HasHighest(rs, i)
      BY <1>1, <1>4, <2>1
    <3>2. PICK j \in 1 .. n : s = rs[j]
      BY <1>7, <2>1
    <3>. QED  BY <1>3, <3>1, <3>2
  <2>2. ASSUME \A s \in Range(rs) : Specificity(r.hosts[1]) >= Specificity(s.hosts[1])
        PROVE  r \in Range(q)
    <3>1. PICK i \in 1 .. n : r = rs[i]
      BY <1>7
    <3>2. \A j \in 1 .. n : Score(i) >= Score(j)
      BY <1>7, <2>2, <3>1
    <3>. QED  BY <1>1, <1>3, <1>4, <3>1, <3>2
  <2>. QED  BY <2>1, <2>2
<1>. QED  BY <1>4, <1>5, <1>6, <1>8

-----------------------------------------------------------------------------
(* The route of a group that answers.                                      *)

Concrete(version) == version # Absent /\ ~IsWildcardVersion(version)

\* A route that names the version, or accepts it, is not passed over for one that does not.
LEMMA VersionMatchIsBest ==
    ASSUME NEW S, NEW q \in Seq(S), NEW version, NEW r \in Range(q)
    PROVE  /\ Concrete(version) /\ version \in Range(r.versions) =>
                  version \in Range(VersionMatch(q, version).versions)
           /\ IsVersionAccepted(version, r.versions) =>
                  IsVersionAccepted(version, VersionMatch(q, version).versions)
<1>. DEFINE I == {i \in DOMAIN q : version \in Range(q[i].versions)}
            J == {i \in DOMAIN q : AcceptsAnyVersion(q[i].versions)}
<1>1. PICK exact, any : exact = Select(q, I) /\ any = Select(q, J)
  OBVIOUS
<1>2. /\ exact \in Seq(S)
      /\ \A x \in Range(exact) : version \in Range(x.versions)
      /\ version \in Range(r.versions) => exact # <<>>
  <2>1. /\ exact \in Seq(S)
        /\ \A x \in Range(exact) : \E i \in DOMAIN q \cap I : x = q[i]
        /\ \A i \in DOMAIN q \cap I : exact # <<>>
    <3>. HIDE DEF I
    <3>. QED  BY <1>1, Selected
  <2>2. PICK k \in DOMAIN q : r = q[k]
    BY DEF Range
  <2>3. version \in Range(r.versions) => k \in I
    BY <2>2
  <2>4. \A i \in DOMAIN q \cap I : version \in Range(q[i].versions)
    OBVIOUS
  <2>. HIDE DEF I
  <2>. QED  BY <2>1, <2>2, <2>3, <2>4
<1>3. /\ any \in Seq(S)
      /\ \A x \in Range(any) : AcceptsAnyVersion(x.versions)
      /\ AcceptsAnyVersion(r.versions) => any # <<>>
  <2>1. /\ any \in Seq(S)
        /\ \A x \in Range(any) : \E i \in DOMAIN q \cap J : x = q[i]
        /\ \A i \in DOMAIN q \cap J : any # <<>>
    <3>. HIDE DEF J
    <3>. QED  BY <1>1, Selected
  <2>. QED  BY <2>1 DEF Range
<1>4. VersionMatch(q, version) =
        IF Concrete(version) /\ exact # <<>> THEN Head(exact) ELSE IF any # <<>> THEN Head(any) ELSE Head(q)
  BY <1>1 DEF VersionMatch, Concrete
<1>6. Concrete(version) /\ exact # <<>> => VersionMatch(q, version) = Head(exact)
  BY <1>4
<1>7. ~(Concrete(version) /\ exact # <<>>) /\ any # <<>> => VersionMatch(q, version) = Head(any)
  BY <1>4
<1>5. /\ exact # <<>> => version \in Range(Head(exact).versions)
      /\ any # <<>> => AcceptsAnyVersion(Head(any).versions)
  BY <1>2, <1>3, HeadIsIn
<1>8. Concrete(version) /\ version \in Range(r.versions) =>
          version \in Range(VersionMatch(q, version).versions)
  BY <1>2, <1>5, <1>6
<1>9. ASSUME IsVersionAccepted(version, r.versions)
      PROVE  IsVersionAccepted(version, VersionMatch(q, version).versions)
  <2>1. CASE Concrete(version) /\ exact # <<>>
    BY <1>5, <1>6, <2>1 DEF IsVersionAccepted, Concrete
  <2>2. CASE ~(Concrete(version) /\ exact # <<>>)
    <3>1. AcceptsAnyVersion(r.versions) \/ (version # Absent /\ version \in Range(r.versions))
      BY <1>9 DEF IsVersionAccepted
    <3>2. version # Absent /\ version \in Range(r.versions) => IsWildcardVersion(version)
      BY <1>2, <2>2 DEF Concrete
    <3>3. version \in Range(r.versions) /\ IsWildcardVersion(version) => AcceptsAnyVersion(r.versions)
      BY DEF AcceptsAnyVersion, Some, Range
    <3>4. any # <<>>
      BY <1>3, <3>1, <3>2, <3>3
    <3>. QED  BY <1>5, <1>7, <2>2, <3>4 DEF IsVersionAccepted
  <2>. QED  BY <2>1, <2>2
<1>. QED  BY <1>8, <1>9

Accepting(rs, host) == {r \in Range(rs) : IsHostAccepted(host, r.hosts)}

\* What HostMatch and VersionMatch pick from a group of routes of one host each.
LEMMA PickedIsBest ==
    ASSUME NEW S, OneHost(S), NEW rs \in Seq(S), rs # <<>>, NEW host, NEW version,
           NEW route, route = VersionMatch(HostMatch(rs, host), version)
    PROVE  /\ route \in Range(rs)
           /\ Accepting(rs, host) # {} => route \in Accepting(rs, host)
           /\ \A r \in Accepting(rs, host) :
                /\ ~Prefers(r, route, host, version)
                /\ /\ MatchingSpecificity(r, host) = MatchingSpecificity(route, host)
                   /\ IsVersionAccepted(version, r.versions)
                   => IsVersionAccepted(version, route.versions)
<1>1. PICK a, q : a = AcceptingHost(rs, host) /\ q = HostMatch(rs, host)
  OBVIOUS
<1>2. a \in Seq(S) /\ Range(a) = Accepting(rs, host) /\ (a = <<>> <=> Accepting(rs, host) = {})
  BY <1>1, AcceptingHas DEF Accepting
<1>3. CASE a = <<>>
  <2>1. q = <<Head(rs)>>
    BY <1>1, <1>3 DEF HostMatch
  <2>2. q \in Seq(S) /\ q # <<>> /\ Range(q) = {Head(rs)}
    BY <2>1, HeadIsIn DEF Range
  <2>3. route = Head(rs)
    BY <1>1, <2>2, VersionMatchIsIn
  <2>. QED  BY <1>2, <1>3, <2>3, HeadIsIn
<1>4. CASE a # <<>>
  <2>1. q = MostSpecific(a)
    BY <1>1, <1>4 DEF HostMatch
  <2>2. /\ q \in Seq(S) /\ q # <<>> /\ Range(q) \subseteq Range(a)
        /\ \A r \in Range(a) :
             r \in Range(q) <=> \A s \in Range(a) : Specificity(r.hosts[1]) >= Specificity(s.hosts[1])
    BY <1>2, <1>4, <2>1, MostSpecificHas
  <2>3. route \in Range(q) /\ route \in Range(a)
    BY <1>1, <2>2, VersionMatchIsIn
  <2>4. \A r \in Range(a) : /\ Specificity(r.hosts[1]) \in Nat
                            /\ MatchingSpecificity(r, host) = Specificity(r.hosts[1])
    <3>1. \A r \in Range(a) : r \in S /\ IsHostAccepted(host, r.hosts)
      BY <1>2 DEF Accepting, Range
    <3>. QED  BY <3>1, OnlyHost DEF OneHost
  <2>5. ASSUME NEW r \in Range(a)
        PROVE  /\ MatchingSpecificity(route, host) \in Nat /\ MatchingSpecificity(r, host) \in Nat
               /\ MatchingSpecificity(route, host) >= MatchingSpecificity(r, host)
               /\ MatchingSpecificity(route, host) = MatchingSpecificity(r, host) => r \in Range(q)
    <3>1. \A s \in Range(a) : Specificity(route.hosts[1]) >= Specificity(s.hosts[1])
      BY <2>2, <2>3
    <3>. QED  BY <2>2, <2>3, <2>4, <3>1
  <2>6. \A r \in Range(q) :
           /\ Concrete(version) /\ version \in Range(r.versions) => version \in Range(route.versions)
           /\ IsVersionAccepted(version, r.versions) => IsVersionAccepted(version, route.versions)
    BY <1>1, <2>2, VersionMatchIsBest
  <2>7. ASSUME NEW r \in Range(a), Prefers(r, route, host, version) PROVE FALSE
    <3>1. ~(MatchingSpecificity(r, host) > MatchingSpecificity(route, host))
      BY <2>5, <2>7
    <3>2. /\ MatchingSpecificity(r, host) = MatchingSpecificity(route, host)
          /\ Concrete(version)
          /\ version \in Range(r.versions) /\ version \notin Range(route.versions)
      BY <2>7, <3>1 DEF Prefers, Concrete
    <3>. QED  BY <2>5, <2>6, <3>2
  <2>8. ASSUME NEW r \in Range(a),
               MatchingSpecificity(r, host) = MatchingSpecificity(route, host),
               IsVersionAccepted(version, r.versions)
        PROVE  IsVersionAccepted(version, route.versions)
    BY <2>5, <2>6, <2>8
  <2>9. Range(a) \subseteq Range(rs)
    BY <1>2 DEF Accepting
  <2>. QED  BY <1>2, <2>3, <2>7, <2>8, <2>9
<1>. QED  BY <1>3, <1>4

-----------------------------------------------------------------------------
(* The groups are lists of routes, and the answer is that of the group.    *)

IsGroup(rs) == /\ IsList(rs) /\ rs # <<>>
               /\ \A r \in Range(rs) : AreHosts(r.hosts)

RoutesOk ==
    /\ controllers \in RoutedApplications
    /\ registration # "new" => IsList(routes) /\ \A rs \in Range(routes) : IsGroup(rs)
AnswerOk ==
    answer # NoAnswer => /\ registration = "serving"
                         /\ answer = Answer(answer.request)
RoutingInv == RoutesOk /\ AnswerOk

LEMMA RoutesOfAreHosted ==
    ASSUME RoutingAssumptions, NEW application \in RoutedApplications, NEW c \in Range(application)
    PROVE  /\ IsList(RoutesOf(c))
           /\ \A r \in Range(RoutesOf(c)) : AreHosts(r.hosts)
<1>1. IsList(c.routes) /\ (c.host # Absent => AreHosts(c.host))
  BY DEF RoutingAssumptions
<1>2. PICK n \in Nat : DOMAIN c.routes = 1 .. n
  BY <1>1 DEF IsList
<1>3. PICK rs : rs = RoutesOf(c)
  OBVIOUS
<1>4. DOMAIN rs = 1 .. n /\ \A i \in 1 .. n : rs[i].hosts = Default(c.host, <<AnyHost>>)
  BY <1>2, <1>3 DEF RoutesOf
<1>5. IsList(rs)
  <2>1. rs = [i \in 1 .. n |-> rs[i]]
    BY <1>2, <1>3 DEF RoutesOf
  <2>2. \A i \in 1 .. n : rs[i] \in Range(rs)
    BY <1>4 DEF Range
  <2>. QED  BY <1>2, <2>1, <2>2 DEF IsList
<1>6. AreHosts(Default(c.host, <<AnyHost>>))
  <2>1. IsList(AnyHost)
    BY DEF AnyHost, IsList, Range
  <2>2. AreHosts(<<AnyHost>>)
    BY <2>1 DEF AreHosts, IsList, Range
  <2>. QED  BY <1>1, <2>2 DEF Default
<1>. QED  BY <1>3, <1>4, <1>5, <1>6 DEF Range

\* RouteGenerator.generate makes groups of what the controllers declare.
LEMMA GeneratedAreGroups ==
    ASSUME RoutingAssumptions, NEW application \in RoutedApplications,
           NEW rs, rs = Flat([i \in DOMAIN application |-> RoutesOf(application[i])])
    PROVE  /\ IsList(GroupRoutes(rs))
           /\ \A q \in Range(GroupRoutes(rs)) : IsGroup(q)
<1>. DEFINE S == UNION {Range(RoutesOf(c)) : c \in Range(application)}
            I == {i \in DOMAIN rs : \A j \in 1 .. i - 1 : ~SameKey(rs[j], rs[i])}
            Same(k) == {i \in DOMAIN rs : SameKey(rs[k], rs[i])}
<1>1. PICK n \in Nat : DOMAIN application = 1 .. n
  BY DEF RoutingAssumptions, IsList
<1>2. \A r \in S : AreHosts(r.hosts)
  BY RoutesOfAreHosted
<1>3. [i \in DOMAIN application |-> RoutesOf(application[i])] \in Seq(Seq(S))
  <2>1. ASSUME NEW c \in Range(application) PROVE RoutesOf(c) \in Seq(S)
    <3>1. IsList(RoutesOf(c)) /\ Range(RoutesOf(c)) \subseteq S
      BY RoutesOfAreHosted
    <3>. QED  BY <3>1 DEF IsList
  <2>2. \A i \in 1 .. n : application[i] \in Range(application)
    BY <1>1 DEF Range
  <2>3. \A i \in 1 .. n : RoutesOf(application[i]) \in Seq(S)
    BY <2>1, <2>2
  <2>. QED  BY <1>1, <2>3
<1>. HIDE DEF S
<1>4. rs \in Seq(S)
  BY <1>3, FlatHas
<1>5. PICK firsts : firsts = Select([i \in DOMAIN rs |-> i], I)
  OBVIOUS
<1>6. PICK m \in Nat : DOMAIN firsts = 1 .. m /\ \A g \in 1 .. m : firsts[g] \in DOMAIN rs
  <2>1. PICK t, D : D = DOMAIN rs /\ t = [i \in DOMAIN rs |-> i]
    OBVIOUS
  <2>2. t \in Seq(D)
    <3>1. PICK l \in Nat : DOMAIN rs = 1 .. l
      BY <1>4
    <3>2. t = [i \in 1 .. l |-> i] /\ D = 1 .. l
      BY <2>1, <3>1
    <3>3. t \in [1 .. l -> D]
      BY <3>2
    <3>. QED  BY <3>3, <3>1
  <2>3. firsts \in Seq(D)
    BY <1>5, <2>1, <2>2, Selected
  <2>. QED  BY <2>1, <2>3
<1>7. PICK groups : groups = GroupRoutes(rs)
  OBVIOUS
<1>8. groups = [g \in 1 .. m |-> Select(rs, Same(firsts[g]))]
  BY <1>5, <1>6, <1>7 DEF GroupRoutes
<1>9. ASSUME NEW k \in DOMAIN rs PROVE IsGroup(Select(rs, Same(k)))
  <2>1. PICK q : q = Select(rs, Same(k))
    OBVIOUS
  <2>2. k \in DOMAIN rs \cap Same(k)
    BY DEF SameKey
  <2>3. q \in Seq(S) /\ q # <<>>
    <3>. HIDE DEF Same
    <3>. QED  BY <1>4, <2>1, <2>2, Selected
  <2>4. IsList(q) /\ Range(q) \subseteq S
    BY <2>3 DEF Range, IsList
  <2>. HIDE DEF Same
  <2>. QED  BY <1>2, <2>1, <2>3, <2>4 DEF IsGroup
<1>. HIDE DEF Same
<1>10. IsList(groups)
  <2>1. DOMAIN groups = 1 .. m /\ \A g \in 1 .. m : groups[g] \in Range(groups)
    BY <1>8 DEF Range
  <2>2. groups = [g \in 1 .. m |-> groups[g]]
    BY <1>8
  <2>. QED  BY <2>1, <2>2 DEF IsList
<1>11. \A q \in Range(groups) : IsGroup(q)
  <2>1. \A q \in Range(groups) : \E g \in 1 .. m : q = Select(rs, Same(firsts[g]))
    BY <1>8 DEF Range
  <2>. QED  BY <1>6, <1>9, <2>1
<1>. QED  BY <1>7, <1>10, <1>11

LEMMA RoutingInvInit ==
    ASSUME RoutingInit PROVE RoutingInv
BY DEF RoutingInit, RoutingInv, RoutesOk, AnswerOk

LEMMA RoutingInvNext ==
    ASSUME RoutingAssumptions, RoutingInv, [RoutingNext]_routingVars
    PROVE  RoutingInv'
<1>. USE DEF RoutingInv
<1>1. CASE GenerateRoutes
  <2>1. RoutesOk'
    BY <1>1, GeneratedAreGroups DEF GenerateRoutes, RoutesOk
  <2>2. AnswerOk'
    BY <1>1 DEF GenerateRoutes, AnswerOk
  <2>. QED  BY <2>1, <2>2
<1>2. CASE Validate
  <2>1. RoutesOk'
    BY <1>2 DEF Validate, RoutesOk
  <2>2. AnswerOk'
    BY <1>2 DEF Validate, AnswerOk
  <2>. QED  BY <2>1, <2>2
<1>3. ASSUME NEW request \in RoutedRequests, Execute(request) PROVE RoutingInv'
  <2>1. RoutesOk'
    BY <1>3 DEF Execute, RoutesOk
  <2>2. Answer(request).request = request
    BY DEF Answer
  <2>3. answer' = Answer(request) /\ answer'.request = request /\ registration' = "serving"
    BY <1>3, <2>2 DEF Execute
  <2>4. Answer(request)' = Answer(request)
    BY <1>3 DEF Execute, Answer, MatchingGroups, Dispatched, ResolvedVersion, GuardStatus
  <2>5. AnswerOk'
    BY <2>3, <2>4 DEF AnswerOk
  <2>. QED  BY <2>1, <2>5
<1>4. CASE UNCHANGED routingVars
  <2>1. RoutesOk'
    BY <1>4 DEF routingVars, RoutesOk
  <2>2. AnswerOk'
    BY <1>4 DEF routingVars, AnswerOk, Answer, MatchingGroups, Dispatched, ResolvedVersion, GuardStatus
  <2>. QED  BY <2>1, <2>2
<1>. QED  BY <1>1, <1>2, <1>3, <1>4 DEF RoutingNext

LEMMA InvGivesBestRoute ==
    ASSUME RoutingInv PROVE BestRouteAnswers
<1>. SUFFICES ASSUME answer.route # Absent, HaveOneHost PROVE BestRouteAnswers
  BY DEF BestRouteAnswers
<1>. DEFINE request == answer.request
            version == ResolvedVersion(request)
            route == answer.route
<1>1. /\ registration = "serving" /\ answer = Answer(request)
      /\ IsList(routes) /\ \A rs \in Range(routes) : IsGroup(rs)
  BY DEF RoutingInv, AnswerOk, RoutesOk, NoAnswer
<1>2. MatchingGroups(request) # {}
  BY <1>1 DEF Answer
<1>3. PICK g \in DOMAIN routes : g = Dispatched(request)
  <2>1. MatchingGroups(request) \subseteq DOMAIN routes /\ MatchingGroups(request) \in SUBSET Nat
    BY <1>1 DEF MatchingGroups, IsList
  <2>2. PICK x \in MatchingGroups(request) : \A y \in MatchingGroups(request) : x <= y
    BY <1>2, <2>1, LeastExists
  <2>3. Dispatched(request) \in MatchingGroups(request)
    BY <2>2 DEF Dispatched, Min
  <2>. QED  BY <2>1, <2>3
<1>4. PICK rs : rs = routes[g] /\ IsGroup(rs)
  BY <1>1 DEF Range
<1>5. OneHost(Range(rs))
  <2>. DEFINE S == UNION {Range(q) : q \in Range(routes)}
  <2>1. routes \in Seq(Seq(S))
    <3>1. ASSUME NEW q \in Range(routes) PROVE q \in Seq(S)
      <4>1. IsList(q) /\ Range(q) \subseteq S
        BY <1>1 DEF IsGroup
      <4>. QED  BY <4>1 DEF IsList
    <3>. QED  BY <1>1, <3>1 DEF IsList
  <2>2. \A i \in DOMAIN routes : \A j \in DOMAIN routes[i] :
            \E k \in DOMAIN Declared : Declared[k] = routes[i][j]
    <3>. HIDE DEF S
    <3>. QED  BY <2>1, FlatHas DEF Declared
  <2>3. Range(rs) \subseteq Range(Declared)
    BY <1>4, <2>2 DEF Range
  <2>. QED  BY <1>4, <2>3 DEF HaveOneHost, OneHost, IsGroup
<1>6. route = VersionMatch(HostMatch(rs, request.host), version)
  BY <1>1, <1>2, <1>3, <1>4 DEF Answer
<1>7. answer.status = GuardStatus(route, request.host, version)
  BY <1>1, <1>2, <1>3, <1>4 DEF Answer
<1>8. PICK host, v, x : host = request.host /\ v = version /\ x = route
  OBVIOUS
<1>9. /\ x \in Range(rs)
      /\ Accepting(rs, host) # {} => x \in Accepting(rs, host)
      /\ \A r \in Accepting(rs, host) :
           /\ ~Prefers(r, x, host, v)
           /\ /\ MatchingSpecificity(r, host) = MatchingSpecificity(x, host)
              /\ IsVersionAccepted(v, r.versions)
              => IsVersionAccepted(v, x.versions)
  <2>1. IsList(rs) /\ rs # <<>>
    BY <1>4 DEF IsGroup
  <2>2. x = VersionMatch(HostMatch(rs, host), v)
    BY <1>6, <1>8
  <2>. QED  BY <1>5, <2>1, <2>2, PickedIsBest DEF IsList
<1>10. answer.status = GuardStatus(x, host, v)
  BY <1>7, <1>8
<1>11. (answer.status = "NotFound") = (Accepting(rs, host) = {})
  BY <1>9, <1>10 DEF GuardStatus, Accepting
<1>12. answer.status = "BadRequest" => ~IsVersionAccepted(v, x.versions)
  BY <1>10 DEF GuardStatus
<1>13. Accepting(rs, host) = {r \in Range(routes[Dispatched(request)]) : IsHostAccepted(request.host, r.hosts)}
  BY <1>3, <1>4, <1>8 DEF Accepting
<1>. HIDE DEF request, version, route
<1>. QED  BY <1>8, <1>9, <1>11, <1>12, <1>13 DEF BestRouteAnswers, request, version, route

\* Whatever controllers, hosts, versions and requests: of the routes of one
\* path, the one that answers matches the request best (HostMatcher,
\* VersionMatcher), when every route has one host.
THEOREM BestRouteCorrect ==
    ASSUME RoutingAssumptions PROVE RoutingSpec => []BestRouteAnswers
<1>1. RoutingInit => RoutingInv
  BY RoutingInvInit
<1>2. RoutingInv /\ [RoutingNext]_routingVars => RoutingInv'
  BY RoutingInvNext
<1>3. RoutingInv => BestRouteAnswers
  BY InvGivesBestRoute
<1>. QED  BY <1>1, <1>2, <1>3, PTL DEF RoutingSpec
=============================================================================

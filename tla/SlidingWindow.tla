---------------------------- MODULE SlidingWindow ----------------------------
(***************************************************************************)
(* What a rate limit promises: a key is admitted while fewer than its      *)
(* limit of admissions lie in the last ttl milliseconds, and a refusal     *)
(* names the time until there is room. An admission leaves the window at   *)
(* the very moment it expires; HttpRateLimit implements this with buckets  *)
(* that are cleaned when they are used, and from time to time.             *)
(***************************************************************************)
EXTENDS Integers, Sequences, Selection

CONSTANTS Keys, Unlimited, MaxTime

VARIABLES
    now,
    policies,   \* key -> [ttl, limit], or Unlimited
    window,     \* key -> the times of its admissions that have not expired
    decisions   \* key -> its last decision

vars == <<now, policies, window, decisions>>

NoDecision == [allowed |-> TRUE, at |-> 0, retryAfterMs |-> 0]
Live(timestamps, ttl, time) == Select(timestamps, {i \in DOMAIN timestamps : timestamps[i] + ttl > time})

Init ==
    /\ now = 0
    /\ policies \in [Keys -> [ttl : Nat, limit : Nat] \cup {Unlimited}]
    /\ window = [k \in Keys |-> <<>>]
    /\ decisions = [k \in Keys |-> NoDecision]

Tick ==
    /\ now < MaxTime
    /\ now' = now + 1
    /\ window' = [k \in Keys |-> IF policies[k] = Unlimited THEN window[k]
                                 ELSE Live(window[k], policies[k].ttl, now')]
    /\ UNCHANGED <<policies, decisions>>

Decide(k, allowed, retryAfterMs) ==
    decisions' = [decisions EXCEPT ![k] =
                    [allowed |-> allowed, at |-> now, retryAfterMs |-> retryAfterMs]]

Pass(k) ==
    /\ policies[k] = Unlimited
    /\ Decide(k, TRUE, 0)
    /\ UNCHANGED <<now, policies, window>>

Admit(k) ==
    /\ policies[k] # Unlimited /\ Len(window[k]) < policies[k].limit
    /\ window' = [window EXCEPT ![k] = Live(Append(@, now), policies[k].ttl, now)]
    /\ Decide(k, TRUE, 0)
    /\ UNCHANGED <<now, policies>>

Refuse(k) ==
    /\ policies[k] # Unlimited /\ Len(window[k]) >= policies[k].limit
    /\ Decide(k, FALSE, IF window[k] = <<>> THEN policies[k].ttl
                        ELSE Head(window[k]) + policies[k].ttl - now)
    /\ UNCHANGED <<now, policies, window>>

Next == Tick \/ \E k \in Keys : Pass(k) \/ Admit(k) \/ Refuse(k)

Spec == Init /\ [][Next]_vars
=============================================================================

---------------------------- MODULE MCContainer ----------------------------
(* Small graphs of providers for Container, all of them and a few chosen.  *)
EXTENDS Container, FiniteSets

CONSTANTS a, b, d, c1, c2

Tokens == {a, b, d}

\* Lists of at most two different dependencies.
DepLists == {<<>>} \cup {<<x>> : x \in Tokens}
            \cup {s \in {<<x, y>> : x, y \in Tokens} : s[1] # s[2]}

Classes(t) == {UseClass(t, s, l) : s \in Scopes, l \in DepLists}

\* The third token: a value, nothing, an alias, the class of another token, a factory.
Others == {UseValue(0), Unbound, UseExisting(a), UseClass(a, "singleton", <<>>)}
          \cup {UseFactory(d, s, <<b>>) : s \in Scopes}

EveryGraph ==
    {[t \in Tokens |-> CASE t = a -> p [] t = b -> q [] t = d -> r] :
        p \in Classes(a), q \in {x \in Classes(b) : Len(x.deps) < 2 \/ x.deps \in {<<a, d>>, <<d, a>>}}, r \in Others}

\* Without cycles: a may use b and d, b may use d.
SomeScope == {UseClass(b, s, l) : s \in Scopes, l \in {<<>>, <<d>>}}
SoundScopes(m) ==
    \A t \in Tokens : IsMaker(m[t]) => \A i \in DOMAIN m[t].deps :
        LET p == m[m[t].deps[i]] IN
        \/ p.kind = "value"
        \/ IsMaker(p) /\ p.scope = "singleton"
        \/ IsMaker(p) /\ p.scope = "scoped" /\ m[t].scope = "scoped"
        \/ IsMaker(p) /\ p.scope = "transient" /\ m[t].scope # "singleton"
SoundGraphs ==
    {m \in {[t \in Tokens |-> CASE t = a -> UseClass(a, s, l) [] t = b -> q [] t = d -> r] :
                s \in Scopes, l \in {<<b>>, <<b, d>>, <<d, b>>},
                q \in SomeScope, r \in {UseValue(0)} \cup {UseFactory(d, s, <<>>) : s \in Scopes}} :
        SoundScopes(m)}

\* A few graphs for concurrent callers: sound ones, a cycle, a captive.
SharedGraphs ==
    {[t \in Tokens |-> CASE t = a -> UseClass(a, s, <<d, b>>) [] t = b -> q
                         [] t = d -> UseFactory(d, "singleton", <<>>)] :
        s \in {"singleton", "scoped"},
        q \in {UseClass(b, "singleton", <<>>), UseClass(b, "transient", <<d>>),
               UseClass(b, "singleton", <<d, a>>)}}

\* A singleton that uses a transient.
CaptiveGraph ==
    {[t \in Tokens |-> CASE t = a -> UseClass(a, "singleton", <<b>>)
                         [] t = b -> UseClass(b, "transient", <<>>)
                         [] t = d -> UseValue(0)]}

Loads(graphs, callers, mayFail, maxCalls) ==
    [providers : graphs, callers : {callers}, mayFail : {mayFail}, maxCalls : {maxCalls}]

\* One call on any graph, three in a row on sound ones, three that overlap.
EveryLoad ==
    Loads(EveryGraph, {c1}, {b}, 1) \cup Loads(SoundGraphs, {c1}, {b, d}, 3)
        \cup Loads(SharedGraphs, {c1, c2}, {d}, 3)

SoundOverlaps == Loads(SoundGraphs, {c1, c2}, {}, 2)
AfterCaptive == Loads(CaptiveGraph, {c1}, {}, 2)
=============================================================================

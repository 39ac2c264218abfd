---------------------------- MODULE ExecutionSteps ----------------------------
(***************************************************************************)
(* packages/engine: the order in which ExecutionPlanner puts the steps of  *)
(* a plan. A step is a record of at least its type, its scope if it is an  *)
(* interceptor, global, priority and id, its place in the order of         *)
(* declaration.                                                            *)
(***************************************************************************)
EXTENDS Naturals, Sequences, Selection

Types == {"middleware", "guard", "interceptor", "filter"}

\* Not the code: for the mutants.
EarlierFirst(x, y) == x.id < y.id

HigherFirst(x, y) ==
    \/ x.priority > y.priority
    \/ x.priority = y.priority /\ x.id < y.id

\* Array.prototype.sort is stable: steps of one priority keep the order of
\* their declaration. Each step is put behind those it does not precede.
Insert(sorted, x) ==
    LET k == CHOOSE k \in 0 .. Len(sorted) : \A i \in DOMAIN sorted : i <= k <=> HigherFirst(sorted[i], x) IN
    [i \in 1 .. Len(sorted) + 1 |-> IF i <= k THEN sorted[i] ELSE IF i = k + 1 THEN x ELSE sorted[i - 1]]
Sort(s) ==
    LET upTo[n \in 0 .. Len(s)] == IF n = 0 THEN <<>> ELSE Insert(upTo[n - 1], s[n])
    IN upTo[Len(s)]

GetSteps(s, type, global) ==
    LET final == Select(s, {i \in DOMAIN s : s[i].type = type /\ s[i].global = global}) IN
    IF global THEN Sort(final) ELSE final

GetAll(s, type) == GetSteps(s, type, TRUE) \o GetSteps(s, type, FALSE)
InScope(s, scope) == Select(s, {i \in DOMAIN s : s[i].scope = scope})
ToReversed(s) == [i \in 1 .. Len(s) |-> s[Len(s) + 1 - i]]

Before(s) == GetAll(s, "middleware") \o GetAll(s, "guard")
             \o InScope(GetAll(s, "interceptor"), "before")

After(s) == ToReversed(InScope(GetAll(s, "interceptor"), "after"))

Catch(s) == ToReversed(GetSteps(s, "filter", FALSE)) \o GetSteps(s, "filter", TRUE)

-----------------------------------------------------------------------------
(* The order they should be in, pair by pair.                              *)

Elements(s) == {s[i] : i \in DOMAIN s}
SortedBy(s, R(_, _)) == \A i, j \in DOMAIN s : i < j => R(s[i], s[j])

\* Of one type global ones come first, by priority, then as declared; before
\* steps are middlewares, guards, then interceptors.
Rank(x) == CASE x.type = "middleware" -> 1 [] x.type = "guard" -> 2
             [] x.type = "interceptor" -> 3 [] x.type = "filter" -> 4
Outer(x, y) ==
    \/ x.global /\ ~y.global
    \/ x.global = y.global /\ x.priority > y.priority
    \/ x.global = y.global /\ x.priority = y.priority /\ x.id < y.id
Precedes(x, y) ==
    \/ Rank(x) < Rank(y)
    \/ Rank(x) = Rank(y) /\ Outer(x, y)
Inner(x, y) == Outer(y, x)

\* Of the filters those nearest to the handler come first: its own, the last
\* one declared first, then the global ones by priority.
Nearer(x, y) ==
    \/ ~x.global /\ y.global
    \/ ~x.global /\ ~y.global /\ Inner(x, y)
    \/ x.global /\ y.global /\ Outer(x, y)
=============================================================================

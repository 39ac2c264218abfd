------------------------------ MODULE CoreProofs ------------------------------
(***************************************************************************)
(* Proofs about PluginRegistry and AxiSparkCore, for every set of plugins  *)
(* and every family of dependency declarations: the registry first, then   *)
(* the bootstrap, which implements the specification of the registry, so   *)
(* that every theorem about the registry is one about the application.     *)
(***************************************************************************)
EXTENDS AxiSparkCore, FiniteSetTheorems, TLAPS

NoRepeat(s) == \A k, l \in DOMAIN s : s[k] = s[l] => k = l

\* What the order satisfies from the first turn of the sort to the end.
OrderInv ==
    /\ NoRepeat(plugins)
    /\ Elements(executionOrder) \subseteq Registered
    /\ TopologicalOrder
    /\ phase = "new" => executionOrder = <<>>

\* The loop invariant of Kahn's algorithm.
SortInv ==
    phase = "sorting" =>
        /\ NoRepeat(queue)
        /\ Elements(queue) \subseteq Registered \ Elements(executionOrder)
        /\ \A p \in Registered :
            /\ pending[p] = Deps(p) \ Elements(executionOrder)
            /\ pending[p] = {} <=> p \in Elements(executionOrder) \cup Elements(queue)

\* Instances only exist once the sort has placed every registered plugin.
FullInv ==
    /\ instances # {} \/ phase \in {"onRegister", "initialized", "onStart", "running"} =>
           Elements(executionOrder) = Registered
    /\ phase \in {"new", "sorting"} => instances = {}

\* A set of sorted plugins always has a member that depends on none of them.
NoCycleSorted ==
    \A S \in SUBSET Elements(executionOrder) : S # {} => \E p \in S : Deps(p) \cap S = {}

CircularInv ==
    /\ phase \in {"new", "sorting"} => failure = "none"
    /\ failure = "circular" => Cyclic

\* A hook only runs for a plugin that has an instance and has not failed.
HookInv ==
    /\ hook = "running" => Current \in instances /\ ~Failed(Current)
    /\ \A p \in Plugin : ~Failed(p) => stateError[p] = "none"

\* The plugins the loop has passed.
LoopInv ==
    /\ phase = "onStart" =>
        \A k \in DOMAIN executionOrder : k < pos =>
            /\ state[executionOrder[k]] \in {"started", "error"}
            /\ stateError[executionOrder[k]] # "onRegister"
    /\ phase = "onStop" =>
        \A k \in DOMAIN executionOrder : k > Len(executionOrder) + 1 - pos =>
            state[executionOrder[k]] \in {"stopped", "error"}

\* What a loop leaves behind when it ends.
EndInv ==
    /\ phase = "running" =>
        \/ \E p \in Registered : Failed(p)
        \/ \A p \in Registered : state[p] = "started"
    /\ phase = "destroyed" /\ instances # {} =>
        \/ \E p \in Registered : Failed(p)
        \/ \A p \in Registered : state[p] = "stopped"

\* The loops are at a position of the order while a hook runs.
TypeInv == TypeOK /\ pos >= 1 /\ (hook = "running" => phase \in Hook /\ ~LoopDone)

\* A plugin gets its instance in its turn of the onRegister loop, before which
\* it cannot have failed; an init that resolved leaves none without.
InstanceInv ==
    /\ phase \in {"new", "sorting"} => \A p \in Plugin : ~Failed(p)
    /\ phase = "onRegister" =>
        \A k \in DOMAIN executionOrder :
            IF k < pos THEN executionOrder[k] \in instances ELSE ~Failed(executionOrder[k])
    /\ phase \in {"initialized", "onStart", "running", "onStop"} /\ failure = "none" =>
        Elements(executionOrder) \subseteq instances
    /\ phase \in {"initFailed", "destroyFailed"} => failure # "none"

SortPart == TypeInv /\ OrderInv /\ SortInv /\ NoCycleSorted /\ FullInv /\ CircularInv
LoopPart == HookInv /\ LoopInv /\ EndInv

-----------------------------------------------------------------------------
(* Facts about sequences and their elements.                               *)

\* Elements of a sequence over S are members of S.
LEMMA ElementsType ==
    ASSUME NEW S, NEW s \in Seq(S)
    PROVE  /\ Elements(s) \subseteq S
           /\ DOMAIN s = 1 .. Len(s)
           /\ \A k \in DOMAIN s : s[k] \in Elements(s)
  BY DEF Elements

\* Appending adds one element.
LEMMA ElementsAppend ==
    ASSUME NEW S, NEW s \in Seq(S), NEW e \in S
    PROVE  /\ Append(s, e) \in Seq(S)
           /\ Elements(Append(s, e)) = Elements(s) \cup {e}
           /\ NoRepeat(s) /\ e \notin Elements(s) => NoRepeat(Append(s, e))
<1> DEFINE t == Append(s, e)
<1>1. t \in Seq(S) /\ Len(t) = Len(s) + 1 /\ t[Len(s) + 1] = e
      /\ \A k \in 1 .. Len(s) : t[k] = s[k]
  OBVIOUS
<1>2. Elements(t) = Elements(s) \cup {e}
  <2>1. ASSUME NEW x \in Elements(t) PROVE x \in Elements(s) \cup {e}
    BY <1>1, <2>1 DEF Elements
  <2>2. ASSUME NEW x \in Elements(s) \cup {e} PROVE x \in Elements(t)
    <3>1. CASE x = e
      <4>1. Len(s) + 1 \in DOMAIN t
        BY <1>1
      <4> QED BY <1>1, <3>1, <4>1 DEF Elements
    <3>2. CASE x \in Elements(s)
      <4>1. PICK k \in DOMAIN s : x = s[k]
        BY <3>2 DEF Elements
      <4>2. k \in DOMAIN t /\ t[k] = x
        BY <1>1, <4>1
      <4> QED BY <4>2 DEF Elements
    <3> QED BY <2>2, <3>1, <3>2
  <2> QED BY <2>1, <2>2
<1>3. ASSUME NoRepeat(s), e \notin Elements(s) PROVE NoRepeat(t)
  BY <1>1, <1>3 DEF NoRepeat, Elements
<1> QED BY <1>1, <1>2, <1>3

\* Taking the head away from a sequence without repetitions.
LEMMA ElementsTail ==
    ASSUME NEW S, NEW s \in Seq(S), s # <<>>, NoRepeat(s)
    PROVE  /\ Head(s) \in Elements(s)
           /\ Tail(s) \in Seq(S)
           /\ Elements(Tail(s)) = Elements(s) \ {Head(s)}
           /\ NoRepeat(Tail(s))
<1>1. Tail(s) \in Seq(S) /\ Len(Tail(s)) = Len(s) - 1 /\ Len(s) \in Nat /\ Len(s) >= 1
      /\ Head(s) = s[1] /\ \A k \in 1 .. Len(s) - 1 : Tail(s)[k] = s[k + 1]
  OBVIOUS
<1>2. DOMAIN s = 1 .. Len(s) /\ DOMAIN Tail(s) = 1 .. Len(s) - 1
  BY <1>1
<1>3. Elements(Tail(s)) = Elements(s) \ {Head(s)}
  <2>1. ASSUME NEW x \in Elements(Tail(s)) PROVE x \in Elements(s) \ {Head(s)}
    BY <1>1, <1>2, <2>1 DEF Elements, NoRepeat
  <2>2. ASSUME NEW x \in Elements(s) \ {Head(s)} PROVE x \in Elements(Tail(s))
    <3>1. PICK k \in 1 .. Len(s) : x = s[k]
      BY <1>2, <2>2 DEF Elements
    <3>2. k # 1
      BY <1>1, <2>2, <3>1
    <3>3. k - 1 \in DOMAIN Tail(s) /\ Tail(s)[k - 1] = x
      BY <1>1, <1>2, <3>1, <3>2
    <3> QED BY <3>3 DEF Elements
  <2> QED BY <2>1, <2>2
<1>4. NoRepeat(Tail(s))
  BY <1>1, <1>2 DEF NoRepeat
<1>5. Head(s) \in Elements(s)
  BY <1>1, <1>2 DEF Elements
<1> QED BY <1>1, <1>3, <1>4, <1>5

\* Concatenating two sequences.
LEMMA ElementsConcat ==
    ASSUME NEW S, NEW s \in Seq(S), NEW t \in Seq(S)
    PROVE  /\ s \o t \in Seq(S)
           /\ Elements(s \o t) = Elements(s) \cup Elements(t)
           /\ NoRepeat(s) /\ NoRepeat(t) /\ Elements(s) \cap Elements(t) = {} =>
                  NoRepeat(s \o t)
<1> DEFINE c == s \o t
<1>1. c \in Seq(S) /\ Len(c) = Len(s) + Len(t)
      /\ (\A k \in 1 .. Len(s) : c[k] = s[k])
      /\ (\A k \in 1 .. Len(t) : c[Len(s) + k] = t[k])
  OBVIOUS
<1>2. DOMAIN s = 1 .. Len(s) /\ DOMAIN t = 1 .. Len(t) /\ DOMAIN c = 1 .. Len(s) + Len(t)
      /\ Len(s) \in Nat /\ Len(t) \in Nat
  BY <1>1
<1>3. \A k \in DOMAIN c : \/ k \in DOMAIN s /\ c[k] = s[k]
                          \/ k - Len(s) \in DOMAIN t /\ c[k] = t[k - Len(s)]
  <2> TAKE k \in DOMAIN c
  <2>1. CASE k <= Len(s)
    BY <1>1, <1>2, <2>1
  <2>2. CASE k > Len(s)
    <3>1. k - Len(s) \in 1 .. Len(t) /\ Len(s) + (k - Len(s)) = k
      BY <1>2, <2>2
    <3> QED BY <1>1, <1>2, <3>1
  <2> QED BY <1>2, <2>1, <2>2
<1>4. Elements(c) = Elements(s) \cup Elements(t)
  <2>1. Elements(c) \subseteq Elements(s) \cup Elements(t)
    BY <1>3 DEF Elements
  <2>2. ASSUME NEW x \in Elements(s) PROVE x \in Elements(c)
    <3>1. PICK k \in DOMAIN s : x = s[k]
      BY <2>2 DEF Elements
    <3>2. k \in DOMAIN c /\ c[k] = x
      BY <1>1, <1>2, <3>1
    <3> QED BY <3>2 DEF Elements
  <2>3. ASSUME NEW x \in Elements(t) PROVE x \in Elements(c)
    <3>1. PICK k \in DOMAIN t : x = t[k]
      BY <2>3 DEF Elements
    <3>2. Len(s) + k \in DOMAIN c /\ c[Len(s) + k] = x
      BY <1>1, <1>2, <3>1
    <3> QED BY <3>2 DEF Elements
  <2> QED BY <2>1, <2>2, <2>3
<1>5. ASSUME NoRepeat(s), NoRepeat(t), Elements(s) \cap Elements(t) = {}
      PROVE  NoRepeat(c)
  <2> SUFFICES ASSUME NEW k \in DOMAIN c, NEW l \in DOMAIN c, c[k] = c[l] PROVE k = l
    BY DEF NoRepeat
  <2>1. CASE k \in DOMAIN s /\ c[k] = s[k] /\ l \in DOMAIN s /\ c[l] = s[l]
    BY <1>5, <2>1 DEF NoRepeat
  <2>2. CASE k - Len(s) \in DOMAIN t /\ c[k] = t[k - Len(s)]
             /\ l - Len(s) \in DOMAIN t /\ c[l] = t[l - Len(s)]
    <3>1. k - Len(s) = l - Len(s)
      BY <1>5, <2>2 DEF NoRepeat
    <3> QED BY <1>2, <3>1
  <2>3. CASE k \in DOMAIN s /\ c[k] = s[k] /\ l - Len(s) \in DOMAIN t /\ c[l] = t[l - Len(s)]
    BY <1>5, <2>3 DEF Elements
  <2>4. CASE l \in DOMAIN s /\ c[l] = s[l] /\ k - Len(s) \in DOMAIN t /\ c[k] = t[k - Len(s)]
    BY <1>5, <2>4 DEF Elements
  <2> QED BY <1>3, <2>1, <2>2, <2>3, <2>4
<1> QED BY <1>1, <1>4, <1>5

\* A sequence without repetitions is as long as its set of elements is large.
LEMMA ElementsCount ==
    ASSUME NEW S, NEW s \in Seq(S), NoRepeat(s)
    PROVE  IsFiniteSet(Elements(s)) /\ Cardinality(Elements(s)) = Len(s)
<1>1. Len(s) \in Nat /\ DOMAIN s = 1 .. Len(s) /\ s \in [1 .. Len(s) -> Elements(s)]
  BY DEF Elements
<1>2. s \in Surjection(1 .. Len(s), Elements(s)) /\ s \in Injection(1 .. Len(s), Elements(s))
  BY <1>1 DEF Surjection, Injection, IsInjective, NoRepeat, Elements
<1>3. IsFiniteSet(1 .. Len(s)) /\ Cardinality(1 .. Len(s)) = Len(s)
  BY <1>1, FS_Interval
<1> QED BY <1>2, <1>3, FS_Surjection

\* A list of members of a set that has as many entries as the set has members
\* holds them all, and only such a list does.
LEMMA SameLength ==
    ASSUME NEW S, NEW s \in Seq(S), NEW t \in Seq(S), NoRepeat(s), NoRepeat(t),
           Elements(s) \subseteq Elements(t)
    PROVE  Len(s) = Len(t) <=> Elements(s) = Elements(t)
  BY ElementsCount, FS_Subset

\* A list in registration order has no repetitions.
LEMMA ListedOnce ==
    ASSUME TypeOK, NoRepeat(plugins), NEW R \in SUBSET Plugin, NEW s \in InRegistrationOrder(R)
    PROVE  s \in Seq(Plugin) /\ Elements(s) = R /\ NoRepeat(s)
<1>1. PICK n \in 0 .. Len(plugins) : s \in [1 .. n -> R]
  BY DEF InRegistrationOrder
<1>2. n \in Nat
  BY DEF TypeOK
<1>3. s \in Seq(Plugin) /\ DOMAIN s = 1 .. n
  BY <1>1, <1>2
<1>4. ASSUME NEW k \in DOMAIN s, NEW l \in DOMAIN s, k < l PROVE s[k] # s[l]
  <2>1. RegisteredBefore(s[k], s[l])
    BY <1>4 DEF InRegistrationOrder
  <2> QED BY <2>1 DEF RegisteredBefore, NoRepeat, TypeOK
<1>5. NoRepeat(s)
  BY <1>2, <1>3, <1>4 DEF NoRepeat
<1> QED BY <1>3, <1>5 DEF InRegistrationOrder

-----------------------------------------------------------------------------
(* Type correctness.                                                       *)

\* The plugin whose turn it is belongs to the program.
LEMMA CurrentType ==
    ASSUME TypeOK, pos >= 1, ~LoopDone
    PROVE  Current \in Plugin
  BY DEF TypeOK, LoopDone, Current

\* The initial state is well typed.
LEMMA TypeInit == Init => TypeInv
  BY GraphsAssumption DEF Init, TypeInv, TypeOK, Lifecycle, Phase, Hook

\* The plugins a sort step frees are registered ones.
LEMMA FreedType == \A c : Freed(c) \subseteq Registered
  BY DEF Freed

\* The registered plugins are plugins.
LEMMA RegisteredType == TypeOK => Registered \subseteq Plugin
  BY ElementsType DEF TypeOK, Registered

\* The registered plugins in registration order form a sequence of plugins.
LEMMA ListType ==
    ASSUME TypeOK, NEW R \in SUBSET Plugin, NEW s \in InRegistrationOrder(R)
    PROVE  s \in Seq(Plugin)
<1>1. PICK n \in 0 .. Len(plugins) : s \in [1 .. n -> R]
  BY DEF InRegistrationOrder
<1> QED BY <1>1 DEF TypeOK

\* Every step of the registry keeps the types, action by action.
LEMMA TypeStep == TypeInv /\ [Next]_registryVars => TypeInv'
<1> SUFFICES ASSUME TypeInv, [Next]_registryVars PROVE TypeInv'
  OBVIOUS
<1> USE DEF TypeInv
<1>1. ASSUME NEW p \in Plugin, Register(p) PROVE TypeInv'
  BY <1>1 DEF Register, TypeOK, sortVars, pluginVars, loopVars, LoopDone, Hook
<1>2. CASE MissingDependency
  BY <1>2 DEF MissingDependency, InitRejects, TypeOK, pluginVars, LoopDone, Hook, Phase
<1>3. CASE BuildGraph
  <2>1. pending' \in [Plugin -> SUBSET Plugin]
    BY <1>3, RegisteredType DEF BuildGraph, Deps
  <2>2. queue' \in Seq(Plugin)
    BY <1>3, RegisteredType, ListType DEF BuildGraph
  <2> QED BY <1>3, <2>1, <2>2 DEF BuildGraph, TypeOK, pluginVars, LoopDone, Hook, Phase
<1>4. CASE SortStep
  <2>1. Head(queue) \in Plugin /\ Tail(queue) \in Seq(Plugin)
    BY <1>4 DEF SortStep, TypeOK
  <2>2. queue' \in Seq(Plugin)
    <3>1. PICK freed \in InRegistrationOrder(Freed(Head(queue))) : queue' = Tail(queue) \o freed
      BY <1>4 DEF SortStep
    <3>2. freed \in Seq(Plugin)
      BY <3>1, FreedType, RegisteredType, ListType
    <3> QED BY <2>1, <3>1, <3>2
  <2>3. executionOrder' \in Seq(Plugin) /\ pending' \in [Plugin -> SUBSET Plugin]
    BY <1>4, <2>1 DEF SortStep, TypeOK
  <2> QED BY <1>4, <2>2, <2>3 DEF SortStep, TypeOK, pluginVars, loopVars, LoopDone, Hook
<1>5. CASE SortEnd
  BY <1>5 DEF SortEnd, InitRejects, TypeOK, sortVars, pluginVars, LoopDone, Hook, Phase
<1>6. CASE ResolveFails
  BY <1>6 DEF ResolveFails, InLoop, InitRejects, TypeOK, sortVars, pluginVars, LoopDone, Hook, Phase
<1>7. CASE NoInstance
  BY <1>7 DEF NoInstance, InLoop, TypeOK, sortVars, pluginVars, LoopDone, Hook, Phase
<1>8. CASE ErrorReturn
  BY <1>8 DEF ErrorReturn, InLoop, After, TypeOK, sortVars, pluginVars, LoopDone, Hook, Phase
<1>9. CASE HookBegin
  BY <1>9, CurrentType DEF HookBegin, InLoop, TypeOK, sortVars, LoopDone, Hook, Phase
<1>10. CASE HookResolves
  <2>1. StateAfter(phase) \in Lifecycle
    BY <1>10 DEF HookResolves, StateAfter, Lifecycle, Hook
  <2> QED BY <1>10, <2>1, CurrentType DEF HookResolves, TypeOK, sortVars, LoopDone, Hook, Phase
<1>11. CASE HookThrows
  BY <1>11, CurrentType DEF HookThrows, TypeOK, sortVars, LoopDone, Hook, Phase, Lifecycle
<1>12. CASE LoopEnd
  BY <1>12 DEF LoopEnd, After, TypeOK, sortVars, pluginVars, LoopDone, Hook, Phase
<1>13. CASE RunCall
  BY <1>13 DEF RunCall, TypeOK, sortVars, pluginVars, LoopDone, Hook, Phase
<1>14. CASE DestroyCall
  BY <1>14 DEF DestroyCall, TypeOK, sortVars, pluginVars, LoopDone, Hook, Phase
<1>15. CASE UNCHANGED registryVars
  BY <1>15 DEF registryVars, TypeOK, sortVars, pluginVars, loopVars, LoopDone
<1> QED
  BY <1>1, <1>2, <1>3, <1>4, <1>5, <1>6, <1>7, <1>8, <1>9, <1>10, <1>11, <1>12, <1>13,
     <1>14, <1>15 DEF Next, Call, Progress, InitCall

\* Every reachable state of the registry is well typed, for every set of
\* plugins and every family of dependency graphs.
THEOREM TypeCorrect == Spec => []TypeOK
<1>1. TypeInv => TypeOK
  BY DEF TypeInv
<1> QED BY <1>1, TypeInit, TypeStep, PTL DEF Spec

-----------------------------------------------------------------------------
(* The sort.                                                               *)

\* The part of the invariant about the sort holds initially.
LEMMA SortInit == Init => SortPart
<1> SUFFICES ASSUME Init PROVE SortPart
  OBVIOUS
<1>1. Elements(plugins) = {} /\ Elements(executionOrder) = {}
  BY DEF Init, Elements
<1>2. OrderInv /\ NoCycleSorted
  BY <1>1 DEF Init, OrderInv, NoRepeat, TopologicalOrder, Registered, NoCycleSorted
<1> QED BY <1>2, TypeInit DEF SortPart, Init, SortInv, FullInv, CircularInv

\* What the steps that leave the order and the graph alone preserve.
LEMMA OrderUnchanged ==
    ASSUME OrderInv, NoCycleSorted,
           UNCHANGED <<graph, plugins, executionOrder>>, phase' = "new" => phase = "new"
    PROVE  OrderInv' /\ NoCycleSorted'
<1>1. /\ \A p : Deps(p)' = Deps(p)
      /\ Registered' = Registered
      /\ Elements(executionOrder)' = Elements(executionOrder)
  BY DEF Deps, Registered, Elements
<1>2. OrderInv'
  BY DEF OrderInv, NoRepeat, Registered, TopologicalOrder, Deps, Elements
<1>3. NoCycleSorted'
  <2> SUFFICES ASSUME NEW S \in SUBSET Elements(executionOrder), S # {}
               PROVE  \E p \in S : Deps(p)' \cap S = {}
    BY <1>1 DEF NoCycleSorted
  <2> QED BY <1>1 DEF NoCycleSorted
<1> QED BY <1>2, <1>3

\* register, which comes before any sort, keeps the sorting part.
LEMMA RegisterStep ==
    ASSUME SortPart, NEW p \in Plugin, Register(p)
    PROVE  SortPart'
<1> USE DEF SortPart
<1>1. TypeInv'
  BY TypeStep DEF Next, Call
<1>2. executionOrder = <<>> /\ executionOrder' = <<>> /\ phase = "new" /\ phase' = "new"
  BY DEF Register, OrderInv, sortVars, loopVars
<1>3. NoRepeat(plugins')
  BY ElementsAppend DEF Register, OrderInv, TypeInv, TypeOK, Registered
<1>4. OrderInv' /\ NoCycleSorted'
  BY <1>2, <1>3 DEF OrderInv, TopologicalOrder, NoCycleSorted, Elements
<1>5. SortInv' /\ FullInv' /\ CircularInv'
  BY <1>2 DEF Register, SortInv, FullInv, CircularInv, pluginVars
<1> QED BY <1>1, <1>4, <1>5

\* The in-degrees and the first queue establish the sorting part.
LEMMA BuildGraphStep ==
    ASSUME SortPart, BuildGraph
    PROVE  SortPart'
<1> USE DEF SortPart
<1>1. TypeInv'
  BY TypeStep DEF Next, Call, InitCall
<1>2. /\ executionOrder' = <<>> /\ Elements(executionOrder') = {}
      /\ phase = "new" /\ phase' = "sorting" /\ Registered' = Registered
      /\ \A p : Deps(p)' = Deps(p)
  BY DEF BuildGraph, Elements, Registered, Deps
<1>3. OrderInv' /\ NoCycleSorted'
  BY <1>2 DEF BuildGraph, OrderInv, TopologicalOrder, NoCycleSorted
<1> DEFINE free == {p \in Registered : Deps(p) = {}}
<1>4. Elements(queue') = free /\ NoRepeat(queue')
  <2>1. free \in SUBSET Plugin /\ queue' \in InRegistrationOrder(free)
    BY RegisteredType DEF BuildGraph, TypeInv
  <2> QED BY <2>1, ListedOnce DEF TypeInv, OrderInv
<1>5. SortInv'
  <2>1. \A p \in Registered : pending'[p] = Deps(p)
    BY RegisteredType DEF BuildGraph, TypeInv
  <2> QED BY <1>2, <1>4, <2>1 DEF SortInv
<1>6. FullInv' /\ CircularInv'
  BY <1>2 DEF BuildGraph, FullInv, CircularInv, pluginVars
<1> QED BY <1>1, <1>3, <1>5, <1>6

\* A turn of the sort: the plugin taken from the queue waits for nothing, so
\* its dependencies are all in the order already.
LEMMA SortStepStep ==
    ASSUME SortPart, SortStep
    PROVE  SortPart'
<1> USE DEF SortPart
<1> DEFINE c == Head(queue)
<1>1. TypeInv'
  BY TypeStep DEF Next, Progress
<1>2. /\ phase = "sorting" /\ phase' = "sorting" /\ queue # <<>> /\ TypeOK
      /\ Registered' = Registered /\ \A p : Deps(p)' = Deps(p)
      /\ executionOrder' = Append(executionOrder, c)
      /\ \A p \in Plugin : pending'[p] = pending[p] \ {c}
  BY DEF SortStep, TypeInv, loopVars, Registered, Deps
<1>3. /\ NoRepeat(queue) /\ Elements(queue) \subseteq Registered \ Elements(executionOrder)
      /\ \A p \in Registered :
            /\ pending[p] = Deps(p) \ Elements(executionOrder)
            /\ pending[p] = {} <=> p \in Elements(executionOrder) \cup Elements(queue)
  BY <1>2 DEF SortInv
<1>4. /\ c \in Elements(queue) /\ Tail(queue) \in Seq(Plugin) /\ NoRepeat(Tail(queue))
      /\ Elements(Tail(queue)) = Elements(queue) \ {c}
  BY <1>2, <1>3, ElementsTail DEF TypeOK
<1>5. c \in Registered /\ c \in Plugin /\ c \notin Elements(executionOrder)
      /\ Deps(c) \subseteq Elements(executionOrder)
  BY <1>2, <1>3, <1>4, RegisteredType
<1>6. Elements(executionOrder') = Elements(executionOrder) \cup {c}
  BY <1>2, <1>5, ElementsAppend DEF TypeOK
<1>7. PICK freed \in InRegistrationOrder(Freed(c)) : queue' = Tail(queue) \o freed
  BY DEF SortStep
<1>8. freed \in Seq(Plugin) /\ Elements(freed) = Freed(c) /\ NoRepeat(freed)
  <2>1. Freed(c) \in SUBSET Plugin
    BY <1>2, FreedType, RegisteredType
  <2> QED BY <1>2, <1>7, <2>1, ListedOnce DEF OrderInv
<1>9. Elements(freed) \cap (Elements(executionOrder) \cup Elements(queue)) = {}
  BY <1>3, <1>8 DEF Freed
<1>10. NoRepeat(queue') /\ Elements(queue') = (Elements(queue) \ {c}) \cup Freed(c)
  <2>1. Elements(Tail(queue)) \cap Elements(freed) = {}
    BY <1>4, <1>9
  <2>2. /\ Elements(Tail(queue) \o freed) = Elements(Tail(queue)) \cup Elements(freed)
        /\ NoRepeat(Tail(queue) \o freed)
    <3>1. PICK rest : rest = Tail(queue)
      OBVIOUS
    <3>2. rest \in Seq(Plugin) /\ NoRepeat(rest) /\ Elements(rest) \cap Elements(freed) = {}
      BY <1>4, <2>1, <3>1
    <3>3. /\ Elements(rest \o freed) = Elements(rest) \cup Elements(freed)
          /\ NoRepeat(rest \o freed)
      BY <1>8, <3>2, ElementsConcat
    <3> QED BY <3>1, <3>3
  <2> QED BY <1>4, <1>7, <1>8, <2>2
<1>11. OrderInv'
  <2>1. TopologicalOrder'
    <3> DEFINE o == executionOrder
    <3>1. /\ DOMAIN o' = 1 .. Len(o) + 1 /\ DOMAIN o = 1 .. Len(o) /\ o'[Len(o) + 1] = c
          /\ Len(o) \in Nat /\ \A k \in DOMAIN o : o'[k] = o[k] /\ k \in DOMAIN o'
      BY <1>2, <1>5 DEF TypeOK
    <3>2. \A k \in DOMAIN o : o[k] # c
      BY <1>5 DEF Elements
    <3> SUFFICES ASSUME NEW l \in DOMAIN o'
                 PROVE  /\ \A d \in Deps(o'[l]) : \E k \in DOMAIN o' : k < l /\ o'[k] = d
                        /\ \A k \in DOMAIN o' : o'[k] = o'[l] => k = l
      BY <1>2 DEF TopologicalOrder, Deps, Registered
    <3>3. CASE l \in DOMAIN o
      BY <3>1, <3>2, <3>3 DEF OrderInv, TopologicalOrder
    <3>4. CASE l = Len(o) + 1
      <4>1. ASSUME NEW d \in Deps(c) PROVE \E k \in DOMAIN o' : k < l /\ o'[k] = d
        <5>1. PICK k \in DOMAIN o : o[k] = d
          BY <1>5, <4>1 DEF Elements
        <5> QED BY <3>1, <3>4, <5>1
      <4>2. \A k \in DOMAIN o' : o'[k] = c => k = l
        BY <3>1, <3>2, <3>4
      <4> QED BY <3>1, <3>4, <4>1, <4>2
    <3> QED BY <3>1, <3>3, <3>4
  <2>2. NoRepeat(plugins') /\ Elements(executionOrder') \subseteq Registered'
    BY <1>2, <1>5, <1>6 DEF OrderInv, SortStep
  <2> QED BY <1>2, <2>1, <2>2 DEF OrderInv
<1>12. SortInv'
  <2>1. ASSUME NEW p \in Registered
        PROVE  /\ pending'[p] = Deps(p) \ Elements(executionOrder')
               /\ pending'[p] = {} <=> p \in Elements(executionOrder') \cup Elements(queue')
    <3>1. p \in Plugin
      BY <1>2, RegisteredType
    <3>2. pending'[p] = pending[p] \ {c}
      BY <1>2, <3>1
    <3>3. p \in Freed(c) <=> pending[p] = {c}
      BY DEF Freed
    <3> QED BY <1>3, <1>4, <1>6, <1>10, <3>2, <3>3
  <2>2. Elements(queue') \subseteq Registered \ Elements(executionOrder')
    BY <1>3, <1>6, <1>8, <1>9, <1>10, FreedType, <1>4, <1>5
  <2> QED BY <1>2, <1>10, <2>1, <2>2 DEF SortInv
<1>13. NoCycleSorted'
  <2> SUFFICES ASSUME NEW S \in SUBSET (Elements(executionOrder) \cup {c}), S # {}
               PROVE  \E p \in S : Deps(p) \cap S = {}
    BY <1>2, <1>6 DEF NoCycleSorted
  <2>1. CASE S = {c}
    BY <1>5, <2>1
  <2>2. CASE S # {c}
    <3> DEFINE T == S \ {c}
    <3>1. T # {} /\ T \in SUBSET Elements(executionOrder)
      BY <2>2
    <3>2. PICK p \in T : Deps(p) \cap T = {}
      BY <3>1 DEF NoCycleSorted
    <3>3. Deps(p) \subseteq Elements(executionOrder)
      <4>1. PICK l \in DOMAIN executionOrder : executionOrder[l] = p
        BY <3>1, <3>2 DEF Elements
      <4> QED BY <4>1 DEF OrderInv, TopologicalOrder, Elements
    <3>4. Deps(p) \cap S = {}
      BY <1>5, <3>2, <3>3
    <3> QED BY <3>2, <3>4
  <2> QED BY <2>1, <2>2
<1>14. FullInv' /\ CircularInv'
  BY <1>2 DEF SortStep, FullInv, CircularInv, pluginVars, loopVars
<1> QED BY <1>1, <1>11, <1>12, <1>13, <1>14

\* When the queue is empty, either every plugin is sorted, or the plugins that
\* are not wait for each other.
LEMMA SortEndStep ==
    ASSUME SortPart, SortEnd
    PROVE  SortPart'
<1> USE DEF SortPart
<1>1. TypeInv'
  BY TypeStep DEF Next, Progress
<1>2. /\ phase = "sorting" /\ queue = <<>> /\ Elements(queue) = {} /\ instances' = {}
      /\ Registered' = Registered /\ \A p : Deps(p)' = Deps(p)
      /\ executionOrder' = executionOrder /\ failure = "none"
  BY DEF SortEnd, Registered, Deps, Elements, sortVars, pluginVars, FullInv, CircularInv
<1>3. AllPluginsSorted <=> Elements(executionOrder) = Registered
  <2>1. NoRepeat(executionOrder)
    BY DEF OrderInv, TopologicalOrder, NoRepeat
  <2> QED BY <2>1, SameLength DEF OrderInv, TypeInv, TypeOK, AllPluginsSorted, Registered
<1>4. OrderInv' /\ NoCycleSorted'
  <2>1. UNCHANGED <<graph, plugins, executionOrder>> /\ phase' # "new"
    BY DEF SortEnd, InitRejects, sortVars
  <2> QED BY <2>1, OrderUnchanged
<1>5. SortInv' /\ FullInv'
  BY <1>2, <1>3 DEF SortEnd, InitRejects, SortInv, FullInv
<1>6. CircularInv'
  <2>1. CASE AllPluginsSorted
    BY <1>2, <2>1 DEF SortEnd, CircularInv
  <2>2. CASE ~AllPluginsSorted
    <3> DEFINE S == Registered \ Elements(executionOrder)
    <3>1. S # {} /\ S \in SUBSET Registered
      BY <1>3, <2>2 DEF OrderInv
    <3>2. \A p \in S : Deps(p) \cap S # {}
      BY <1>2 DEF SortInv, Deps
    <3>3. Cyclic'
      BY <1>2, <3>1, <3>2 DEF Cyclic
    <3> QED BY <2>2, <3>3 DEF SortEnd, InitRejects, CircularInv
  <2> QED BY <2>1, <2>2
<1> QED BY <1>1, <1>4, <1>5, <1>6

\* The other steps leave the graph and the order alone.
LEMMA SortPartKept ==
    ASSUME SortPart, [Next]_registryVars,
           UNCHANGED <<graph, plugins, executionOrder>>, phase # "sorting",
           phase' \notin {"new", "sorting"},
           failure' = failure \/ failure' # "circular",
           \/ instances' = instances /\ phase \in {"onRegister", "initialized", "onStart", "running"}
           \/ instances' = instances
                /\ phase' \notin {"onRegister", "initialized", "onStart", "running"}
           \/ phase \in {"onRegister", "initialized", "onStart", "running"}
           \/ instances # {}
    PROVE  SortPart'
<1> USE DEF SortPart
<1>1. TypeInv' /\ OrderInv' /\ NoCycleSorted'
  BY TypeStep, OrderUnchanged
<1>2. Registered' = Registered /\ Elements(executionOrder') = Elements(executionOrder)
  BY DEF Registered
<1>3. SortInv' /\ FullInv'
  BY <1>2 DEF SortInv, FullInv
<1>4. CircularInv'
  <2>1. failure' = "circular" => Cyclic
    BY DEF CircularInv
  <2>2. Cyclic => Cyclic'
    BY DEF Cyclic, Registered, Deps
  <2> QED BY <2>1, <2>2 DEF CircularInv
<1> QED BY <1>1, <1>3, <1>4

\* Every step of the registry keeps the sorting part, action by action.
LEMMA SortPartStep == SortPart /\ [Next]_registryVars => SortPart'
<1> SUFFICES ASSUME SortPart, [Next]_registryVars PROVE SortPart'
  OBVIOUS
<1>1. ASSUME NEW p \in Plugin, Register(p) PROVE SortPart'
  BY <1>1, RegisterStep
<1>2. CASE MissingDependency
  <2>1. executionOrder = <<>>
    BY <1>2 DEF MissingDependency, SortPart, OrderInv
  <2> QED BY <1>2, <2>1, SortPartKept DEF MissingDependency, InitRejects, pluginVars
<1>3. CASE BuildGraph
  BY <1>3, BuildGraphStep
<1>4. CASE SortStep
  BY <1>4, SortStepStep
<1>5. CASE SortEnd
  BY <1>5, SortEndStep
<1>6. CASE ResolveFails
  BY <1>6, SortPartKept DEF ResolveFails, InitRejects, sortVars, pluginVars
<1>7. CASE NoInstance
  BY <1>7, SortPartKept DEF NoInstance, InLoop, Hook, sortVars, pluginVars
<1>8. CASE ErrorReturn
  BY <1>8, SortPartKept DEF ErrorReturn, InLoop, Hook, After, sortVars, pluginVars
<1>9. CASE HookBegin
  <2>1. phase \in {"onRegister", "onStart"} \/ instances # {}
    BY <1>9 DEF HookBegin, InLoop, Hook
  <2> QED BY <1>9, <2>1, SortPartKept DEF HookBegin, InLoop, Hook, sortVars
<1>10. CASE HookResolves
  BY <1>10, SortPartKept DEF HookResolves, SortPart, TypeInv, Hook, sortVars
<1>11. CASE HookThrows
  BY <1>11, SortPartKept DEF HookThrows, SortPart, TypeInv, Hook, sortVars
<1>12. CASE LoopEnd
  BY <1>12, SortPartKept DEF LoopEnd, Hook, After, sortVars, pluginVars
<1>13. CASE RunCall
  BY <1>13, SortPartKept DEF RunCall, sortVars, pluginVars
<1>14. CASE DestroyCall
  BY <1>14, SortPartKept DEF DestroyCall, sortVars, pluginVars
<1>15. CASE UNCHANGED registryVars
  <2>1. UNCHANGED <<graph, plugins, executionOrder, pending, queue, instances, phase, failure>>
    BY <1>15 DEF registryVars, sortVars, pluginVars, loopVars
  <2>2. TypeInv' /\ OrderInv' /\ NoCycleSorted'
    BY <2>1, TypeStep, OrderUnchanged DEF SortPart
  <2>3. SortInv' /\ FullInv'
    <3>1. Registered' = Registered /\ \A p : Deps(p)' = Deps(p)
      BY <2>1 DEF Registered, Deps
    <3>2. NoRepeat(queue)' = NoRepeat(queue) /\ Elements(queue)' = Elements(queue)
          /\ Elements(executionOrder)' = Elements(executionOrder)
      BY <2>1
    <3>3. SortInv'
      BY <2>1, <3>1, <3>2 DEF SortPart, SortInv
    <3>4. FullInv'
      BY <2>1, <3>1, <3>2 DEF SortPart, FullInv
    <3> QED BY <3>3, <3>4
  <2>4. CircularInv'
    <3>1. Cyclic' <=> Cyclic
      BY <2>1 DEF Cyclic, Registered, Deps
    <3> QED BY <2>1, <3>1 DEF SortPart, CircularInv
  <2> QED BY <2>2, <2>3, <2>4 DEF SortPart
<1> QED
  BY <1>1, <1>2, <1>3, <1>4, <1>5, <1>6, <1>7, <1>8, <1>9, <1>10, <1>11, <1>12, <1>13,
     <1>14, <1>15 DEF Next, Call, Progress, InitCall

\* For every program, whatever its plugins and their dependencies: no plugin is
\* ever placed before a registered dependency, and none is placed twice.
THEOREM SortIsTopological == Spec => []TopologicalOrder
<1>1. SortPart => TopologicalOrder
  BY DEF SortPart, OrderInv
<1> QED BY <1>1, SortInit, SortPartStep, PTL DEF Spec

\* For every program: PluginCircularDependencyError is only thrown when there is
\* a cycle, and a sort that succeeds placed every plugin of an acyclic graph.
THEOREM CircularErrorCorrect == Spec => []CircularErrorIsExact
<1>1. SortPart => CircularErrorIsExact
  <2> SUFFICES ASSUME SortPart PROVE CircularErrorIsExact
    OBVIOUS
  <2>1. ASSUME phase \in {"onRegister", "initialized", "onStart", "running"}
        PROVE  ~Cyclic /\ Elements(executionOrder) = Registered
    BY <2>1 DEF SortPart, FullInv, NoCycleSorted, Cyclic
  <2> QED BY <2>1 DEF SortPart, CircularInv, CircularErrorIsExact
<1> QED BY <1>1, SortInit, SortPartStep, PTL DEF Spec

-----------------------------------------------------------------------------
(* The lifecycle loops.                                                    *)

\* The plugins of the order and the plugin whose turn it is.
LEMMA OrderFacts ==
    ASSUME SortPart
    PROVE  /\ Len(executionOrder) \in Nat /\ DOMAIN executionOrder = 1 .. Len(executionOrder)
           /\ pos \in Nat /\ pos >= 1
           /\ \A k \in DOMAIN executionOrder :
                executionOrder[k] \in Plugin /\ executionOrder[k] \in Registered
           /\ \A k, l \in DOMAIN executionOrder : executionOrder[k] = executionOrder[l] => k = l
           /\ Registered \subseteq Plugin
<1>1. executionOrder \in Seq(Plugin) /\ pos \in Nat /\ pos >= 1
  BY DEF SortPart, TypeInv, TypeOK
<1>2. \A k \in DOMAIN executionOrder : executionOrder[k] \in Elements(executionOrder)
  BY DEF Elements
<1> QED
  BY <1>1, <1>2, RegisteredType DEF SortPart, TypeInv, OrderInv, TopologicalOrder

\* The current plugin of a loop has a position in the execution order.
LEMMA CurrentPosition ==
    ASSUME SortPart, ~LoopDone
    PROVE  /\ phase # "onStop" => pos \in DOMAIN executionOrder /\ Current = executionOrder[pos]
           /\ phase = "onStop" =>
                /\ Len(executionOrder) + 1 - pos \in DOMAIN executionOrder
                /\ Current = executionOrder[Len(executionOrder) + 1 - pos]
           /\ Current \in Plugin /\ Current \in Registered
<1>1. pos <= Len(executionOrder)
  BY OrderFacts DEF LoopDone
<1> QED BY <1>1, OrderFacts DEF Current

\* The part of the invariant about the lifecycle loops holds initially.
LEMMA LoopInit == Init => LoopPart
  BY DEF Init, LoopPart, HookInv, LoopInv, EndInv, Failed

\* A step that leaves the states alone and enters no loop and ends none.
LEMMA LoopPartKept ==
    ASSUME LoopPart, UNCHANGED <<state, stateError>>, hook' = "idle",
           phase' \notin {"onStart", "onStop", "running", "destroyed"}
    PROVE  LoopPart'
  BY DEF LoopPart, HookInv, LoopInv, EndInv, Failed

\* A loop that starts has passed no plugin.
LEMMA LoopStarts ==
    ASSUME SortPart, SortPart', LoopPart, UNCHANGED <<state, stateError>>,
           hook' = "idle", pos' = 1, phase' \in Hook
    PROVE  LoopPart'
<1>1. HookInv'
  BY DEF LoopPart, HookInv, Failed
<1>2. EndInv'
  BY DEF EndInv, Hook
<1>3. LoopInv'
  <2>1. /\ Len(executionOrder)' \in Nat
        /\ (DOMAIN executionOrder)' = 1 .. Len(executionOrder)'
    BY DEF SortPart, TypeInv, TypeOK
  <2> QED BY <2>1 DEF LoopInv
<1> QED BY <1>1, <1>2, <1>3 DEF LoopPart

\* A loop that returns at a plugin in error, or at the end of the order.
LEMMA LoopEnds ==
    ASSUME SortPart, LoopPart, ErrorReturn \/ LoopEnd
    PROVE  LoopPart'
<1>1. /\ UNCHANGED <<graph, plugins, executionOrder, instances, state, stateError>>
      /\ phase \in Hook /\ phase' = After(phase) /\ hook' = "idle"
      /\ Registered' = Registered
  BY DEF ErrorReturn, LoopEnd, InLoop, sortVars, pluginVars, Registered
<1>2. HookInv' /\ LoopInv'
  BY <1>1 DEF LoopPart, HookInv, LoopInv, Failed, After, Hook
<1>3. EndInv'
  <2>1. CASE ErrorReturn
    <3>1. \E p \in Registered : Failed(p)
      BY <2>1, CurrentPosition DEF ErrorReturn, InLoop
    <3> QED BY <1>1, <3>1 DEF EndInv, Failed
  <2>2. CASE LoopEnd
    <3>1. pos > Len(executionOrder)
      BY <2>2 DEF LoopEnd, LoopDone
    <3>2. CASE phase = "onStart"
      <4>1. \A k \in DOMAIN executionOrder : state[executionOrder[k]] \in {"started", "error"}
        BY <3>1, <3>2, OrderFacts DEF LoopPart, LoopInv
      <4>2. Elements(executionOrder) = Registered
        BY <3>2 DEF SortPart, FullInv
      <4>3. \A p \in Registered : state[p] \in {"started", "error"}
        BY <4>1, <4>2 DEF Elements
      <4> QED BY <1>1, <3>2, <4>3 DEF EndInv, Failed, After
    <3>3. CASE phase = "onStop" /\ instances # {}
      <4>1. \A k \in DOMAIN executionOrder : state[executionOrder[k]] \in {"stopped", "error"}
        BY <3>1, <3>3, OrderFacts DEF LoopPart, LoopInv
      <4>2. Elements(executionOrder) = Registered
        BY <3>3 DEF SortPart, FullInv
      <4>3. \A p \in Registered : state[p] \in {"stopped", "error"}
        BY <4>1, <4>2 DEF Elements
      <4> QED BY <1>1, <3>3, <4>3 DEF EndInv, Failed, After
    <3> QED BY <1>1, <3>2, <3>3 DEF EndInv, After, Hook
  <2> QED BY <2>1, <2>2
<1> QED BY <1>2, <1>3 DEF LoopPart

\* A hook that ends moves the loop one plugin forward.
LEMMA HookEnds ==
    ASSUME SortPart, LoopPart, HookResolves \/ HookThrows
    PROVE  LoopPart'
<1> DEFINE c == Current
<1>1. /\ UNCHANGED <<graph, plugins, executionOrder, instances, phase>>
      /\ hook' = "idle" /\ pos' = pos + 1
      /\ phase \in Hook /\ ~LoopDone /\ c \in Plugin /\ c \in instances /\ ~Failed(c)
      /\ state \in [Plugin -> Lifecycle] /\ stateError \in [Plugin -> Hook \cup {"none"}]
      /\ stateError[c] = "none"
  BY CurrentPosition
  DEF HookResolves, HookThrows, SortPart, TypeInv, TypeOK, LoopPart, HookInv, sortVars
<1>2. \A p \in Plugin : p # c => state'[p] = state[p] /\ stateError'[p] = stateError[p]
  BY <1>1 DEF HookResolves, HookThrows
<1>3. \/ state'[c] = StateAfter(phase) /\ stateError'[c] = "none"
      \/ state'[c] = "error" /\ stateError'[c] = phase
  BY <1>1 DEF HookResolves, HookThrows
<1>4. HookInv'
  BY <1>1, <1>2, <1>3 DEF LoopPart, HookInv, Failed
<1>5. EndInv'
  BY <1>1 DEF EndInv, Hook
<1>6. LoopInv'
  <2>1. CASE phase = "onStart"
    <3> SUFFICES ASSUME NEW k \in DOMAIN executionOrder, k < pos + 1
                 PROVE  /\ state'[executionOrder[k]] \in {"started", "error"}
                        /\ stateError'[executionOrder[k]] # "onRegister"
      BY <1>1, <2>1 DEF LoopInv
    <3>1. CASE executionOrder[k] = c
      BY <1>3, <2>1, <3>1 DEF StateAfter
    <3>2. CASE executionOrder[k] # c
      <4>1. k < pos /\ executionOrder[k] \in Plugin
        BY <1>1, <2>1, <3>2, OrderFacts, CurrentPosition
      <4> QED BY <1>2, <2>1, <3>2, <4>1 DEF LoopPart, LoopInv
    <3> QED BY <3>1, <3>2
  <2>2. CASE phase = "onStop"
    <3> SUFFICES ASSUME NEW k \in DOMAIN executionOrder, k > Len(executionOrder) + 1 - (pos + 1)
                 PROVE  state'[executionOrder[k]] \in {"stopped", "error"}
      BY <1>1, <2>2 DEF LoopInv
    <3>1. CASE executionOrder[k] = c
      BY <1>3, <2>2, <3>1 DEF StateAfter
    <3>2. CASE executionOrder[k] # c
      <4>1. k > Len(executionOrder) + 1 - pos /\ executionOrder[k] \in Plugin
        BY <1>1, <2>2, <3>2, OrderFacts, CurrentPosition
      <4> QED BY <1>2, <2>2, <3>2, <4>1 DEF LoopPart, LoopInv
    <3> QED BY <3>1, <3>2
  <2> QED BY <1>1, <2>1, <2>2 DEF LoopInv
<1> QED BY <1>4, <1>5, <1>6 DEF LoopPart

\* Every step keeps the part about the loops, given the sorting part.
LEMMA LoopPartStep == SortPart /\ LoopPart /\ [Next]_registryVars => LoopPart'
<1> SUFFICES ASSUME SortPart, LoopPart, [Next]_registryVars PROVE LoopPart'
  OBVIOUS
<1>a. SortPart'
  BY SortPartStep
<1>b. hook = "running" => phase \in Hook
  BY DEF SortPart, TypeInv
<1>c. hook \in {"idle", "running"}
  BY DEF SortPart, TypeInv, TypeOK
<1>1. ASSUME NEW p \in Plugin, Register(p) PROVE LoopPart'
  BY <1>1, <1>b, <1>c, LoopPartKept DEF Register, pluginVars, loopVars, Hook
<1>2. CASE InitCall
  BY <1>2, <1>b, <1>c, LoopPartKept
  DEF InitCall, MissingDependency, BuildGraph, InitRejects, pluginVars, Hook
<1>3. CASE SortStep
  BY <1>3, <1>b, <1>c, LoopPartKept DEF SortStep, pluginVars, loopVars, Hook
<1>4. CASE SortEnd
  BY <1>4, <1>b, <1>c, LoopPartKept DEF SortEnd, InitRejects, pluginVars, Hook
<1>5. CASE ResolveFails \/ NoInstance
  BY <1>5, LoopPartKept DEF ResolveFails, NoInstance, InLoop, InitRejects, pluginVars
<1>6. CASE ErrorReturn \/ LoopEnd
  BY <1>6, LoopEnds
<1>7. CASE HookBegin
  <2>1. /\ UNCHANGED <<executionOrder, state, stateError, phase, pos>> /\ phase \in Hook
        /\ Current \in instances' /\ ~Failed(Current)
    BY <1>7 DEF HookBegin, InLoop, sortVars
  <2>2. Current' = Current
    BY <2>1 DEF Current
  <2> QED BY <2>1, <2>2 DEF LoopPart, HookInv, LoopInv, EndInv, Failed, Hook
<1>8. CASE HookResolves \/ HookThrows
  BY <1>8, HookEnds
<1>9. CASE RunCall \/ DestroyCall
  BY <1>9, <1>a, <1>b, <1>c, LoopStarts DEF RunCall, DestroyCall, pluginVars, Hook
<1>10. CASE UNCHANGED registryVars
  <2>1. UNCHANGED <<plugins, executionOrder, instances, state, stateError, phase, pos, hook>>
    BY <1>10 DEF registryVars, sortVars, pluginVars, loopVars
  <2>2. Current' = Current /\ Registered' = Registered
    BY <2>1 DEF Current, Registered
  <2> QED BY <2>1, <2>2 DEF LoopPart, HookInv, LoopInv, EndInv, Failed
<1> QED
  BY <1>1, <1>2, <1>3, <1>4, <1>5, <1>6, <1>7, <1>8, <1>9, <1>10 DEF Next, Call, Progress

\* A loop that ends in onRegister has been through the whole order.
LEMMA InstanceLoopEnds ==
    ASSUME SortPart, InstanceInv, ErrorReturn \/ LoopEnd
    PROVE  InstanceInv'
<1>1. /\ UNCHANGED <<executionOrder, instances, state, failure>>
      /\ phase \in Hook /\ phase' = After(phase)
  BY DEF ErrorReturn, LoopEnd, InLoop, sortVars, pluginVars
<1>2. CASE phase = "onRegister"
  <2>1. ~ErrorReturn
    BY <1>2, CurrentPosition, OrderFacts DEF ErrorReturn, InLoop, InstanceInv
  <2>2. pos > Len(executionOrder)
    BY <2>1 DEF LoopEnd, LoopDone
  <2>3. \A k \in DOMAIN executionOrder : executionOrder[k] \in instances
    BY <1>2, <2>2, OrderFacts DEF InstanceInv
  <2>4. Elements(executionOrder) \subseteq instances
    BY <2>3 DEF Elements
  <2> QED BY <1>1, <1>2, <2>4 DEF InstanceInv, After, Elements
<1>3. CASE phase # "onRegister"
  BY <1>1, <1>3 DEF InstanceInv, After, Hook, Elements
<1> QED BY <1>2, <1>3

\* A hook that ends moves the loop past a plugin that has its instance.
LEMMA InstanceHookEnds ==
    ASSUME SortPart, LoopPart, InstanceInv, HookResolves \/ HookThrows
    PROVE  InstanceInv'
<1>1. /\ UNCHANGED <<executionOrder, instances, phase, failure>> /\ pos' = pos + 1
      /\ phase \in Hook /\ ~LoopDone /\ Current \in instances
      /\ \A p \in Plugin : p # Current => state'[p] = state[p]
  BY CurrentPosition
  DEF HookResolves, HookThrows, SortPart, TypeInv, TypeOK, LoopPart, HookInv, sortVars
<1>2. CASE phase = "onRegister"
  <2>1. pos \in DOMAIN executionOrder /\ Current = executionOrder[pos]
    BY <1>1, <1>2, CurrentPosition
  <2> SUFFICES ASSUME NEW k \in DOMAIN executionOrder
               PROVE  IF k < pos + 1 THEN executionOrder[k] \in instances
                                     ELSE state'[executionOrder[k]] # "error"
    BY <1>1, <1>2 DEF InstanceInv, Failed
  <2>2. CASE k < pos
    BY <1>2, <2>2, OrderFacts DEF InstanceInv
  <2>3. CASE k = pos
    BY <1>1, <2>1, <2>3, OrderFacts
  <2>4. CASE k > pos
    <3>1. executionOrder[k] # Current /\ executionOrder[k] \in Plugin
      BY <2>1, <2>4, OrderFacts
    <3>2. state[executionOrder[k]] # "error"
      BY <1>2, <2>4, OrderFacts DEF InstanceInv, Failed
    <3> QED BY <1>1, <2>4, <3>1, <3>2, OrderFacts
  <2> QED BY <2>2, <2>3, <2>4, OrderFacts
<1>3. CASE phase # "onRegister"
  BY <1>1, <1>3 DEF InstanceInv, Hook, Elements
<1> QED BY <1>2, <1>3

\* Every step keeps the part about instances, given the other two.
LEMMA InstanceStep == SortPart /\ LoopPart /\ InstanceInv /\ [Next]_registryVars => InstanceInv'
<1> SUFFICES ASSUME SortPart, LoopPart, InstanceInv, [Next]_registryVars PROVE InstanceInv'
  OBVIOUS
<1>1. ASSUME NEW p \in Plugin, Register(p) PROVE InstanceInv'
  BY <1>1 DEF Register, InstanceInv, Failed, sortVars, pluginVars, loopVars
<1>2. CASE InitCall
  BY <1>2 DEF InitCall, MissingDependency, BuildGraph, InitRejects, InstanceInv, Failed, pluginVars
<1>3. CASE SortStep
  BY <1>3 DEF SortStep, InstanceInv, Failed, pluginVars, loopVars
<1>4. CASE SortEnd
  <2>1. /\ UNCHANGED <<executionOrder, state>>
        /\ \A k \in DOMAIN executionOrder : ~Failed(executionOrder[k])
    BY <1>4, OrderFacts DEF SortEnd, InstanceInv, sortVars, pluginVars
  <2>2. CASE AllPluginsSorted
    <3>1. phase' = "onRegister" /\ pos' = 1
      BY <1>4, <2>2 DEF SortEnd
    <3> QED BY <2>1, <3>1, OrderFacts DEF InstanceInv, Failed
  <2>3. CASE ~AllPluginsSorted
    BY <1>4, <2>3 DEF SortEnd, InitRejects, InstanceInv
  <2> QED BY <2>2, <2>3
<1>5. CASE ResolveFails
  BY <1>5 DEF ResolveFails, InitRejects, InstanceInv
<1>6. CASE NoInstance
  <2>1. phase \in {"onStart", "onStop"} /\ Current \notin instances /\ ~LoopDone
    BY <1>6 DEF NoInstance, InLoop, Hook
  <2>2. Current \in Elements(executionOrder)
    BY <2>1, CurrentPosition DEF Elements
  <2>3. failure # "none"
    BY <2>1, <2>2 DEF InstanceInv
  <2> QED BY <1>6, <2>3 DEF NoInstance, InstanceInv
<1>7. CASE ErrorReturn \/ LoopEnd
  BY <1>7, InstanceLoopEnds
<1>8. CASE HookBegin
  BY <1>8 DEF HookBegin, InLoop, InstanceInv, Failed, Hook, Elements, sortVars
<1>9. CASE HookResolves \/ HookThrows
  BY <1>9, InstanceHookEnds
<1>10. CASE RunCall
  BY <1>10 DEF RunCall, InstanceInv, Elements, sortVars, pluginVars
<1>11. CASE DestroyCall
  <2>1. phase = "new" => Elements(executionOrder) = {}
    BY DEF SortPart, OrderInv, Elements
  <2> QED BY <1>11, <2>1 DEF DestroyCall, InstanceInv, Elements, sortVars, pluginVars
<1>12. CASE UNCHANGED registryVars
  BY <1>12 DEF registryVars, sortVars, pluginVars, loopVars, InstanceInv, Failed, Elements
<1> QED
  BY <1>1, <1>2, <1>3, <1>4, <1>5, <1>6, <1>7, <1>8, <1>9, <1>10, <1>11, <1>12
  DEF Next, Call, Progress

\* The three parts hold in every reachable state.
LEMMA Inductive == Spec => [](SortPart /\ LoopPart /\ InstanceInv)
<1>1. Init => SortPart /\ LoopPart /\ InstanceInv
  BY SortInit, LoopInit DEF Init, InstanceInv, Failed
<1>2. SortPart /\ LoopPart /\ InstanceInv /\ [Next]_registryVars =>
        (SortPart /\ LoopPart /\ InstanceInv)'
  BY SortPartStep, LoopPartStep, InstanceStep
<1> QED BY <1>1, <1>2, PTL DEF Spec

\* For every program: a plugin's onStart is only called after the onStart of
\* all its registered dependencies, and never when one failed to register.
THEOREM StartOrderCorrect == Spec => []StartsAfterDependencies
<1>1. SortPart /\ LoopPart => StartsAfterDependencies
  <2> SUFFICES ASSUME SortPart, LoopPart, phase = "onStart", hook = "running",
                      NEW d \in Deps(Current)
               PROVE  state[d] \in {"started", "error"} /\ stateError[d] # "onRegister"
    BY DEF StartsAfterDependencies
  <2>1. ~LoopDone
    BY DEF SortPart, TypeInv
  <2>2. pos \in DOMAIN executionOrder /\ Current = executionOrder[pos]
    BY <2>1, CurrentPosition
  <2>3. PICK k \in DOMAIN executionOrder : k < pos /\ executionOrder[k] = d
    BY <2>2 DEF SortPart, OrderInv, TopologicalOrder
  <2> QED BY <2>3 DEF LoopPart, LoopInv
<1> QED BY <1>1, Inductive, PTL

\* For every program: a plugin's onStop is only called when no plugin that
\* depends on it is still running.
THEOREM StopOrderCorrect == Spec => []StopsAfterDependents
<1>1. SortPart /\ LoopPart => StopsAfterDependents
  <2> SUFFICES ASSUME SortPart, LoopPart, phase = "onStop", hook = "running",
                      NEW q \in Registered, Current \in Deps(q)
               PROVE  state[q] \in {"stopped", "error"}
    BY DEF StopsAfterDependents
  <2> DEFINE j == Len(executionOrder) + 1 - pos
  <2>1. ~LoopDone /\ Current \in instances
    BY DEF SortPart, TypeInv, LoopPart, HookInv
  <2>2. j \in DOMAIN executionOrder /\ Current = executionOrder[j]
    BY <2>1, CurrentPosition
  <2>3. PICK l \in DOMAIN executionOrder : executionOrder[l] = q
    BY <2>1 DEF SortPart, FullInv, Elements
  <2>4. PICK k \in DOMAIN executionOrder : k < l /\ executionOrder[k] = Current
    BY <2>3 DEF SortPart, OrderInv, TopologicalOrder
  <2>5. k = j
    BY <2>2, <2>4, OrderFacts
  <2> QED BY <2>3, <2>4, <2>5 DEF LoopPart, LoopInv
<1> QED BY <1>1, Inductive, PTL

\* For every program: an application that is running reports Healthy or
\* Unhealthy, never Unknown.
THEOREM HealthCorrect == Spec => []HealthDecidedAfterRun
<1>1. LoopPart => HealthDecidedAfterRun
  BY DEF LoopPart, EndInv, HealthDecidedAfterRun, AppHealth, HealthOf, Failed
<1> QED BY <1>1, Inductive, PTL

\* For every program: destroy only rejects after an init that rejected, and when
\* no plugin failed it has stopped every registered plugin.
THEOREM ShutdownCorrect == Spec => []CleanShutdown
<1>1. LoopPart /\ InstanceInv => CleanShutdown
  BY DEF LoopPart, EndInv, InstanceInv, CleanShutdown, Failed
<1> QED BY <1>1, Inductive, PTL

\* For every program: a plugin whose hook threw stays in error, and none of its
\* hooks is called again.
THEOREM FailureIsFinal == Spec => FailedPluginIsLeftAlone
<1>1. SortPart /\ LoopPart /\ [Next]_registryVars =>
        [\A p \in Plugin : state[p] = "error" =>
            /\ state'[p] = "error"
            /\ hook' = "running" => Current' # p]_registryVars
  <2> SUFFICES ASSUME SortPart, LoopPart, [Next]_registryVars, NEW p \in Plugin, state[p] = "error"
               PROVE  state'[p] = "error" /\ (hook' = "running" => Current' # p)
    OBVIOUS
  <2>1. LoopPart' /\ SortPart'
    BY LoopPartStep, SortPartStep
  <2>2. state'[p] = "error"
    <3>1. CASE HookResolves \/ HookThrows
      <4>1. Current # p
        BY <3>1 DEF HookResolves, HookThrows, LoopPart, HookInv, Failed
      <4>2. state \in [Plugin -> Lifecycle]
        BY DEF SortPart, TypeInv, TypeOK
      <4> QED BY <3>1, <4>1, <4>2 DEF HookResolves, HookThrows
    <3>2. CASE UNCHANGED state
      BY <3>2
    <3>3. HookResolves \/ HookThrows \/ UNCHANGED state
      BY DEF Next, Call, Progress, InitCall, Register, MissingDependency, BuildGraph, SortStep,
         SortEnd, ResolveFails, NoInstance, ErrorReturn, HookBegin, LoopEnd, RunCall, DestroyCall,
         registryVars, pluginVars
    <3> QED BY <3>1, <3>2, <3>3
  <2>3. hook' = "running" => Current' # p
    BY <2>1, <2>2 DEF LoopPart, HookInv, Failed
  <2> QED BY <2>2, <2>3
<1> QED BY <1>1, Inductive, PTL DEF Spec, FailedPluginIsLeftAlone

-----------------------------------------------------------------------------
(* The bootstrap: refinement.                                             *)

\* A step of the bootstrap is a step of the registry, or none of its business.
LEMMA CoreStepsTheRegistry == [CoreNext]_vars => [Next]_registryVars
<1> SUFFICES ASSUME CoreNext \/ UNCHANGED vars PROVE Next \/ UNCHANGED registryVars
  OBVIOUS
<1>1. ASSUME NEW p \in Plugin, Use(p) PROVE Next
  BY <1>1 DEF Use, Next, Call
<1>2. AppInit \/ AppRun \/ AppDestroy => Next
  BY DEF AppInit, AppRun, AppDestroy, Next, Call
<1>3. PluginStep => Next
  BY DEF PluginStep, Next
<1>4. ScanFails \/ InitRejected \/ Listen \/ ShutdownAwaited \/ Exit => UNCHANGED registryVars
  BY DEF ScanFails, InitRejected, Listen, ShutdownAwaited, Exit
<1>5. ASSUME NEW s \in Signals, Signal(s) PROVE UNCHANGED registryVars
  BY <1>5 DEF Signal
<1>6. UNCHANGED vars => UNCHANGED registryVars
  BY DEF vars
<1> QED BY <1>1, <1>2, <1>3, <1>4, <1>5, <1>6 DEF CoreNext, BootstrapStep

\* The bootstrap, whatever signals come, whatever fails and with any plugins,
\* makes the calls of the registry in the order the registry assumes: register,
\* init, run after an init that resolved, destroy (AxiSparkCore and the
\* bootstrap of the templates).
THEOREM CoreImplementsRegistry == CoreSpec => RegistrySpec
<1>1. CoreInit => Init
  BY DEF CoreInit
<1> QED BY <1>1, CoreStepsTheRegistry, PTL DEF CoreSpec, RegistrySpec, Spec

\* What is proved of the registry holds in every application.
THEOREM CoreKeepsTheRegistry ==
    CoreSpec => /\ []TopologicalOrder /\ []CircularErrorIsExact
                /\ []StartsAfterDependencies /\ []StopsAfterDependents
                /\ []CleanShutdown /\ FailedPluginIsLeftAlone
  BY CoreImplementsRegistry, SortIsTopological, CircularErrorCorrect, StartOrderCorrect,
     StopOrderCorrect, ShutdownCorrect, FailureIsFinal, PTL DEF RegistrySpec

-----------------------------------------------------------------------------
(* Waiting.                                                                *)

\* The interval keeps the event loop alive from run to destroy, and the signals
\* that have no listener any more have asked for the shutdown.
WaitInv ==
    /\ main \in {"boot", "init", "run", "wait", "finally", "destroy", "exited", "killed"}
    /\ main \in {"run", "wait"} => keepAlive
    /\ main = "wait" => phase = "running" /\ (shutdown \/ handlers = Signals)

LEMMA WaitInit == CoreInit => WaitInv
  BY DEF CoreInit, WaitInv

LEMMA WaitStep == WaitInv /\ [CoreNext]_vars => WaitInv'
<1> SUFFICES ASSUME WaitInv, CoreNext \/ UNCHANGED vars PROVE WaitInv'
  OBVIOUS
<1>1. ASSUME NEW p \in Plugin, Use(p) PROVE WaitInv'
  BY <1>1 DEF Use, WaitInv, coreVars
<1>2. CASE ScanFails
  BY <1>2 DEF ScanFails, WaitInv
<1>3. CASE AppInit
  BY <1>3 DEF AppInit, WaitInv
<1>4. CASE InitRejected
  BY <1>4 DEF InitRejected, WaitInv
<1>5. CASE AppRun
  BY <1>5 DEF AppRun, WaitInv
<1>6. CASE Listen
  BY <1>6 DEF Listen, WaitInv, Listeners, Signals, registryVars, loopVars
<1>7. CASE ShutdownAwaited
  BY <1>7 DEF ShutdownAwaited, WaitInv
<1>8. CASE AppDestroy
  BY <1>8 DEF AppDestroy, WaitInv
<1>9. CASE Exit
  BY <1>9 DEF Exit, WaitInv
\* The registry's loops have ended while the application waits.
<1>10. CASE PluginStep
  <2>1. UNCHANGED <<main, keepAlive, shutdown, handlers>>
    BY <1>10 DEF PluginStep, coreVars
  <2>2. phase = "running" => phase' = "running"
    BY <1>10 DEF PluginStep, Progress, SortStep, SortEnd, ResolveFails, NoInstance, ErrorReturn,
                 HookBegin, HookResolves, HookThrows, LoopEnd, InLoop, Hook, loopVars
  <2> QED BY <2>1, <2>2 DEF WaitInv
<1>11. ASSUME NEW s \in Signals, Signal(s) PROVE WaitInv'
  BY <1>11 DEF Signal, WaitInv, registryVars, loopVars
<1>12. CASE UNCHANGED vars
  BY <1>12 DEF vars, coreVars, registryVars, loopVars, WaitInv
<1> QED
  BY <1>1, <1>2, <1>3, <1>4, <1>5, <1>6, <1>7, <1>8, <1>9, <1>10, <1>11, <1>12
  DEF CoreNext, BootstrapStep

\* With any plugins and at every moment signals may come: an application that
\* waits is kept alive, its health is decided, and its shutdown has been asked
\* for or still can be (AxiSparkCore.run).
THEOREM WaitingCorrect == CoreSpec => []WaitingIsServing
<1>1. CoreSpec => []WaitInv
  BY WaitInit, WaitStep, PTL DEF CoreSpec
<1>2. CoreSpec => []HealthDecidedAfterRun
  BY CoreImplementsRegistry, HealthCorrect, PTL DEF RegistrySpec
<1>3. WaitInv /\ HealthDecidedAfterRun => WaitingIsServing
  BY DEF WaitInv, HealthDecidedAfterRun, WaitingIsServing, AppHealth
<1> QED BY <1>1, <1>2, <1>3, PTL
===============================================================================

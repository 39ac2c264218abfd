--------------------------- MODULE ContainerProofs ---------------------------
(* Proofs about Container, for every graph of providers and every number of *)
(* callers, whose calls may overlap.                                        *)
EXTENDS Container, SequenceTheorems, TLAPS

-----------------------------------------------------------------------------
(* The invariant of all callers.                                           *)

Phases == {"idle", "resolve", "frame", "factory", "built", "given", "thrown"}
Errors == {"none", "notFound", "noScope", "circular", "scope", "failed"}
Calls == [at : Phases, token : Token \cup {NoCall.token}, scoped : BOOLEAN, scope : Scopes,
          no : Nat, error : Errors]
Frames == [token : Token, provider : Makers, next : Nat, scoped : BOOLEAN]
Stacked == [class : Class, scope : Scopes]

ContainerTypeOK ==
    /\ workload \in Workloads
    /\ providers \in [Token -> Providers]
    /\ instances \in [Caller -> [Token -> Nat]]
    /\ resolving \in Seq(Stacked)
    /\ running \in Caller \cup {NoCaller}
    /\ call \in [Caller -> Calls]
    /\ frames \in [Caller -> Seq(Frames)]
    /\ made \in [Token -> Nat]
    /\ leaks \in Nat
    /\ \A c \in Caller : call[c].at # "idle" => call[c].token \in Token

\* What the program bound; a provider changes only when its singleton is made.
Bound(t) == workload.providers[t]
IsSingleton(t) == IsMaker(Bound(t)) /\ Bound(t).scope = "singleton"
IsScoped(t) == IsMaker(Bound(t)) /\ Bound(t).scope = "scoped"
BindingInv ==
    /\ singletons = {t \in Token : IsSingleton(t)}
    /\ \A t \in Token : providers[t] = Bound(t) \/ (t \in singletons /\ providers[t].kind = "value")

\* A frame is of what was bound, and what is built was bound, too.
IsFrame(f) ==
    /\ IsMaker(f.provider) /\ f.provider = Bound(f.token) /\ f.scoped = IsScoped(f.token)
    /\ f.next \in 1 .. Len(f.provider.deps) + 1
FramesInv(c) ==
    /\ \A i \in DOMAIN frames[c] : IsFrame(frames[c][i])
    /\ call[c].at \in {"frame", "factory"} => frames[c] # <<>>
    /\ call[c].at = "factory" => Top(c).next > Len(Top(c).provider.deps)
    /\ call[c].at = "idle" => frames[c] = <<>>
    /\ call[c].at = "built" =>
        IsMaker(Bound(call[c].token)) /\ call[c].scope = Bound(call[c].token).scope /\ call[c].no # 0

BaseInv == ContainerTypeOK /\ BindingInv /\ \A c \in Caller : FramesInv(c)

-----------------------------------------------------------------------------
(* Stacks.                                                                 *)

LEMMA Appending ==
    ASSUME NEW S, NEW s \in Seq(S), NEW x \in S
    PROVE  /\ Append(s, x) \in Seq(S) /\ Len(Append(s, x)) = Len(s) + 1
           /\ Append(s, x) # <<>> /\ Append(s, x)[Len(s) + 1] = x
           /\ \A i \in 1 .. Len(s) : Append(s, x)[i] = s[i]
OBVIOUS

LEMMA Popping ==
    ASSUME NEW S, NEW s \in Seq(S)
    PROVE  /\ Pop(s) \in Seq(S) /\ Len(Pop(s)) \in Nat
           /\ s # <<>> => /\ Len(s) >= 1 /\ Len(Pop(s)) = Len(s) - 1
                          /\ \A i \in 1 .. Len(s) - 1 : Pop(s)[i] = s[i]
           /\ s = <<>> => Len(Pop(s)) = 0 /\ Pop(s) = <<>>
<1>1. CASE s = <<>>
  BY <1>1 DEF Pop
<1>2. CASE s # <<>>
  <2>1. Len(s) \in Nat /\ Len(s) >= 1
    BY <1>2
  <2>2. Pop(s) = SubSeq(s, 1, Len(s) - 1)
    BY <1>2 DEF Pop
  <2>3. Pop(s) \in Seq(S) /\ Len(Pop(s)) = Len(s) - 1
    <3>1. \A i \in 1 .. Len(s) - 1 : s[i] \in S
      BY <2>1
    <3>2. SubSeq(s, 1, Len(s) - 1) \in Seq(S)
          /\ Len(SubSeq(s, 1, Len(s) - 1)) = IF 1 <= Len(s) - 1 THEN Len(s) - 1 - 1 + 1 ELSE 0
      BY <2>1, <3>1, SubSeqProperties
    <3>3. \A n \in Nat : n >= 1 => (IF 1 <= n - 1 THEN n - 1 - 1 + 1 ELSE 0) = n - 1
      OBVIOUS
    <3>4. (IF 1 <= Len(s) - 1 THEN Len(s) - 1 - 1 + 1 ELSE 0) = Len(s) - 1
      BY <2>1, <3>3, Zenon
    <3> QED BY <2>2, <3>2, <3>4, Zenon
  <2>4. \A i \in 1 .. Len(s) - 1 : Pop(s)[i] = s[i]
    BY <2>1, <2>2
  <2> QED BY <1>2, <2>1, <2>3, <2>4
<1> QED BY <1>1, <1>2

\* The frame on top, and those below it.
LEMMA TopIsAFrame ==
    ASSUME ContainerTypeOK, NEW c \in Caller, frames[c] # <<>>
    PROVE  /\ Len(frames[c]) \in Nat \ {0} /\ Len(frames[c]) \in DOMAIN frames[c]
           /\ DOMAIN frames[c] = 1 .. Len(frames[c])
           /\ Top(c) \in Frames /\ Top(c) = frames[c][Len(frames[c])]
BY DEF ContainerTypeOK, Top

-----------------------------------------------------------------------------
(* What a caller's step leaves alone.                                      *)

LEMMA OthersAreLeftAlone ==
    ASSUME NEW c \in Caller, NEW d \in Caller \ {c}, ContainerTypeOK,
           (\E t \in Token, s \in BOOLEAN : Ask(c, t, s)) \/ Progress(c)
    PROVE  /\ call'[d] = call[d] /\ frames'[d] = frames[d] /\ instances'[d] = instances[d]
           /\ workload' = workload /\ singletons' = singletons
BY DEF ContainerTypeOK, Progress, Resolve, Activation, Continue, Ask, NotFound, ResolveValue,
       ResolveExisting, NoScopedContainer, ResolveCached, Circular, ScopeViolation, Enter, Depend,
       CallFactory, Construct, ConstructFails, Store, Receive, Unwind, Throw, Give, Leave, history

LEMMA TokensOfMakers ==
    ASSUME NEW p \in Providers
    PROVE  /\ IsMaker(p) => p \in Makers
           /\ p.kind = "existing" => p.target \in Token
           /\ p.kind = "value" => p.no \in Nat
           /\ p.kind \in {"class", "factory", "value", "existing", "unbound"}
BY DEF Providers, IsMaker, Makers, Unbound

LEMMA BoundProviders ==
    ASSUME BaseInv
    PROVE  /\ workload.callers \subseteq Caller
           /\ \A t \in Token : Bound(t) \in Providers
           /\ \A t \in Token : IsMaker(providers[t]) => providers[t] = Bound(t)
BY ContainerAssumptions DEF BaseInv, ContainerTypeOK, BindingInv, Bound, IsMaker

\* The steps that change neither the stack of frames nor the state of the container.
LEMMA AnswersKeepBase ==
    ASSUME BaseInv, NEW c \in Caller,
           \/ \E t \in Token, s \in BOOLEAN : Ask(c, t, s)
           \/ NotFound(c) \/ ResolveValue(c) \/ ResolveExisting(c)
           \/ NoScopedContainer(c) \/ ResolveCached(c)
           \/ Circular(c) \/ ScopeViolation(c) \/ CallFactory(c) \/ Receive(c)
    PROVE  BaseInv'
<1> USE DEF BaseInv
<1> DEFINE Quiet == /\ frames' = frames /\ instances' = instances /\ providers' = providers
                    /\ workload' = workload /\ singletons' = singletons /\ made' = made
<1> SUFFICES /\ call' \in [Caller -> Calls] /\ running' \in Caller \cup {NoCaller}
             /\ resolving' \in Seq(Stacked) /\ leaks' \in Nat
             /\ call'[c].at # "idle" => call'[c].token \in Token
             /\ FramesInv(c)' /\ Quiet
  <2>1. ASSUME NEW d \in Caller \ {c} PROVE FramesInv(d)' /\ call'[d] = call[d]
    BY <2>1, OthersAreLeftAlone
       DEF FramesInv, IsFrame, Bound, IsScoped, Top, Progress, Resolve, Activation, Continue
  <2> QED BY <2>1 DEF ContainerTypeOK, BindingInv, IsSingleton, Bound
<1>1. CASE \E t \in Token, s \in BOOLEAN : Ask(c, t, s)
  <2>1. PICK t \in Token, s \in BOOLEAN : Ask(c, t, s)
    BY <1>1
  <2> DEFINE new == [NoCall EXCEPT !.at = "resolve", !.token = t, !.scoped = s]
  <2>2. new \in Calls /\ new.at = "resolve" /\ new.token = t
    BY DEF NoCall, Calls, Phases, Errors, Scopes
  <2> HIDE DEF new
  <2>3. call' = [call EXCEPT ![c] = new] /\ running' = c /\ UNCHANGED <<resolving, leaks>> /\ Quiet
        /\ call[c].at = "idle"
    BY <2>1 DEF Ask, new
  <2> QED BY <2>2, <2>3 DEF ContainerTypeOK, FramesInv, IsFrame, Bound, IsScoped, Top
<1>2. call[c] \in Calls /\ call[c].at \in Phases /\ (call[c].at # "idle" => call[c].token \in Token)
  BY DEF ContainerTypeOK, Calls
<1>3. ASSUME NEW a \in {"thrown", "given", "resolve", "factory", "frame", "idle"},
             NEW new \in Calls, new.at = a, call' = [call EXCEPT ![c] = new],
             a # "idle" => new.token \in Token,
             a = "factory" => Top(c).next > Len(Top(c).provider.deps),
             a = "idle" => frames[c] = <<>>, a \in {"frame", "factory"} => frames[c] # <<>>,
             running' \in {c, NoCaller}, resolving' \in Seq(Stacked), leaks' \in Nat, Quiet
      PROVE  /\ call' \in [Caller -> Calls] /\ running' \in Caller \cup {NoCaller}
             /\ resolving' \in Seq(Stacked) /\ leaks' \in Nat
             /\ call'[c].at # "idle" => call'[c].token \in Token
             /\ FramesInv(c)' /\ Quiet
  BY <1>3 DEF ContainerTypeOK, FramesInv, IsFrame, Bound, IsScoped, Top
<1>. resolving \in Seq(Stacked) /\ leaks \in Nat
  BY DEF ContainerTypeOK
<1>4. CASE NotFound(c)
  BY <1>2, <1>3, <1>4 DEF NotFound, Resolves, Throw, Await, history, Calls, Phases, Errors
<1>5. CASE ResolveValue(c)
  <2>1. Asked(c).no \in Nat
    BY <1>2, <1>5, TokensOfMakers DEF ResolveValue, Resolves, Asked, ContainerTypeOK
  <2> DEFINE new == [call[c] EXCEPT !.at = "given", !.no = Asked(c).no]
  <2>2. new \in Calls /\ new.at = "given" /\ new.token = call[c].token
    BY <1>2, <2>1 DEF Calls, Phases
  <2> HIDE DEF new
  <2>3. call' = [call EXCEPT ![c] = new]
    BY <1>5 DEF ResolveValue, Give, new, ContainerTypeOK
  <2> QED BY <1>2, <1>3, <1>5, <2>2, <2>3 DEF ResolveValue, Resolves, Await, history
<1>6. CASE ResolveExisting(c)
  <2>1. Asked(c).target \in Token
    BY <1>2, <1>6, TokensOfMakers DEF ResolveExisting, Resolves, Asked, ContainerTypeOK
  <2> DEFINE new == [call[c] EXCEPT !.token = Asked(c).target, !.scoped = FALSE]
  <2>2. new \in Calls /\ new.at = call[c].at /\ new.token = Asked(c).target
    BY <1>2, <2>1 DEF Calls
  <2> HIDE DEF new
  <2>3. call' = [call EXCEPT ![c] = new]
    BY <1>6 DEF ResolveExisting, new, ContainerTypeOK
  <2> QED BY <1>2, <1>3, <1>6, <2>1, <2>2, <2>3 DEF ResolveExisting, Resolves, Await, history
<1>7. CASE NoScopedContainer(c)
  BY <1>2, <1>3, <1>7 DEF NoScopedContainer, Resolves, Throw, Await, history, Calls, Phases, Errors
<1>8. CASE ResolveCached(c)
  <2>1. instances[c][call[c].token] \in Nat
    BY <1>2, <1>8 DEF ResolveCached, Resolves, ContainerTypeOK
  <2> DEFINE new == [call[c] EXCEPT !.at = "given", !.no = instances[c][call[c].token]]
  <2>2. new \in Calls /\ new.at = "given" /\ new.token = call[c].token
    BY <1>2, <2>1 DEF Calls, Phases
  <2> HIDE DEF new
  <2>3. call' = [call EXCEPT ![c] = new]
    BY <1>8 DEF ResolveCached, Give, new, ContainerTypeOK
  <2> QED BY <1>2, <1>3, <1>8, <2>2, <2>3 DEF ResolveCached, Resolves, Await, history
<1>9. CASE CallFactory(c)
  <2> DEFINE new == [call[c] EXCEPT !.at = "factory"]
  <2>2. new \in Calls /\ new.at = "factory" /\ new.token = call[c].token
    BY <1>2 DEF Calls, Phases
  <2> HIDE DEF new
  <2>3. call' = [call EXCEPT ![c] = new] /\ call[c].at = "frame"
    BY <1>9 DEF CallFactory, new, ContainerTypeOK
  <2> QED BY <1>2, <1>3, <1>9, <2>2, <2>3 DEF CallFactory, Await, history, FramesInv
<1>10. CASE Receive(c)
  BY <1>2, <1>3, <1>10 DEF Receive, history, Calls, Phases, Errors
<1>11. CASE Circular(c) \/ ScopeViolation(c)
  <2>1. Entry(Asked(c)) \in Stacked
    <3>1. Asked(c) \in Makers
      BY <1>2, <1>11, TokensOfMakers
         DEF Circular, ScopeViolation, Reaches, Resolves, Asked, ContainerTypeOK
    <3> QED BY <3>1 DEF Entry, Stacked, Makers
  <2> DEFINE e == IF Circular(c) THEN "circular" ELSE "scope"
             new == [call[c] EXCEPT !.at = "thrown", !.error = e]
  <2>2. new \in Calls /\ new.at = "thrown" /\ new.token = call[c].token
    BY <1>2 DEF Calls, Phases, Errors
  <2> HIDE DEF new, e
  <2>3. call' = [call EXCEPT ![c] = new] /\ resolving' = Append(resolving, Entry(Asked(c)))
        /\ leaks' = leaks + 1 /\ call[c].at = "resolve" /\ running' = NoCaller /\ Quiet
    BY <1>11 DEF Circular, ScopeViolation, Reaches, Resolves, Throw, Push, Await, new, e, ContainerTypeOK
  <2>4. resolving' \in Seq(Stacked) /\ leaks' \in Nat
    BY <2>1, <2>3, Appending
  <2> QED BY <1>2, <1>3, <2>2, <2>3, <2>4
<1> QED BY <1>1, <1>4, <1>5, <1>6, <1>7, <1>8, <1>9, <1>10, <1>11

\* The steps that change the stack of frames, and Store.
LEMMA FramesKeepBase ==
    ASSUME BaseInv, NEW c \in Caller,
           Enter(c) \/ Depend(c) \/ Construct(c) \/ ConstructFails(c) \/ Store(c) \/ Unwind(c)
    PROVE  BaseInv'
<1> USE DEF BaseInv
<1> DEFINE Kept == workload' = workload /\ singletons' = singletons
<1> SUFFICES /\ ContainerTypeOK' /\ FramesInv(c)' /\ Kept /\ BindingInv'
  <2>1. ASSUME NEW d \in Caller \ {c} PROVE FramesInv(d)'
    BY <2>1, OthersAreLeftAlone
       DEF FramesInv, IsFrame, Bound, IsScoped, Top, Progress, Resolve, Activation, Continue
  <2> QED BY <2>1
<1>1. call[c] \in Calls /\ (call[c].at # "idle" => call[c].token \in Token)
      /\ frames[c] \in Seq(Frames) /\ resolving \in Seq(Stacked) /\ leaks \in Nat
  BY DEF ContainerTypeOK, Calls
<1>2. CASE Enter(c)
  <2> DEFINE f == [token |-> call[c].token, provider |-> Asked(c), next |-> 1,
                   scoped |-> PassesContainer(Asked(c))]
  <2>1. call[c].token \in Token /\ Asked(c) \in Makers /\ Asked(c) = Bound(call[c].token) /\ IsMaker(Asked(c))
    BY <1>1, <1>2, TokensOfMakers, BoundProviders DEF Enter, Reaches, Resolves, Asked, ContainerTypeOK
  <2>2. f \in Frames /\ IsFrame(f) /\ Entry(Asked(c)) \in Stacked
    BY <2>1 DEF Frames, IsFrame, PassesContainer, IsScoped, Bound, Entry, Stacked, Makers
  <2> HIDE DEF f
  <2>3. /\ resolving' = Append(resolving, Entry(Asked(c)))
        /\ frames' = [frames EXCEPT ![c] = Append(frames[c], f)]
        /\ call' = [call EXCEPT ![c].at = "frame"]
        /\ UNCHANGED <<providers, instances, running, workload, made, singletons, leaks>>
    BY <1>2 DEF Enter, Push, history, f, ContainerTypeOK
  <2>4. resolving' \in Seq(Stacked) /\ frames' \in [Caller -> Seq(Frames)]
    BY <1>1, <2>2, <2>3, Appending DEF ContainerTypeOK
  <2>5. call' \in [Caller -> Calls] /\ call'[c].at = "frame" /\ call'[c].token = call[c].token
    BY <1>1, <2>3 DEF ContainerTypeOK, Calls, Phases
  <2>6. FramesInv(c)'
    <3>1. frames'[c] = Append(frames[c], f) /\ frames'[c] # <<>> /\ DOMAIN frames'[c] = 1 .. Len(frames[c]) + 1
      BY <1>1, <2>2, <2>3, Appending DEF ContainerTypeOK
    <3>2. \A i \in DOMAIN frames'[c] : IsFrame(frames'[c][i])
      BY <1>1, <2>2, <3>1, Appending DEF FramesInv
    <3> QED BY <2>3, <2>5, <3>1, <3>2 DEF FramesInv, IsFrame, Bound, IsScoped
  <2>7. ContainerTypeOK'
    BY <2>3, <2>4, <2>5, <2>1 DEF ContainerTypeOK
  <2> QED BY <2>3, <2>6, <2>7 DEF BindingInv, IsSingleton, Bound
<1>3. CASE Depend(c)
  <2> DEFINE n == Len(frames[c])
             u == Top(c).provider.deps[Top(c).next]
             f == [Top(c) EXCEPT !.next = @ + 1]
             new == [call[c] EXCEPT !.at = "resolve", !.scoped = Top(c).scoped, !.token = u]
  <2>1. /\ frames[c] # <<>> /\ n \in DOMAIN frames[c] /\ DOMAIN frames[c] = 1 .. n
        /\ Top(c) = frames[c][n] /\ Top(c) \in Frames /\ IsFrame(Top(c))
        /\ Top(c).next <= Len(Top(c).provider.deps)
    BY <1>3, TopIsAFrame DEF Depend, FramesInv
  <2>2. u \in Token
    <3>1. Top(c).provider.deps \in Seq(Token) /\ Top(c).next \in DOMAIN Top(c).provider.deps
      BY <2>1 DEF Frames, Makers, IsFrame
    <3> QED BY <3>1
  <2>3. new \in Calls /\ new.at = "resolve" /\ new.token = u
    BY <1>1, <2>1, <2>2 DEF Calls, Phases, Frames
  <2>4. f \in Frames /\ IsFrame(f)
    BY <2>1 DEF Frames, IsFrame, Makers
  <2> HIDE DEF new, f
  <2>5. /\ call' = [call EXCEPT ![c] = new] /\ frames' = [frames EXCEPT ![c] = [frames[c] EXCEPT ![n] = f]]
        /\ UNCHANGED <<providers, instances, resolving, running, workload, made, singletons, leaks>>
    BY <1>3, <2>1 DEF Depend, history, new, f, ContainerTypeOK
  <2>6. /\ frames'[c] = [frames[c] EXCEPT ![n] = f] /\ frames'[c] \in Seq(Frames)
        /\ DOMAIN frames'[c] = 1 .. n /\ frames'[c][n] = f
        /\ \A i \in 1 .. n - 1 : frames'[c][i] = frames[c][i]
    <3>1. frames'[c] = [frames[c] EXCEPT ![n] = f]
      BY <2>5 DEF ContainerTypeOK
    <3>2. [frames[c] EXCEPT ![n] = f] \in Seq(Frames)
      BY <1>1, <2>1, <2>4
    <3> QED BY <2>1, <3>1, <3>2
  <2>7. FramesInv(c)'
    <3>1. \A i \in 1 .. n : IsFrame(frames'[c][i])
      BY <2>1, <2>4, <2>6 DEF FramesInv
    <3> QED BY <2>3, <2>5, <2>6, <3>1 DEF FramesInv, IsFrame, Bound, IsScoped, ContainerTypeOK
  <2> QED BY <2>2, <2>3, <2>5, <2>6, <2>7 DEF ContainerTypeOK, BindingInv, IsSingleton, Bound
<1>4. ASSUME frames' = [frames EXCEPT ![c] = Pop(@)], workload' = workload,
             NEW new \in Calls, call' = [call EXCEPT ![c] = new],
             \/ new.at = "thrown"
             \/ /\ new.at = "built" /\ IsMaker(Bound(new.token)) /\ new.scope = Bound(new.token).scope
                /\ new.no # 0,
             new.token \in Token
      PROVE  call' \in [Caller -> Calls] /\ frames' \in [Caller -> Seq(Frames)] /\ FramesInv(c)'
             /\ call'[c].token \in Token
  <2>1. frames'[c] = Pop(frames[c]) /\ frames' \in [Caller -> Seq(Frames)]
    BY <1>1, <1>4, Popping DEF ContainerTypeOK
  <2>2. \A i \in DOMAIN frames'[c] : i \in DOMAIN frames[c] /\ frames'[c][i] = frames[c][i]
    <3>1. CASE frames[c] = <<>>
      BY <1>1, <2>1, <3>1, Popping
    <3>2. CASE frames[c] # <<>>
      <4> DEFINE s == frames[c]
      <4>1. /\ Len(s) >= 1 /\ Len(Pop(s)) = Len(s) - 1 /\ Pop(s) \in Seq(Frames)
            /\ \A i \in 1 .. Len(s) - 1 : Pop(s)[i] = s[i]
        BY <1>1, <3>2, Popping
      <4>2. DOMAIN s = 1 .. Len(s) /\ DOMAIN Pop(s) = 1 .. Len(s) - 1 /\ Len(s) \in Nat
        BY <1>1, <4>1
      <4> QED BY <2>1, <4>1, <4>2
    <3> QED BY <3>1, <3>2
  <2> QED BY <1>4, <2>1, <2>2 DEF FramesInv, IsFrame, Bound, IsScoped, ContainerTypeOK
<1>5. CASE Construct(c)
  <2> DEFINE t == Top(c).token
             new == [call[c] EXCEPT !.at = "built", !.token = t, !.no = made[t] + 1,
                                    !.scope = Top(c).provider.scope]
  <2>1. frames[c] # <<>> /\ Top(c) \in Frames /\ IsFrame(Top(c))
    BY <1>5, TopIsAFrame DEF Construct, Constructs, FramesInv
  <2>2. t \in Token /\ made[t] \in Nat /\ Top(c).provider.scope \in Scopes
    BY <2>1 DEF Frames, Makers, ContainerTypeOK
  <2>3. /\ new \in Calls /\ new.at = "built" /\ new.token = t /\ IsMaker(Bound(t)) /\ new.no # 0
        /\ new.scope = Bound(t).scope
    <3>1. made[t] + 1 \in Nat /\ made[t] + 1 # 0
      BY <2>2
    <3>2. new \in Calls /\ new.at = "built" /\ new.token = t /\ new.no = made[t] + 1
          /\ new.scope = Top(c).provider.scope
      BY <1>1, <2>2, <3>1 DEF Calls, Phases
    <3> QED BY <2>1, <3>1, <3>2 DEF IsFrame
  <2> HIDE DEF new
  <2>4. /\ call' = [call EXCEPT ![c] = new] /\ frames' = [frames EXCEPT ![c] = Pop(@)]
        /\ resolving' = Pop(resolving) /\ made' = [made EXCEPT ![t] = made[t] + 1] /\ running' = NoCaller
        /\ UNCHANGED <<providers, instances, workload, singletons, leaks>>
    BY <1>5, <2>2 DEF Construct, Leave, Popped, Await, new, ContainerTypeOK
  <2>5. resolving' \in Seq(Stacked)
    BY <1>1, <2>4, Popping
  <2>6. made' \in [Token -> Nat]
    BY <2>2, <2>4 DEF ContainerTypeOK
  <2> QED BY <1>4, <2>2, <2>3, <2>4, <2>5, <2>6 DEF ContainerTypeOK, BindingInv, IsSingleton, Bound
<1>6. CASE ConstructFails(c)
  <2> DEFINE new == [call[c] EXCEPT !.at = "thrown", !.error = "failed"]
  <2>1. new \in Calls /\ new.at = "thrown" /\ new.token = call[c].token /\ new.token \in Token
    BY <1>1, <1>6 DEF Calls, Phases, Errors, ConstructFails, Constructs
  <2> HIDE DEF new
  <2>2. /\ call' = [call EXCEPT ![c] = new] /\ frames' = [frames EXCEPT ![c] = Pop(@)]
        /\ resolving' = Pop(resolving) /\ running' = NoCaller
        /\ UNCHANGED <<providers, instances, workload, singletons, leaks, made>>
    BY <1>6 DEF ConstructFails, Leave, Popped, Await, Throw, new, history, ContainerTypeOK
  <2>3. resolving' \in Seq(Stacked)
    BY <1>1, <2>2, Popping
  <2> QED BY <1>4, <2>1, <2>2, <2>3 DEF ContainerTypeOK, BindingInv, IsSingleton, Bound
<1>7. CASE Store(c)
  <2> DEFINE t == call[c].token
             new == [call[c] EXCEPT !.at = "given", !.no = call[c].no]
  <2>1. /\ t \in Token /\ call[c].no \in Nat /\ call[c].at = "built"
        /\ IsMaker(Bound(t)) /\ call[c].scope = Bound(t).scope
    BY <1>1, <1>7 DEF Calls, Store, FramesInv
  <2>2. new \in Calls /\ new.at = "given" /\ new.token = t
    BY <1>1 DEF Calls, Phases
  <2> HIDE DEF new
  <2>3. /\ call' = [call EXCEPT ![c] = new]
        /\ providers' = IF IsShared(c) THEN [providers EXCEPT ![t] = UseValue(call[c].no)] ELSE providers
        /\ instances' = IF call[c].scope = "scoped"
                        THEN [instances EXCEPT ![c][t] = call[c].no] ELSE instances
        /\ UNCHANGED <<resolving, running, frames, workload, made, singletons, leaks>>
    BY <1>7 DEF Store, Give, history, new, ContainerTypeOK
  <2>4. UseValue(call[c].no) \in Providers /\ UseValue(call[c].no).kind = "value"
    BY <2>1 DEF UseValue, Providers
  <2>5. providers' \in [Token -> Providers] /\ instances' \in [Caller -> [Token -> Nat]]
    BY <2>1, <2>3, <2>4 DEF ContainerTypeOK
  <2>6. BindingInv'
    <3>1. IsShared(c) => t \in singletons
      BY <2>1 DEF BindingInv, IsSingleton, IsShared
    <3> QED BY <2>3, <2>4, <2>5, <3>1 DEF BindingInv, IsSingleton, Bound, ContainerTypeOK
  <2>7. FramesInv(c)'
    BY <2>2, <2>3 DEF FramesInv, IsFrame, Bound, IsScoped, ContainerTypeOK
  <2> QED BY <2>1, <2>2, <2>3, <2>5, <2>6, <2>7 DEF ContainerTypeOK
<1>8. CASE Unwind(c)
  <2>1. CASE frames[c] = <<>>
    <3> DEFINE new == [call[c] EXCEPT !.at = "idle"]
    <3>1. new \in Calls /\ new.at = "idle"
      BY <1>1 DEF Calls, Phases
    <3> HIDE DEF new
    <3>2. call' = [call EXCEPT ![c] = new]
          /\ UNCHANGED <<providers, instances, resolving, running, frames, workload, made, singletons, leaks>>
      BY <1>8, <2>1 DEF Unwind, history, new, ContainerTypeOK
    <3> QED BY <2>1, <3>1, <3>2 DEF ContainerTypeOK, FramesInv, BindingInv, IsSingleton, Bound
  <2>2. CASE frames[c] # <<>>
    <3>1. /\ call[c].at = "thrown" /\ call' = [call EXCEPT ![c] = call[c]] /\ call' = call
          /\ frames' = [frames EXCEPT ![c] = Pop(@)] /\ resolving' = Pop(resolving)
          /\ UNCHANGED <<providers, instances, running, workload, made, singletons, leaks>>
      BY <1>8, <2>2 DEF Unwind, Leave, Popped, history, ContainerTypeOK
    <3>2. resolving' \in Seq(Stacked)
      BY <1>1, <3>1, Popping
    <3> QED BY <1>1, <1>4, <3>1, <3>2 DEF ContainerTypeOK, BindingInv, IsSingleton, Bound
  <2> QED BY <2>1, <2>2
<1> QED BY <1>2, <1>3, <1>5, <1>6, <1>7, <1>8

LEMMA InitBase == Init => BaseInv
<1> SUFFICES ASSUME Init PROVE BaseInv
  OBVIOUS
<1> USE DEF Init
<1>1. NoCall \in Calls /\ NoCall.at = "idle"
  BY DEF NoCall, Calls, Phases, Errors, Scopes
<1>2. providers \in [Token -> Providers]
  BY ContainerAssumptions
<1>3. \A c \in Caller : call[c] = NoCall /\ frames[c] = <<>> /\ frames[c] \in Seq(Frames)
  OBVIOUS
<1>4. ContainerTypeOK
  BY <1>1, <1>2, <1>3 DEF ContainerTypeOK
<1>5. BindingInv
  BY DEF BindingInv, IsSingleton, Bound
<1>6. \A c \in Caller : FramesInv(c)
  BY <1>1, <1>3 DEF FramesInv
<1> QED BY <1>4, <1>5, <1>6 DEF BaseInv

LEMMA NextKeepsBase ==
    ASSUME BaseInv, [Next]_vars
    PROVE  BaseInv'
<1>1. CASE UNCHANGED vars
  BY <1>1 DEF vars, BaseInv, ContainerTypeOK, BindingInv, FramesInv, IsFrame, Bound, IsSingleton,
              IsScoped, Top
<1>2. CASE Next
  BY <1>2, BoundProviders, AnswersKeepBase, FramesKeepBase
     DEF Next, Progress, Resolve, Activation, Continue
<1> QED BY <1>1, <1>2

-----------------------------------------------------------------------------
(* Scoped instances. They are made once although the entries of calls that  *)
(* overlap get mixed up, so that a cycle may go unnoticed: a scoped token    *)
(* that is resolved again inside its own resolution never completes there.   *)

\* The dependency that a frame waits for, and those it has received.
Under(f) == f.provider.deps[f.next - 1]
Active(c, i) == i = Len(frames[c]) /\ call[c].at \in {"frame", "factory"}
Received(c, i) == IF Active(c, i) THEN frames[c][i].next - 1 ELSE frames[c][i].next - 2
Has(c, t) == instances[c][t] # 0
ScopedDeps(t) == {u \in Token : IsScoped(u) /\ \E j \in DOMAIN Bound(t).deps : Bound(t).deps[j] = u}

\* A frame that is not active waits for a dependency, and the frame above it is
\* that dependency's, if the dependency is scoped.
NestInv(c) ==
    /\ \A i \in DOMAIN frames[c] : ~Active(c, i) => frames[c][i].next > 1
    /\ \A i, k \in DOMAIN frames[c] : i < k /\ frames[c][k].scoped => frames[c][i].scoped
    /\ \A i \in DOMAIN frames[c] : i + 1 \in DOMAIN frames[c] =>
        IF IsScoped(Under(frames[c][i]))
        THEN frames[c][i].scoped /\ frames[c][i + 1].token = Under(frames[c][i])
        ELSE ~frames[c][i + 1].scoped

\* So is what is being resolved or has been built for the frame on top.
AskInv(c) ==
    frames[c] # <<>> =>
        /\ call[c].at = "resolve" =>
            IF IsScoped(Under(Top(c)))
            THEN call[c].token = Under(Top(c)) /\ call[c].scoped = Top(c).scoped
            ELSE IsScoped(call[c].token) => ~call[c].scoped
        /\ call[c].at = "built" =>
            IF IsScoped(Under(Top(c))) THEN call[c].token = Under(Top(c)) ELSE ~IsScoped(call[c].token)

\* A scoped instance comes after those of its dependencies.
DoneInv(c) ==
    /\ \A i \in DOMAIN frames[c] : frames[c][i].scoped =>
        \A j \in 1 .. Received(c, i) :
            IsScoped(frames[c][i].provider.deps[j]) => Has(c, frames[c][i].provider.deps[j])
    /\ \A t \in Token : IsScoped(t) /\ Has(c, t) => \A u \in ScopedDeps(t) : Has(c, u)
    /\ call[c].at = "given" /\ frames[c] # <<>> /\ IsScoped(Under(Top(c))) => Has(c, Under(Top(c)))
    /\ call[c].at = "built" /\ IsScoped(call[c].token) => \A u \in ScopedDeps(call[c].token) : Has(c, u)
    /\ \A i, k \in DOMAIN frames[c] :
        i < k /\ frames[c][k].scoped /\ Has(c, frames[c][i].token) => Has(c, frames[c][k].token)

\* What is being made is there for the first time.
FirstInv(c) ==
    /\ \A i \in DOMAIN frames[c] :
        frames[c][i].scoped /\ frames[c][i].token \notin Falsy => ~Has(c, frames[c][i].token)
    /\ call[c].at = "built" /\ IsScoped(call[c].token) /\ call[c].token \notin Falsy =>
        /\ ~Has(c, call[c].token)
        /\ \A i \in DOMAIN frames[c] : frames[c][i].token # call[c].token

ScopeInv(c) == NestInv(c) /\ AskInv(c) /\ DoneInv(c) /\ FirstInv(c)

\* The frames of a caller, as the proofs use them.
LEMMA FrameFacts ==
    ASSUME BaseInv, NEW c \in Caller
    PROVE  /\ Len(frames[c]) \in Nat /\ DOMAIN frames[c] = 1 .. Len(frames[c])
           /\ frames[c] # <<>> <=> Len(frames[c]) > 0
           /\ \A i \in DOMAIN frames[c] :
                /\ frames[c][i] \in Frames /\ frames[c][i].token \in Token
                /\ frames[c][i].provider = Bound(frames[c][i].token)
                /\ frames[c][i].scoped = IsScoped(frames[c][i].token)
                /\ Len(frames[c][i].provider.deps) \in Nat
                /\ DOMAIN frames[c][i].provider.deps = 1 .. Len(frames[c][i].provider.deps)
                /\ frames[c][i].next \in 1 .. Len(frames[c][i].provider.deps) + 1
                /\ frames[c][i].provider.deps \in Seq(Token)
                /\ \A j \in 1 .. Len(frames[c][i].provider.deps) : frames[c][i].provider.deps[j] \in Token
<1>1. frames[c] \in Seq(Frames)
  BY DEF BaseInv, ContainerTypeOK
<1>2. ASSUME NEW i \in DOMAIN frames[c] PROVE IsFrame(frames[c][i]) /\ frames[c][i] \in Frames
  BY <1>1 DEF BaseInv, FramesInv
<1>3. ASSUME NEW i \in DOMAIN frames[c] PROVE frames[c][i].provider.deps \in Seq(Token)
  BY <1>2 DEF Frames, Makers
<1>4. Len(frames[c]) \in Nat /\ DOMAIN frames[c] = 1 .. Len(frames[c]) /\ (frames[c] # <<>> <=> Len(frames[c]) > 0)
  BY <1>1
<1> QED BY <1>2, <1>3, <1>4 DEF IsFrame, Frames

\* Steps that leave the frames and what the caller has received as they are.
LEMMA SameFrames ==
    ASSUME BaseInv, NEW c \in Caller, ScopeInv(c),
           frames'[c] = frames[c], instances'[c] = instances[c], workload' = workload,
           call'[c].at \in {"frame", "factory"} <=> call[c].at \in {"frame", "factory"},
           call'[c].at # "built", AskInv(c)',
           call'[c].at = "given" /\ frames[c] # <<>> /\ IsScoped(Under(Top(c))) => Has(c, Under(Top(c)))
    PROVE  ScopeInv(c)'
<1>1. \A i \in DOMAIN frames[c] : Active(c, i)' <=> Active(c, i)
  BY DEF Active
<1>2. \A x : IsScoped(x)' <=> IsScoped(x)
  BY DEF IsScoped, Bound
<1>3. \A x : ScopedDeps(x)' = ScopedDeps(x)
  BY <1>2 DEF ScopedDeps, Bound
<1>4. \A x : Has(c, x)' <=> Has(c, x)
  BY DEF Has
<1>5. NestInv(c)'
  BY <1>1, <1>2 DEF ScopeInv, NestInv, Under
<1>6. DoneInv(c)'
  <2>1. \A i \in DOMAIN frames[c] : Received(c, i)' = Received(c, i)
    BY <1>1 DEF Received
  <2> QED BY <2>1, <1>2, <1>3, <1>4 DEF ScopeInv, DoneInv, Under, Top
<1>7. FirstInv(c)'
  BY <1>2, <1>4 DEF ScopeInv, FirstInv
<1> QED BY <1>5, <1>6, <1>7 DEF ScopeInv

\* Asking, and the answers that need no frame.
LEMMA AnswersKeepScope ==
    ASSUME BaseInv, NEW c \in Caller, ScopeInv(c),
           \/ \E t \in Token, s \in BOOLEAN : Ask(c, t, s)
           \/ NotFound(c) \/ ResolveValue(c) \/ ResolveExisting(c)
           \/ NoScopedContainer(c) \/ ResolveCached(c)
           \/ Circular(c) \/ ScopeViolation(c) \/ CallFactory(c)
    PROVE  ScopeInv(c)'
<1>1. call \in [Caller -> Calls] /\ call[c] \in Calls
  BY DEF BaseInv, ContainerTypeOK
<1>2. CASE \E t \in Token, s \in BOOLEAN : Ask(c, t, s)
  <2>1. /\ frames'[c] = frames[c] /\ instances'[c] = instances[c] /\ workload' = workload
        /\ call[c].at = "idle" /\ call'[c].at = "resolve"
    BY <1>1, <1>2 DEF Ask, NoCall
  <2>2. frames[c] = <<>>
    BY <2>1 DEF BaseInv, FramesInv
  <2> QED BY <2>1, <2>2, SameFrames DEF AskInv
<1>3. CASE NotFound(c) \/ NoScopedContainer(c) \/ Circular(c) \/ ScopeViolation(c)
  <2>1. /\ frames'[c] = frames[c] /\ instances'[c] = instances[c] /\ workload' = workload
        /\ call[c].at = "resolve" /\ call'[c].at = "thrown"
    <3>1. ASSUME NEW e, Throw(c, e) PROVE call'[c].at = "thrown"
      BY <1>1, <3>1 DEF Throw, Calls
    <3> QED BY <1>3, <3>1 DEF NotFound, NoScopedContainer, Circular, ScopeViolation, Reaches, Resolves, history
  <2> QED BY <2>1, SameFrames DEF AskInv
<1>4. CASE CallFactory(c)
  <2>1. /\ frames'[c] = frames[c] /\ instances'[c] = instances[c] /\ workload' = workload
        /\ call[c].at = "frame" /\ call'[c].at = "factory"
    BY <1>1, <1>4 DEF CallFactory, history
  <2> QED BY <2>1, SameFrames DEF AskInv
<1>5. ASSUME frames[c] # <<>>, call[c].at = "resolve", IsScoped(Under(Top(c)))
      PROVE  /\ call[c].token = Under(Top(c)) /\ Asked(c) = Bound(Under(Top(c))) /\ IsMaker(Asked(c))
             /\ Asked(c).scope = "scoped"
  <2>1. call[c].token = Under(Top(c)) /\ call[c].token \in Token
    BY <1>5 DEF ScopeInv, AskInv, BaseInv, ContainerTypeOK
  <2>2. call[c].token \notin singletons
    BY <1>5, <2>1 DEF BaseInv, BindingInv, IsSingleton, IsScoped
  <2> QED BY <1>5, <2>1, <2>2 DEF BaseInv, BindingInv, Asked, IsScoped
<1>6. CASE ResolveValue(c)
  <2>1. /\ frames'[c] = frames[c] /\ instances'[c] = instances[c] /\ workload' = workload
        /\ call[c].at = "resolve" /\ call'[c].at = "given" /\ Asked(c).kind = "value"
    BY <1>1, <1>6 DEF ResolveValue, Resolves, Give, history
  <2>2. ~(frames[c] # <<>> /\ IsScoped(Under(Top(c))))
    BY <1>5, <2>1 DEF IsMaker
  <2> QED BY <2>1, <2>2, SameFrames DEF AskInv
<1>7. CASE ResolveCached(c)
  <2>1. /\ frames'[c] = frames[c] /\ instances'[c] = instances[c] /\ workload' = workload
        /\ call[c].at = "resolve" /\ call'[c].at = "given" /\ Has(c, call[c].token)
    BY <1>1, <1>7 DEF ResolveCached, Cached, Resolves, Give, Has, history
  <2> QED BY <1>5, <2>1, SameFrames DEF AskInv
<1>8. CASE ResolveExisting(c)
  <2>1. /\ frames'[c] = frames[c] /\ instances'[c] = instances[c] /\ workload' = workload
        /\ call[c].at = "resolve" /\ call'[c].at = "resolve" /\ Asked(c).kind = "existing"
        /\ call'[c].scoped = FALSE
    BY <1>1, <1>8 DEF ResolveExisting, Resolves, history, Calls
  <2>2. ~(frames[c] # <<>> /\ IsScoped(Under(Top(c))))
    BY <1>5, <2>1 DEF IsMaker
  <2>3. AskInv(c)'
    BY <2>1, <2>2 DEF AskInv, Under, Top, IsScoped, Bound
  <2> QED BY <2>1, <2>3, SameFrames
<1> QED BY <1>2, <1>3, <1>4, <1>6, <1>7, <1>8

\* A frame on top of the others: the token is not there, or is falsy.
LEMMA EnterKeepsScope ==
    ASSUME BaseInv, NEW c \in Caller, ScopeInv(c), Enter(c)
    PROVE  ScopeInv(c)'
<1> DEFINE s == frames[c]
           n == Len(s)
           t == call[c].token
           f == [token |-> t, provider |-> Asked(c), next |-> 1, scoped |-> PassesContainer(Asked(c))]
<1>1. /\ call[c].at = "resolve" /\ t \in Token /\ Asked(c) = Bound(t) /\ IsMaker(Bound(t))
      /\ ~NeedsContainer(c) /\ ~Cached(c)
  BY BoundProviders DEF Enter, Reaches, Resolves, Asked, BaseInv, ContainerTypeOK
<1>2. f.scoped = IsScoped(t) /\ f.token = t /\ f.next = 1 /\ f \in Frames
  <2>1. Bound(t) \in Makers
    BY <1>1, BoundProviders, TokensOfMakers
  <2> QED BY <1>1, <2>1 DEF PassesContainer, IsScoped, Frames
<1> HIDE DEF f
<1>3. /\ frames'[c] = Append(s, f) /\ call'[c].at = "frame"
      /\ instances'[c] = instances[c] /\ workload' = workload
  BY DEF Enter, history, f, BaseInv, ContainerTypeOK
<1>4. /\ n \in Nat /\ Len(frames'[c]) = n + 1 /\ DOMAIN frames'[c] = 1 .. n + 1
      /\ frames'[c][n + 1] = f /\ \A i \in 1 .. n : frames'[c][i] = s[i]
      /\ DOMAIN s = 1 .. n
  <2>1. s \in Seq(Frames)
    BY DEF BaseInv, ContainerTypeOK
  <2> QED BY <1>2, <1>3, <2>1, Appending
<1>5. /\ \A i : i = n + 1 => Active(c, i)' /\ Received(c, i)' = 0
      /\ \A i \in 1 .. n : ~Active(c, i)' /\ ~Active(c, i) /\ Received(c, i)' = Received(c, i)
  <2>1. ASSUME NEW i, i = n + 1 PROVE Active(c, i)' /\ Received(c, i)' = 0
    BY <1>2, <1>3, <1>4, <2>1 DEF Active, Received
  <2>2. ASSUME NEW i \in 1 .. n PROVE ~Active(c, i)' /\ ~Active(c, i)
    BY <1>1, <1>3, <1>4 DEF Active
  <2>3. ASSUME NEW i \in 1 .. n PROVE Received(c, i)' = Received(c, i)
    BY <1>4, <2>2 DEF Received
  <2> QED BY <2>1, <2>2, <2>3
<1>6. (\A x : IsScoped(x)' <=> IsScoped(x)) /\ (\A x : Has(c, x)' <=> Has(c, x))
      /\ (\A x : ScopedDeps(x)' = ScopedDeps(x))
  BY <1>3 DEF IsScoped, Bound, Has, ScopedDeps
<1>7. f.scoped => call[c].scoped /\ (t \notin Falsy => ~Has(c, t))
  BY <1>1, <1>2 DEF NeedsContainer, Cached, IsScoped, Has, BaseInv, ContainerTypeOK, Calls
<1>8. n > 0 => s # <<>> /\ Top(c) = s[n] /\ n \in DOMAIN s
  BY <1>4, FrameFacts DEF Top
<1>9. n > 0 => IF IsScoped(Under(s[n])) THEN (f.scoped /\ s[n].scoped /\ f.token = Under(s[n])) ELSE ~f.scoped
  <2>1. n > 0 /\ IsScoped(Under(s[n])) => t = Under(s[n]) /\ call[c].scoped = s[n].scoped
    BY <1>1, <1>8 DEF ScopeInv, AskInv
  <2>2. n > 0 /\ ~IsScoped(Under(s[n])) => (IsScoped(t) => ~call[c].scoped)
    BY <1>1, <1>8 DEF ScopeInv, AskInv
  <2> QED BY <1>2, <1>7, <2>1, <2>2
<1>10. n > 0 /\ f.scoped => s[n].scoped /\ t = Under(s[n])
  BY <1>2, <1>9
<1>11. /\ \A i \in 1 .. n : s[i].next > 1
       /\ \A i, k \in 1 .. n : i < k /\ s[k].scoped => s[i].scoped
       /\ \A i \in 1 .. n : i + 1 \in 1 .. n =>
            IF IsScoped(Under(s[i])) THEN s[i].scoped /\ s[i + 1].token = Under(s[i]) ELSE ~s[i + 1].scoped
       /\ \A i \in 1 .. n : s[i].scoped =>
            \A j \in 1 .. Received(c, i) : IsScoped(s[i].provider.deps[j]) => Has(c, s[i].provider.deps[j])
       /\ \A i, k \in 1 .. n : i < k /\ s[k].scoped /\ Has(c, s[i].token) => Has(c, s[k].token)
       /\ \A i \in 1 .. n : s[i].scoped /\ s[i].token \notin Falsy => ~Has(c, s[i].token)
  BY <1>4, <1>5 DEF ScopeInv, NestInv, DoneInv, FirstInv
<1> DEFINE r == frames'[c]
<1>12. /\ DOMAIN r = 1 .. n + 1 /\ r[n + 1] = f /\ \A i \in 1 .. n : r[i] = s[i]
       /\ n \in Nat
  BY <1>4
<1>13. \A i \in 1 .. n + 1 : i = n + 1 \/ i \in 1 .. n
  BY <1>4
<1>14. NestInv(c)'
  <2> HIDE DEF r, s, n
  <2>1. \A i \in 1 .. n + 1 : ~Active(c, i)' => r[i].next > 1
    BY <1>5, <1>11, <1>12, <1>13
  <2>2. ASSUME NEW i \in 1 .. n + 1, NEW k \in 1 .. n + 1, i < k, r[k].scoped
        PROVE  r[i].scoped
    <3>1. CASE k = n + 1
      <4>1. i \in 1 .. n /\ n > 0
        BY <1>12, <2>2, <3>1
      <4>2. s[n].scoped /\ n \in 1 .. n
        BY <1>10, <1>12, <2>2, <3>1, <4>1
      <4> QED BY <1>11, <1>12, <4>1, <4>2
    <3>2. CASE k \in 1 .. n
      <4>1. i \in 1 .. n
        BY <1>12, <2>2, <3>2
      <4> QED BY <1>11, <1>12, <2>2, <3>2, <4>1
    <3> QED BY <1>13, <3>1, <3>2
  <2>3. ASSUME NEW i \in 1 .. n
        PROVE  IF IsScoped(Under(r[i])) THEN r[i].scoped /\ r[i + 1].token = Under(r[i])
               ELSE ~r[i + 1].scoped
    <3>1. CASE i = n
      BY <1>9, <1>12, <3>1
    <3>2. CASE i # n
      <4>1. i + 1 \in 1 .. n
        BY <1>12, <3>2
      <4> QED BY <1>11, <1>12, <4>1
    <3> QED BY <3>1, <3>2
  <2>4. \A i \in 1 .. n + 1 : i + 1 \in 1 .. n + 1 => i \in 1 .. n
    BY <1>12
  <2>5. \A x : Under(x)' = Under(x)
    BY DEF Under
  <2>6. r = frames'[c]
    BY DEF r
  <2> QED BY <1>6, <1>12, <2>1, <2>2, <2>3, <2>4, <2>6 DEF NestInv, Under
<1>15. AskInv(c)'
  BY <1>3 DEF AskInv
<1>16. DoneInv(c)'
  <2>1. ASSUME NEW i \in 1 .. n + 1, r[i].scoped, NEW j \in 1 .. Received(c, i)',
               IsScoped(r[i].provider.deps[j])
        PROVE  Has(c, r[i].provider.deps[j])
    <3> HIDE DEF r, s, n
    <3> QED BY <1>5, <1>11, <1>12, <1>13, <2>1
  <2>2. ASSUME NEW i \in 1 .. n + 1, NEW k \in 1 .. n + 1, i < k, r[k].scoped, Has(c, r[i].token)
        PROVE  Has(c, r[k].token)
    <3>1. CASE k \in 1 .. n
      <4> HIDE DEF r, s, n
      <4>1. i \in 1 .. n
        BY <1>12, <2>2, <3>1
      <4> QED BY <1>11, <1>12, <2>2, <3>1, <4>1
    <3>2. CASE k = n + 1
      <4>1. i \in 1 .. n /\ n \in 1 .. n /\ n > 0
        BY <1>4, <2>2, <3>2
      <4>2. s[n].scoped /\ t = Under(s[n]) /\ IsScoped(t) /\ IsScoped(s[n].token)
        BY <1>2, <1>4, <1>10, <2>2, <3>2, <4>1, FrameFacts
      <4>3. Has(c, s[i].token)
        BY <1>4, <2>2, <4>1
      <4>4. Has(c, s[n].token)
        BY <1>11, <4>1, <4>2, <4>3
      <4>5. s[n].next - 1 \in DOMAIN Bound(s[n].token).deps /\ s[n].provider = Bound(s[n].token)
            /\ s[n].token \in Token
        <5>1. /\ s[n].next \in 1 .. Len(s[n].provider.deps) + 1 /\ Len(s[n].provider.deps) \in Nat
              /\ s[n].provider = Bound(s[n].token) /\ s[n].token \in Token
              /\ DOMAIN s[n].provider.deps = 1 .. Len(s[n].provider.deps)
          BY <1>4, <4>1, FrameFacts
        <5>2. s[n].next > 1
          BY <1>11, <4>1
        <5>3. s[n].next - 1 \in 1 .. Len(s[n].provider.deps)
          BY <5>1, <5>2
        <5> QED BY <5>1, <5>3
      <4>6. t \in ScopedDeps(s[n].token)
        BY <1>1, <4>2, <4>5 DEF ScopedDeps, Under
      <4> QED BY <1>2, <1>4, <3>2, <4>2, <4>4, <4>5, <4>6 DEF ScopeInv, DoneInv
    <3> QED BY <1>13, <3>1, <3>2
  <2>3. \A x \in Token : IsScoped(x) /\ Has(c, x) => \A u \in ScopedDeps(x) : Has(c, u)
    BY DEF ScopeInv, DoneInv
  <2> QED BY <1>3, <1>4, <1>6, <2>1, <2>2, <2>3 DEF DoneInv
<1>17. FirstInv(c)'
  <2>1. \A i \in 1 .. n + 1 : r[i].scoped /\ r[i].token \notin Falsy => ~Has(c, r[i].token)
    <3> HIDE DEF r, s, n
    <3> QED BY <1>2, <1>7, <1>11, <1>12, <1>13
  <2> QED BY <1>3, <1>4, <1>6, <2>1 DEF FirstInv
<1> QED BY <1>14, <1>15, <1>16, <1>17 DEF ScopeInv

\* Asking for the next dependency: it is what the frame on top waits for.
LEMMA DependKeepsScope ==
    ASSUME BaseInv, NEW c \in Caller, ScopeInv(c), Depend(c)
    PROVE  ScopeInv(c)'
<1> DEFINE s == frames[c]
           r == frames'[c]
<1>1. PICK n \in Nat : n = Len(s)
  BY FrameFacts
<1>2. /\ n > 0 /\ DOMAIN s = 1 .. n /\ n \in DOMAIN s /\ Top(c) = s[n] /\ s[n] \in Frames
      /\ s[n].next \in Nat /\ s[n].next > 0 /\ s \in Seq(Frames)
      /\ call[c].at = "frame" /\ call \in [Caller -> Calls] /\ call[c] \in Calls
  <2>1. s # <<>> /\ call[c].at = "frame" /\ call \in [Caller -> Calls] /\ call[c] \in Calls /\ s \in Seq(Frames)
    BY DEF Depend, BaseInv, FramesInv, ContainerTypeOK
  <2>2. n > 0 /\ DOMAIN s = 1 .. n /\ n \in DOMAIN s
    BY <1>1, <2>1, FrameFacts
  <2>3. s[n] \in Frames /\ s[n].next \in Nat /\ s[n].next > 0
    BY <2>1, <2>2, FrameFacts
  <2> QED BY <1>1, <2>1, <2>2, <2>3 DEF Top
<1>3. /\ DOMAIN r = 1 .. n /\ Len(r) = n /\ r[n] = [s[n] EXCEPT !.next = @ + 1]
      /\ \A i \in 1 .. n : i # n => r[i] = s[i]
      /\ instances'[c] = instances[c] /\ workload' = workload
  <2>1. frames' = [frames EXCEPT ![c] = [s EXCEPT ![n] = [s[n] EXCEPT !.next = @ + 1]]]
        /\ instances' = instances /\ workload' = workload
    BY <1>1 DEF Depend, history
  <2>2. r = [s EXCEPT ![n] = [s[n] EXCEPT !.next = @ + 1]]
    BY <2>1 DEF BaseInv, ContainerTypeOK
  <2>3. [s[n] EXCEPT !.next = @ + 1] \in Frames
    BY <1>2 DEF Frames
  <2> QED BY <1>1, <1>2, <2>1, <2>2, <2>3
<1>4. /\ r[n].next = s[n].next + 1
      /\ \A i \in 1 .. n : r[i].token = s[i].token /\ r[i].provider = s[i].provider /\ r[i].scoped = s[i].scoped
  <2>1. /\ r[n].next = s[n].next + 1 /\ r[n].token = s[n].token /\ r[n].provider = s[n].provider
        /\ r[n].scoped = s[n].scoped
    BY <1>2, <1>3 DEF Frames
  <2> QED BY <1>3, <2>1
<1>5. /\ call'[c].at = "resolve" /\ call'[c].scoped = s[n].scoped
      /\ call'[c].token = s[n].provider.deps[s[n].next]
  BY <1>2 DEF Depend, Calls
<1>6. (\A x : IsScoped(x)' <=> IsScoped(x)) /\ (\A x : Has(c, x)' <=> Has(c, x))
      /\ (\A x : ScopedDeps(x)' = ScopedDeps(x)) /\ \A x : Under(x)' = Under(x)
  BY <1>3 DEF IsScoped, Bound, Has, ScopedDeps, Under
<1>7. \A i \in 1 .. n : ~Active(c, i)' /\ (Active(c, i) <=> i = n)
  BY <1>1, <1>2, <1>3, <1>5 DEF Active
<1>8. ASSUME NEW i \in 1 .. n PROVE Received(c, i)' = Received(c, i)
  <2>1. CASE i = n
    <3>1. Received(c, i) = s[n].next - 1 /\ Received(c, i)' = (s[n].next + 1) - 2
      BY <1>4, <1>7, <2>1 DEF Received
    <3> QED BY <1>2, <3>1
  <2>2. CASE i # n
    BY <1>3, <1>7, <2>2 DEF Received
  <2> QED BY <2>1, <2>2
<1>9. Under(r[n]) = call'[c].token /\ \A i \in 1 .. n : i # n => Under(r[i]) = Under(s[i])
  BY <1>2, <1>3, <1>4, <1>5 DEF Under
<1>10. NestInv(c)'
  <2>1. ASSUME NEW i \in 1 .. n PROVE r[i].next > 1
    <3>1. CASE i = n
      BY <1>2, <1>4, <3>1
    <3>2. CASE i # n
      BY <1>2, <1>3, <1>7, <3>2 DEF ScopeInv, NestInv
    <3> QED BY <3>1, <3>2
  <2>2. \A i, k \in 1 .. n : i < k /\ r[k].scoped => r[i].scoped
    BY <1>2, <1>4 DEF ScopeInv, NestInv
  <2>3. ASSUME NEW i \in 1 .. n, i + 1 \in 1 .. n
        PROVE  IF IsScoped(Under(r[i])) THEN r[i].scoped /\ r[i + 1].token = Under(r[i]) ELSE ~r[i + 1].scoped
    <3>1. i # n
      BY <2>3
    <3> QED BY <1>2, <1>4, <1>9, <2>3, <3>1 DEF ScopeInv, NestInv
  <2> QED BY <1>3, <1>6, <2>1, <2>2, <2>3 DEF NestInv
<1>11. AskInv(c)'
  <2>1. Top(c)' = r[n]
    BY <1>3 DEF Top
  <2> QED BY <1>2, <1>4, <1>5, <1>6, <1>9, <2>1 DEF AskInv
<1>12. DoneInv(c)'
  <2>1. \A i \in 1 .. n : r[i].scoped => \A j \in 1 .. Received(c, i) :
            IsScoped(r[i].provider.deps[j]) => Has(c, r[i].provider.deps[j])
    BY <1>2, <1>4 DEF ScopeInv, DoneInv
  <2>2. \A i, k \in 1 .. n : i < k /\ r[k].scoped /\ Has(c, r[i].token) => Has(c, r[k].token)
    BY <1>2, <1>4 DEF ScopeInv, DoneInv
  <2>3. \A x \in Token : IsScoped(x) /\ Has(c, x) => \A u \in ScopedDeps(x) : Has(c, u)
    BY DEF ScopeInv, DoneInv
  <2> QED BY <1>3, <1>5, <1>6, <1>8, <2>1, <2>2, <2>3 DEF DoneInv
<1>13. FirstInv(c)'
  <2>1. \A i \in 1 .. n : r[i].scoped /\ r[i].token \notin Falsy => ~Has(c, r[i].token)
    BY <1>2, <1>4 DEF ScopeInv, FirstInv
  <2> QED BY <1>3, <1>5, <1>6, <2>1 DEF FirstInv
<1> QED BY <1>10, <1>11, <1>12, <1>13 DEF ScopeInv

\* Below a scoped frame, each frame is resolved for the one under it.
LEMMA ScopedChain ==
    ASSUME BaseInv, NEW c \in Caller, ScopeInv(c),
           NEW i \in DOMAIN frames[c], NEW k \in DOMAIN frames[c], i < k, frames[c][k].scoped
    PROVE  /\ i + 1 \in DOMAIN frames[c] /\ frames[c][i + 1].scoped
           /\ frames[c][i + 1].token \in ScopedDeps(frames[c][i].token)
           /\ Has(c, frames[c][i + 1].token) => Has(c, frames[c][k].token)
<1> DEFINE s == frames[c]
<1>1. PICK n \in Nat : n = Len(s) /\ DOMAIN s = 1 .. n
  BY FrameFacts
<1>2. i + 1 \in 1 .. n /\ (i + 1 < k \/ i + 1 = k) /\ k \in 1 .. n /\ i # n
  BY <1>1
<1>3. s[i + 1].scoped /\ (Has(c, s[i + 1].token) => Has(c, s[k].token))
  BY <1>1, <1>2 DEF ScopeInv, NestInv, DoneInv
<1>4. IsScoped(Under(s[i])) /\ s[i + 1].token = Under(s[i])
  BY <1>1, <1>2, <1>3 DEF ScopeInv, NestInv
<1>5. s[i].next > 1
  BY <1>1, <1>2 DEF ScopeInv, NestInv, Active
<1>6. /\ s[i].next \in 1 .. Len(s[i].provider.deps) + 1 /\ Len(s[i].provider.deps) \in Nat
      /\ DOMAIN s[i].provider.deps = 1 .. Len(s[i].provider.deps) /\ s[i].provider = Bound(s[i].token)
      /\ s[i + 1].token \in Token
  BY <1>1, <1>2, FrameFacts
<1>7. s[i].next - 1 \in DOMAIN Bound(s[i].token).deps
  BY <1>5, <1>6
<1> QED BY <1>1, <1>2, <1>3, <1>4, <1>6, <1>7 DEF ScopedDeps, Under

\* A frame is popped: after an error, or because its instance was made.
LEMMA PopKeepsScope ==
    ASSUME BaseInv, NEW c \in Caller, ScopeInv(c), frames[c] # <<>>,
           frames'[c] = Pop(frames[c]), instances'[c] = instances[c], workload' = workload,
           \/ call'[c].at = "thrown"
           \/ /\ call'[c].at = "built" /\ call'[c].token = Top(c).token
              /\ call[c].at \in {"frame", "factory"} /\ Top(c).next > Len(Top(c).provider.deps)
    PROVE  ScopeInv(c)'
<1> DEFINE s == frames[c]
           r == frames'[c]
<1>1. PICK n \in Nat : n = Len(s)
  BY FrameFacts
<1>2. n > 0 /\ DOMAIN s = 1 .. n /\ Top(c) = s[n] /\ s \in Seq(Frames)
  BY <1>1, FrameFacts DEF Top, BaseInv, ContainerTypeOK
<1>3. /\ DOMAIN r = 1 .. n - 1 /\ Len(r) = n - 1 /\ \A i \in 1 .. n - 1 : r[i] = s[i]
  <2>1. Len(r) = n - 1 /\ r \in Seq(Frames) /\ \A i \in 1 .. n - 1 : r[i] = s[i]
    BY <1>1, <1>2, Popping
  <2> QED BY <1>2, <2>1
<1>4. \A i \in 1 .. n - 1 : i \in DOMAIN s /\ i # n
  BY <1>2
<1>5. (\A x : IsScoped(x)' <=> IsScoped(x)) /\ (\A x : Has(c, x)' <=> Has(c, x))
      /\ (\A x : ScopedDeps(x)' = ScopedDeps(x)) /\ \A x : Under(x)' = Under(x)
  BY DEF IsScoped, Bound, Has, ScopedDeps, Under
<1>6. \A i \in 1 .. n - 1 : ~Active(c, i)' /\ ~Active(c, i)
  BY <1>1, <1>4 DEF Active
<1>7. \A i \in 1 .. n - 1 : Received(c, i)' = Received(c, i)
  BY <1>3, <1>6 DEF Received
<1>8. NestInv(c)'
  <2>1. \A i \in 1 .. n - 1 : r[i].next > 1
    BY <1>2, <1>3, <1>4, <1>6 DEF ScopeInv, NestInv
  <2>2. \A i, k \in 1 .. n - 1 : i < k /\ r[k].scoped => r[i].scoped
    BY <1>2, <1>3, <1>4 DEF ScopeInv, NestInv
  <2>3. ASSUME NEW i \in 1 .. n - 1, i + 1 \in 1 .. n - 1
        PROVE  IF IsScoped(Under(r[i])) THEN r[i].scoped /\ r[i + 1].token = Under(r[i]) ELSE ~r[i + 1].scoped
    BY <1>2, <1>3, <1>4, <2>3 DEF ScopeInv, NestInv
  <2> QED BY <1>3, <1>5, <2>1, <2>2, <2>3 DEF NestInv
<1>9. AskInv(c)'
  <2>1. CASE r # <<>> /\ call'[c].at = "built"
    <3>1. n - 1 \in 1 .. n - 1 /\ n - 1 + 1 = n /\ n - 1 \in Nat
      BY <1>2, <1>3, <2>1
    <3>2. Top(c)' = s[n - 1]
      <4>1. r[n - 1] = s[n - 1]
        BY <1>3, <3>1
      <4>2. Top(c)' = r[Len(r)]
        BY DEF Top
      <4> QED BY <1>3, <4>1, <4>2
    <3>3. IF IsScoped(Under(s[n - 1])) THEN s[n].token = Under(s[n - 1]) ELSE ~s[n].scoped
      <4>1. PICK m \in 1 .. n : m = n - 1 /\ m + 1 = n /\ m + 1 \in 1 .. n
        BY <1>2, <3>1
      <4>2. IF IsScoped(Under(s[m])) THEN s[m + 1].token = Under(s[m]) ELSE ~s[m + 1].scoped
        BY <1>2, <4>1 DEF ScopeInv, NestInv
      <4> QED BY <4>1, <4>2
    <3>4. s[n].scoped = IsScoped(s[n].token)
      BY <1>2, FrameFacts
    <3> QED BY <1>2, <1>5, <2>1, <3>2, <3>3, <3>4 DEF AskInv
  <2>2. CASE ~(r # <<>> /\ call'[c].at = "built")
    BY <2>2 DEF AskInv
  <2> QED BY <2>1, <2>2
<1>10. ASSUME call'[c].at = "built", IsScoped(s[n].token), NEW u \in ScopedDeps(s[n].token)
       PROVE  Has(c, u)
  <2>1. s[n].provider = Bound(s[n].token) /\ s[n].next \in Nat /\ Len(s[n].provider.deps) \in Nat
        /\ DOMAIN s[n].provider.deps = 1 .. Len(s[n].provider.deps) /\ n \in DOMAIN s /\ s[n].scoped
        /\ s[n].next \in 1 .. Len(s[n].provider.deps) + 1
    BY <1>2, <1>10, FrameFacts
  <2>2. Received(c, n) = Len(s[n].provider.deps)
    BY <1>1, <1>2, <1>10, <2>1 DEF Received, Active
  <2>3. PICK j \in DOMAIN s[n].provider.deps : s[n].provider.deps[j] = u /\ IsScoped(u)
    BY <1>10, <2>1 DEF ScopedDeps
  <2> QED BY <2>1, <2>2, <2>3 DEF ScopeInv, DoneInv
<1>11. DoneInv(c)'
  <2>1. ASSUME NEW i \in 1 .. n - 1, r[i].scoped, NEW j \in 1 .. Received(c, i)',
               IsScoped(r[i].provider.deps[j])
        PROVE  Has(c, r[i].provider.deps[j])
    BY <1>3, <1>4, <1>7, <2>1 DEF ScopeInv, DoneInv
  <2>2. \A i, k \in 1 .. n - 1 : i < k /\ r[k].scoped /\ Has(c, r[i].token) => Has(c, r[k].token)
    BY <1>2, <1>3, <1>4 DEF ScopeInv, DoneInv
  <2>3. \A x \in Token : IsScoped(x) /\ Has(c, x) => \A u \in ScopedDeps(x) : Has(c, u)
    BY DEF ScopeInv, DoneInv
  <2>4. call'[c].at = "built" => call'[c].token = s[n].token
    BY <1>2
  <2> QED BY <1>3, <1>5, <1>10, <2>1, <2>2, <2>3, <2>4 DEF DoneInv
<1>12. FirstInv(c)'
  <2>1. \A i \in 1 .. n - 1 : r[i].scoped /\ r[i].token \notin Falsy => ~Has(c, r[i].token)
    BY <1>2, <1>3, <1>4 DEF ScopeInv, FirstInv
  <2>2. ASSUME call'[c].at = "built", IsScoped(s[n].token), s[n].token \notin Falsy
        PROVE  /\ ~Has(c, s[n].token)
               /\ \A i \in 1 .. n - 1 : s[i].token # s[n].token
    <3>1. s[n].scoped /\ n \in DOMAIN s
      BY <1>2, <2>2, FrameFacts
    <3>2. ~Has(c, s[n].token)
      BY <2>2, <3>1 DEF ScopeInv, FirstInv
    <3>3. ASSUME NEW i \in 1 .. n - 1, s[i].token = s[n].token PROVE FALSE
      <4>1. i \in DOMAIN s /\ i < n
        BY <1>2, <1>4, <3>3
      <4>2. s[i + 1].token \in ScopedDeps(s[n].token) /\ (Has(c, s[i + 1].token) => Has(c, s[n].token))
        BY <3>1, <3>3, <4>1, ScopedChain
      <4> QED BY <1>10, <2>2, <3>2, <4>2
    <3> QED BY <3>2, <3>3
  <2>3. call'[c].at = "built" => call'[c].token = s[n].token
    BY <1>2
  <2> QED BY <1>3, <1>5, <2>1, <2>2, <2>3 DEF FirstInv
<1> QED BY <1>8, <1>9, <1>11, <1>12 DEF ScopeInv

\* The value is kept, and given.
LEMMA StoreKeepsScope ==
    ASSUME BaseInv, NEW c \in Caller, ScopeInv(c), Store(c)
    PROVE  ScopeInv(c)'
<1> DEFINE s == frames[c]
           t == call[c].token
<1>1. /\ call[c].at = "built" /\ t \in Token /\ IsMaker(Bound(t)) /\ call[c].scope = Bound(t).scope
      /\ call[c].no # 0 /\ call \in [Caller -> Calls] /\ call[c] \in Calls
  BY DEF Store, BaseInv, FramesInv, ContainerTypeOK
<1>2. frames'[c] = s /\ call'[c].at = "given" /\ workload' = workload
  BY <1>1 DEF Store, Give, history, Calls
<1>3. \A x \in Token : Has(c, x)' <=> Has(c, x) \/ (IsScoped(t) /\ x = t)
  BY <1>1 DEF Store, Has, IsScoped, BaseInv, ContainerTypeOK
<1>4. (\A x : IsScoped(x)' <=> IsScoped(x)) /\ (\A x : ScopedDeps(x)' = ScopedDeps(x))
      /\ (\A x : Under(x)' = Under(x)) /\ \A x : ScopedDeps(x) \subseteq Token
  BY <1>2 DEF IsScoped, Bound, ScopedDeps, Under
<1>5. \A i \in DOMAIN s : ~Active(c, i)' /\ ~Active(c, i) /\ Received(c, i)' = Received(c, i)
  BY <1>1, <1>2 DEF Active, Received
<1>6. NestInv(c)' /\ AskInv(c)'
  BY <1>2, <1>4, <1>5 DEF ScopeInv, NestInv, AskInv
<1>7. DoneInv(c)'
  <2>1. ASSUME NEW i \in DOMAIN s, s[i].scoped, NEW j \in 1 .. Received(c, i),
               IsScoped(s[i].provider.deps[j])
        PROVE  Has(c, s[i].provider.deps[j])'
    <3>1. Has(c, s[i].provider.deps[j])
      BY <2>1 DEF ScopeInv, DoneInv
    <3>2. s[i].provider.deps[j] \in Token
      <4>1. s[i].next \in 1 .. Len(s[i].provider.deps) + 1 /\ Len(s[i].provider.deps) \in Nat
            /\ \A k \in 1 .. Len(s[i].provider.deps) : s[i].provider.deps[k] \in Token
        BY FrameFacts
      <4>2. Received(c, i) = s[i].next - 2
        BY <1>5 DEF Received
      <4> QED BY <2>1, <4>1, <4>2
    <3> QED BY <1>2, <1>3, <3>1, <3>2 DEF Has
  <2>2. ASSUME NEW i \in DOMAIN s, NEW k \in DOMAIN s, i < k, s[k].scoped, Has(c, s[i].token)'
        PROVE  Has(c, s[k].token)'
    <3>1. s[i].token \in Token /\ s[k].token \in Token
      BY FrameFacts
    <3>2. CASE Has(c, s[i].token)
      <4>1. Has(c, s[k].token)
        BY <2>2, <3>2 DEF ScopeInv, DoneInv
      <4> QED BY <1>2, <1>3, <3>1, <4>1 DEF Has
    <3>3. CASE ~Has(c, s[i].token)
      <4>1. s[i].token = t /\ IsScoped(t)
        BY <1>2, <1>3, <2>2, <3>1, <3>3 DEF Has
      <4>2. s[i + 1].token \in ScopedDeps(t) /\ (Has(c, s[i + 1].token) => Has(c, s[k].token))
        BY <2>2, <4>1, ScopedChain
      <4>3. Has(c, s[i + 1].token)
        BY <1>1, <4>1, <4>2 DEF ScopeInv, DoneInv
      <4> QED BY <1>2, <1>3, <3>1, <4>2, <4>3 DEF Has
    <3> QED BY <3>2, <3>3
  <2>3. ASSUME NEW x \in Token, IsScoped(x), Has(c, x)', NEW u \in ScopedDeps(x)
        PROVE  Has(c, u)'
    <3>1. Has(c, u)
      BY <1>1, <1>3, <2>3 DEF ScopeInv, DoneInv
    <3> QED BY <1>3, <1>4, <3>1
  <2>4. ASSUME s # <<>>, IsScoped(Under(Top(c))) PROVE Has(c, Under(Top(c)))'
    <3>1. t = Under(Top(c))
      BY <1>1, <2>4 DEF ScopeInv, AskInv
    <3> QED BY <1>1, <1>2, <1>3, <2>4, <3>1 DEF Has, Under, Top
  <2>5. Top(c)' = Top(c)
    BY <1>2 DEF Top
  <2> QED BY <1>2, <1>4, <1>5, <2>1, <2>2, <2>3, <2>4, <2>5 DEF DoneInv
<1>8. FirstInv(c)'
  <2>1. ASSUME NEW i \in DOMAIN s, s[i].scoped, s[i].token \notin Falsy
        PROVE  ~Has(c, s[i].token)'
    <3>1. ~Has(c, s[i].token) /\ s[i].token \in Token
      BY <2>1, FrameFacts DEF ScopeInv, FirstInv
    <3>2. ~(IsScoped(t) /\ s[i].token = t)
      BY <1>1, <2>1 DEF ScopeInv, FirstInv
    <3> QED BY <1>2, <1>3, <3>1, <3>2 DEF Has
  <2> QED BY <1>2, <1>4, <2>1 DEF FirstInv
<1> QED BY <1>6, <1>7, <1>8 DEF ScopeInv

\* The frame on top goes on with the value it waited for.
LEMMA ReceiveKeepsScope ==
    ASSUME BaseInv, NEW c \in Caller, ScopeInv(c), Receive(c)
    PROVE  ScopeInv(c)'
<1> DEFINE s == frames[c]
<1>1. /\ call[c].at = "given" /\ call \in [Caller -> Calls] /\ call[c] \in Calls
      /\ frames'[c] = s /\ workload' = workload /\ instances'[c] = instances[c]
  BY DEF Receive, history, BaseInv, ContainerTypeOK
<1>2. CASE s = <<>>
  <2>1. call'[c].at = "idle"
    BY <1>1, <1>2 DEF Receive, Calls
  <2> QED BY <1>1, <1>2, <2>1, SameFrames DEF AskInv
<1>3. CASE s # <<>>
  <2>1. call'[c].at = "frame"
    BY <1>1, <1>3 DEF Receive, Calls
  <2>2. PICK n \in Nat : n = Len(s)
    BY FrameFacts
  <2>3. n > 0 /\ DOMAIN s = 1 .. n /\ Top(c) = s[n] /\ n \in DOMAIN s
    BY <1>3, <2>2, FrameFacts DEF Top
  <2>4. (\A x : IsScoped(x)' <=> IsScoped(x)) /\ (\A x : Has(c, x)' <=> Has(c, x))
        /\ (\A x : ScopedDeps(x)' = ScopedDeps(x)) /\ \A x : Under(x)' = Under(x)
    BY <1>1 DEF IsScoped, Bound, Has, ScopedDeps, Under
  <2>5. \A i \in DOMAIN s : ~Active(c, i) /\ (Active(c, i)' <=> i = n)
    BY <1>1, <2>1, <2>2 DEF Active
  <2>6. \A i \in DOMAIN s : IF i = n THEN Received(c, i)' = s[n].next - 1
                                     ELSE Received(c, i)' = Received(c, i)
    BY <1>1, <2>5 DEF Received
  <2>7. NestInv(c)' /\ AskInv(c)'
    BY <1>1, <2>1, <2>4, <2>5 DEF ScopeInv, NestInv, AskInv
  <2>8. DoneInv(c)'
    <3>1. ASSUME NEW i \in DOMAIN s, s[i].scoped, NEW j \in 1 .. Received(c, i)',
                 IsScoped(s[i].provider.deps[j])
          PROVE  Has(c, s[i].provider.deps[j])
      <4>1. CASE i = n /\ j = s[n].next - 1
        <5>1. IsScoped(Under(Top(c))) /\ s[i].provider.deps[j] = Under(Top(c))
          BY <2>3, <3>1, <4>1 DEF Under
        <5> QED BY <1>1, <1>3, <5>1 DEF ScopeInv, DoneInv
      <4>2. CASE ~(i = n /\ j = s[n].next - 1)
        <5>1. j \in 1 .. Received(c, i)
          <6>1. CASE i = n
            <7>1. Received(c, i) = s[n].next - 2 /\ Received(c, i)' = s[n].next - 1
              BY <2>5, <2>6, <6>1 DEF Received
            <7>2. s[n].next \in Nat
              BY <2>3, FrameFacts
            <7> QED BY <3>1, <4>2, <6>1, <7>1, <7>2
          <6>2. CASE i # n
            BY <2>6, <3>1, <6>2
          <6> QED BY <6>1, <6>2
        <5> QED BY <3>1, <5>1 DEF ScopeInv, DoneInv
      <4> QED BY <4>1, <4>2
    <3>2. \A i, k \in DOMAIN s : i < k /\ s[k].scoped /\ Has(c, s[i].token) => Has(c, s[k].token)
      BY DEF ScopeInv, DoneInv
    <3>3. \A x \in Token : IsScoped(x) /\ Has(c, x) => \A u \in ScopedDeps(x) : Has(c, u)
      BY DEF ScopeInv, DoneInv
    <3> QED BY <1>1, <2>1, <2>4, <3>1, <3>2, <3>3 DEF DoneInv
  <2>9. FirstInv(c)'
    BY <1>1, <2>1, <2>4 DEF ScopeInv, FirstInv
  <2> QED BY <2>7, <2>8, <2>9 DEF ScopeInv
<1> QED BY <1>2, <1>3

\* Every step of a caller, and the steps of the others.
LEMMA StepKeepsScope ==
    ASSUME BaseInv, NEW c \in Caller, ScopeInv(c),
           (\E t \in Token, s \in BOOLEAN : Ask(c, t, s)) \/ Progress(c)
    PROVE  ScopeInv(c)'
<1>1. call \in [Caller -> Calls] /\ call[c] \in Calls
  BY DEF BaseInv, ContainerTypeOK
<1>2. CASE Construct(c) \/ ConstructFails(c)
  <2>1. frames[c] # <<>> /\ call[c].at \in {"frame", "factory"} /\ Top(c).next > Len(Top(c).provider.deps)
    BY <1>2 DEF Construct, ConstructFails, Constructs, BaseInv, FramesInv
  <2>2. frames'[c] = Pop(frames[c]) /\ instances'[c] = instances[c] /\ workload' = workload
    BY <1>2 DEF Construct, ConstructFails, Leave, history, BaseInv, ContainerTypeOK
  <2>3. \/ call'[c].at = "thrown"
        \/ call'[c].at = "built" /\ call'[c].token = Top(c).token
    BY <1>1, <1>2 DEF Construct, ConstructFails, Throw, Calls
  <2> QED BY <2>1, <2>2, <2>3, PopKeepsScope
<1>3. CASE Unwind(c)
  <2>1. CASE frames[c] = <<>>
    <3>1. /\ frames'[c] = frames[c] /\ instances'[c] = instances[c] /\ workload' = workload
          /\ call[c].at = "thrown" /\ call'[c].at = "idle"
      BY <1>1, <1>3, <2>1 DEF Unwind, history, Calls
    <3> QED BY <2>1, <3>1, SameFrames DEF AskInv
  <2>2. CASE frames[c] # <<>>
    <3>1. /\ frames'[c] = Pop(frames[c]) /\ instances'[c] = instances[c] /\ workload' = workload
          /\ call'[c].at = "thrown"
      BY <1>3, <2>2 DEF Unwind, Leave, history, BaseInv, ContainerTypeOK
    <3> QED BY <2>2, <3>1, PopKeepsScope
  <2> QED BY <2>1, <2>2
<1> QED
  BY <1>2, <1>3, AnswersKeepScope, EnterKeepsScope, DependKeepsScope, StoreKeepsScope,
     ReceiveKeepsScope
     DEF Progress, Resolve, Activation, Continue

LEMMA OthersKeepScope ==
    ASSUME BaseInv, NEW d \in Caller, ScopeInv(d),
           call'[d] = call[d], frames'[d] = frames[d], instances'[d] = instances[d],
           workload' = workload
    PROVE  ScopeInv(d)'
<1>1. (\A x : IsScoped(x)' <=> IsScoped(x)) /\ (\A x : Has(d, x)' <=> Has(d, x))
      /\ (\A x : ScopedDeps(x)' = ScopedDeps(x)) /\ (\A x : Under(x)' = Under(x)) /\ Top(d)' = Top(d)
  BY DEF IsScoped, Bound, Has, ScopedDeps, Under, Top
<1>2. \A i : (Active(d, i)' <=> Active(d, i)) /\ Received(d, i)' = Received(d, i)
  BY DEF Active, Received
<1>3. NestInv(d)' /\ AskInv(d)'
  BY <1>1, <1>2 DEF ScopeInv, NestInv, AskInv
<1>4. DoneInv(d)'
  BY <1>1, <1>2 DEF ScopeInv, DoneInv
<1>5. FirstInv(d)'
  BY <1>1 DEF ScopeInv, FirstInv
<1> QED BY <1>3, <1>4, <1>5 DEF ScopeInv

ContainerInv == BaseInv /\ \A c \in Caller : ScopeInv(c)

LEMMA InitContainer == Init => ContainerInv
<1>1. ASSUME Init, NEW c \in Caller PROVE ScopeInv(c)
  <2>1. frames[c] = <<>> /\ call[c] = NoCall /\ \A t \in Token : instances[c][t] = 0
    BY <1>1 DEF Init
  <2>2. DOMAIN frames[c] = {}
    BY <2>1
  <2> QED BY <2>1, <2>2 DEF ScopeInv, NestInv, AskInv, DoneInv, FirstInv, Has, NoCall
<1> QED BY <1>1, InitBase DEF ContainerInv

LEMMA NextKeepsContainer ==
    ASSUME ContainerInv, [Next]_vars
    PROVE  ContainerInv'
<1>1. BaseInv'
  BY NextKeepsBase DEF ContainerInv
<1>2. CASE UNCHANGED vars
  BY <1>1, <1>2, OthersKeepScope DEF ContainerInv, vars
<1>3. CASE Next
  <2>1. PICK c \in workload.callers : (\E t \in Token, s \in BOOLEAN : Ask(c, t, s)) \/ Progress(c)
    BY <1>3 DEF Next
  <2>2. c \in Caller
    BY BoundProviders DEF ContainerInv
  <2>3. ScopeInv(c)'
    BY <2>1, <2>2, StepKeepsScope DEF ContainerInv
  <2>4. ASSUME NEW d \in Caller \ {c} PROVE ScopeInv(d)'
    BY <2>1, <2>2, OthersAreLeftAlone, OthersKeepScope DEF ContainerInv, BaseInv
  <2> QED BY <1>1, <2>3, <2>4 DEF ContainerInv
<1> QED BY <1>2, <1>3

\* What is bound stays bound, until its singleton is made; a frame is of what
\* was bound; and scoped tokens are made after their dependencies, for the
\* first time or again as a falsy value: whatever the calls' order.
THEOREM ContainerCorrect == Spec => []ContainerInv
BY InitContainer, NextKeepsContainer, PTL DEF Spec

\* ScopedContainer keeps the first instance of a scoped provider, however the
\* calls overlap and whichever fail, unless the instance is falsy.
THEOREM ScopedOnceCorrect == Spec => ScopedOnce
<1>1. ASSUME ContainerInv, [Next]_vars, NEW d \in Caller, NEW t \in Token \ Falsy,
             instances[d][t] # 0
      PROVE  instances'[d][t] = instances[d][t]
  <2>1. CASE UNCHANGED vars
    BY <2>1 DEF vars
  <2>2. CASE Next
    <3>1. PICK c \in workload.callers : (\E u \in Token, s \in BOOLEAN : Ask(c, u, s)) \/ Progress(c)
      BY <2>2 DEF Next
    <3>2. c \in Caller /\ instances \in [Caller -> [Token -> Nat]]
      BY <1>1, BoundProviders DEF ContainerInv, BaseInv, ContainerTypeOK
    <3>3. CASE c # d
      BY <1>1, <3>1, <3>2, <3>3, OthersAreLeftAlone DEF ContainerInv, BaseInv
    <3>4. CASE c = d /\ Store(d)
      <4>1. CASE call[d].scope = "scoped" /\ call[d].token = t
        <5>1. call[d].at = "built" /\ IsScoped(t)
          BY <1>1, <3>4, <4>1 DEF Store, ContainerInv, BaseInv, FramesInv, IsScoped
        <5> QED BY <1>1, <4>1, <5>1 DEF ContainerInv, ScopeInv, FirstInv, Has
      <4>2. CASE ~(call[d].scope = "scoped" /\ call[d].token = t)
        BY <3>2, <3>4, <4>2 DEF Store
      <4> QED BY <4>1, <4>2
    <3>5. CASE c = d /\ ~Store(d)
      BY <3>1, <3>5 DEF Progress, Resolve, Activation, Continue, Ask, NotFound, ResolveValue,
         ResolveExisting, NoScopedContainer, ResolveCached, Circular, ScopeViolation, Enter, Depend,
         CallFactory, Construct, ConstructFails, Receive, Unwind
    <3> QED BY <3>3, <3>4, <3>5
  <2> QED BY <1>1, <2>1, <2>2
<1>2. ContainerInv /\ [Next]_vars =>
        [\A c \in Caller, t \in Token \ Falsy :
            instances[c][t] # 0 => instances'[c][t] = instances[c][t]]_vars
  BY <1>1
<1> QED BY <1>2, ContainerCorrect, PTL DEF Spec, ScopedOnce

-----------------------------------------------------------------------------
(* One caller. Then the stack holds the entries of its activations, above    *)
(* those that earlier errors left.                                           *)

Alone(c) == workload.callers = {c}

\* An error that is thrown before the try block leaves its own entry, and the
\* finally blocks pop from there: the entries match again when all are gone.
StackInv(c) ==
    /\ \A d \in Caller \ {c} : frames[d] = <<>> /\ call[d].at = "idle"
    /\ Len(resolving) = leaks + Len(frames[c])
    /\ call[c].at # "thrown" =>
        \A i \in DOMAIN frames[c] : resolving[leaks + i] = Entry(frames[c][i].provider)
    /\ \A i, j \in DOMAIN frames[c] : i < j =>
        /\ frames[c][i].provider.class # frames[c][j].provider.class
        /\ frames[c][i].provider.scope = "singleton" => frames[c][j].provider.scope = "singleton"

\* A singleton is made between its activation and the binding of its value.
SingletonInv(c) ==
    /\ \A t \in singletons :
        \/ providers[t] = Bound(t) /\ made[t] = 0
        \/ providers[t] = UseValue(1) /\ made[t] = 1
        \/ providers[t] = Bound(t) /\ made[t] = 1 /\ call[c].at = "built" /\ call[c].token = t
    /\ call[c].at = "built" /\ call[c].token \in singletons => made[call[c].token] = 1 /\ call[c].no = 1
    /\ \A i \in DOMAIN frames[c] : frames[c][i].token \in singletons => made[frames[c][i].token] = 0
    /\ call[c].at = "given" /\ call[c].token \in singletons =>
        providers[call[c].token] = UseValue(call[c].no)

LEMMA OthersStayEmpty ==
    ASSUME BaseInv, NEW c \in Caller, StackInv(c),
           (\E t \in Token, s \in BOOLEAN : Ask(c, t, s)) \/ Progress(c)
    PROVE  \A d \in Caller \ {c} : frames'[d] = <<>> /\ call'[d].at = "idle"
BY OthersAreLeftAlone DEF BaseInv, StackInv

\* What can be found on the stack, below what errors left.
LEMMA EntriesOfFrames ==
    ASSUME BaseInv, NEW c \in Caller, StackInv(c), call[c].at # "thrown"
    PROVE  /\ \A i \in DOMAIN frames[c] : Entry(frames[c][i].provider) \in Entries
           /\ leaks = 0 => \A e \in Entries : \E i \in DOMAIN frames[c] : e = Entry(frames[c][i].provider)
<1>1. /\ DOMAIN frames[c] = 1 .. Len(frames[c]) /\ Len(frames[c]) \in Nat /\ leaks \in Nat
      /\ DOMAIN resolving = 1 .. leaks + Len(frames[c])
  <2>1. resolving \in Seq(Stacked) /\ leaks \in Nat
    BY DEF BaseInv, ContainerTypeOK
  <2> QED BY <2>1, FrameFacts DEF StackInv
<1>2. ASSUME NEW i \in DOMAIN frames[c] PROVE Entry(frames[c][i].provider) \in Entries
  <2>1. leaks + i \in DOMAIN resolving
    BY <1>1
  <2> QED BY <2>1 DEF StackInv, Entries
<1>3. ASSUME leaks = 0, NEW e \in Entries
      PROVE  \E i \in DOMAIN frames[c] : e = Entry(frames[c][i].provider)
  <2>1. PICK k \in DOMAIN resolving : e = resolving[k]
    BY DEF Entries
  <2>2. k \in DOMAIN frames[c] /\ leaks + k = k
    BY <1>1, <1>3
  <2> QED BY <2>1, <2>2 DEF StackInv
<1> QED BY <1>2, <1>3

LEMMA StepKeepsStack ==
    ASSUME BaseInv, NEW c \in Caller, StackInv(c),
           (\E t \in Token, s \in BOOLEAN : Ask(c, t, s)) \/ Progress(c)
    PROVE  StackInv(c)'
<1> DEFINE s == frames[c]
           r == frames'[c]
<1>1. /\ call \in [Caller -> Calls] /\ call[c] \in Calls /\ s \in Seq(Frames)
      /\ resolving \in Seq(Stacked) /\ leaks \in Nat /\ frames \in [Caller -> Seq(Frames)]
  BY DEF BaseInv, ContainerTypeOK
<1>2. PICK n \in Nat : n = Len(s) /\ DOMAIN s = 1 .. n /\ (s # <<>> <=> n > 0)
  BY FrameFacts
<1>3. Len(resolving) = leaks + n /\ DOMAIN resolving = 1 .. leaks + n
  BY <1>1, <1>2 DEF StackInv
<1>13. \A i, j \in 1 .. n : i < j =>
        /\ s[i].provider.class # s[j].provider.class
        /\ s[i].provider.scope = "singleton" => s[j].provider.scope = "singleton"
  BY <1>2 DEF StackInv
<1>4. ASSUME NEW m \in 0 .. n + 1, Len(r) = m, DOMAIN r = 1 .. m, Len(resolving') = leaks' + m,
             call'[c].at # "thrown" =>
                \A i \in 1 .. m : resolving'[leaks' + i] = Entry(r[i].provider),
             \A i, j \in 1 .. m : i < j =>
                /\ r[i].provider.class # r[j].provider.class
                /\ r[i].provider.scope = "singleton" => r[j].provider.scope = "singleton"
      PROVE  StackInv(c)'
  BY <1>4, OthersStayEmpty DEF StackInv, Entry
<1>5. CASE /\ r = s /\ resolving' = resolving /\ leaks' = leaks
           /\ call[c].at = "thrown" => call'[c].at = "thrown" \/ s = <<>>
  <2>1. n \in 0 .. n + 1 /\ Len(r) = n /\ DOMAIN r = 1 .. n /\ Len(resolving') = leaks' + n
    BY <1>2, <1>3, <1>5
  <2>2. call'[c].at # "thrown" =>
            \A i \in 1 .. n : resolving'[leaks' + i] = Entry(r[i].provider)
    BY <1>2, <1>5 DEF StackInv
  <2>3. \A i, j \in 1 .. n : i < j =>
            /\ r[i].provider.class # r[j].provider.class
            /\ r[i].provider.scope = "singleton" => r[j].provider.scope = "singleton"
    BY <1>5, <1>13
  <2> HIDE DEF r, s
  <2> QED BY <1>4, <2>1, <2>2, <2>3
<1>6. CASE Circular(c) \/ ScopeViolation(c)
  <2>1. r = s /\ leaks' = leaks + 1 /\ resolving' = Append(resolving, Entry(Asked(c)))
    BY <1>6 DEF Circular, ScopeViolation, Push
  <2>2. call'[c].at = "thrown"
    BY <1>1, <1>6 DEF Circular, ScopeViolation, Throw, Calls
  <2>3. Len(resolving') = leaks' + n /\ n \in 0 .. n + 1 /\ Len(r) = n /\ DOMAIN r = 1 .. n
    <3>1. Len(resolving') = leaks' + n
      BY <1>1, <1>3, <2>1
    <3> QED BY <1>2, <2>1, <3>1
  <2> HIDE DEF r, s
  <2> QED BY <1>13, <1>4, <2>1, <2>2, <2>3
<1>7. CASE Enter(c)
  <2> DEFINE f == [token |-> call[c].token, provider |-> Asked(c), next |-> 1,
                   scoped |-> PassesContainer(Asked(c))]
             e == Entry(Asked(c))
  <2>1. call[c].at = "resolve" /\ leaks' = leaks /\ resolving' = Append(resolving, e) /\ r = Append(s, f)
        /\ f.provider = Asked(c)
    BY <1>1, <1>7 DEF Enter, Reaches, Resolves, Push, history
  <2>2. f \in Frames /\ e \in Stacked
    <3>1. call[c].token \in Token /\ Asked(c) \in Makers
      BY <2>1, <1>7, TokensOfMakers DEF BaseInv, ContainerTypeOK, Asked, Enter, Reaches
    <3> QED BY <3>1 DEF Frames, Stacked, Entry, PassesContainer, Makers
  <2> HIDE DEF f
  <2>3. /\ Len(r) = n + 1 /\ DOMAIN r = 1 .. n + 1 /\ r[n + 1] = f /\ \A i \in 1 .. n : r[i] = s[i]
    BY <1>1, <1>2, <2>1, <2>2, Appending
  <2>4. /\ Len(resolving') = leaks' + (n + 1) /\ resolving'[leaks + n + 1] = e
        /\ \A i \in 1 .. leaks + n : resolving'[i] = resolving[i]
    BY <1>1, <1>3, <2>1, <2>2, Appending
  <2>5. \A i \in 1 .. n + 1 : i = n + 1 \/ i \in 1 .. n
    BY <1>2
  <2>6. ASSUME NEW i \in 1 .. n + 1 PROVE resolving'[leaks' + i] = Entry(r[i].provider)
    <3>1. CASE i = n + 1
      BY <2>1, <2>3, <2>4, <3>1
    <3>2. CASE i \in 1 .. n
      <4>1. leaks + i \in 1 .. leaks + n
        BY <1>1, <3>2
      <4>2. resolving[leaks + i] = Entry(s[i].provider)
        BY <1>2, <2>1, <3>2 DEF StackInv
      <4> QED BY <2>1, <2>3, <2>4, <3>2, <4>1, <4>2
    <3> QED BY <2>5, <3>1, <3>2
  <2>7. ASSUME NEW i \in 1 .. n
        PROVE  /\ s[i].provider.class # f.provider.class
               /\ s[i].provider.scope = "singleton" => f.provider.scope = "singleton"
    <3>1. Entry(s[i].provider) \in Entries
      BY <1>2, <2>1, EntriesOfFrames
    <3>2. Entry(s[i].provider).class = s[i].provider.class /\ Entry(s[i].provider).scope = s[i].provider.scope
      BY DEF Entry
    <3>3. Asked(c).scope \in Scopes
      BY <1>7, TokensOfMakers DEF BaseInv, ContainerTypeOK, Asked, Enter, Reaches, Resolves, Makers
    <3> QED BY <1>7, <2>1, <3>1, <3>2, <3>3 DEF Enter, IsCircular, ViolatesScope, Scopes
  <2>8. ASSUME NEW i \in 1 .. n + 1, NEW j \in 1 .. n + 1, i < j
        PROVE  /\ r[i].provider.class # r[j].provider.class
               /\ r[i].provider.scope = "singleton" => r[j].provider.scope = "singleton"
    <3>1. i \in 1 .. n
      BY <1>2, <2>8
    <3>2. CASE j = n + 1
      BY <2>3, <2>7, <3>1, <3>2
    <3>3. CASE j \in 1 .. n
      BY <1>13, <2>3, <2>8, <3>1, <3>3
    <3> QED BY <2>5, <3>2, <3>3
  <2>9. n + 1 \in 0 .. n + 1
    BY <1>2
  <2> QED BY <1>4, <2>3, <2>4, <2>6, <2>8, <2>9
<1>8. CASE Depend(c)
  <2>1. leaks' = leaks /\ resolving' = resolving /\ call[c].at # "thrown" /\ s # <<>>
        /\ r = [s EXCEPT ![n] = [s[n] EXCEPT !.next = @ + 1]]
    BY <1>1, <1>2, <1>8 DEF Depend, history, BaseInv, FramesInv
  <2>2. n \in 1 .. n /\ s[n] \in Frames /\ [s[n] EXCEPT !.next = @ + 1] \in Frames
        /\ [s[n] EXCEPT !.next = @ + 1].provider = s[n].provider
    <3>1. n \in 1 .. n /\ s[n] \in Frames
      BY <1>1, <1>2, <2>1
    <3> QED BY <3>1 DEF Frames
  <2>3. DOMAIN r = 1 .. n /\ Len(r) = n /\ \A i \in 1 .. n : r[i].provider = s[i].provider
    BY <1>1, <1>2, <2>1, <2>2
  <2> QED BY <1>2, <1>3, <1>4, <2>1, <2>3 DEF StackInv
<1>9. CASE /\ s # <<>> /\ Leave(c) /\ leaks' = leaks
           /\ call[c].at = "thrown" => call'[c].at = "thrown"
  <2>1. r = Pop(s) /\ resolving' = Pop(resolving)
    BY <1>1, <1>9 DEF Leave, Popped
  <2>2. n > 0 /\ Len(r) = n - 1 /\ DOMAIN r = 1 .. n - 1 /\ \A i \in 1 .. n - 1 : r[i] = s[i]
    <3>1. Pop(s) \in Seq(Frames) /\ Len(Pop(s)) = n - 1 /\ \A i \in 1 .. n - 1 : Pop(s)[i] = s[i]
      BY <1>1, <1>2, <1>9, Popping
    <3> QED BY <1>2, <1>9, <2>1, <3>1
  <2>3. /\ Len(resolving') = leaks + (n - 1)
        /\ \A i \in 1 .. leaks + (n - 1) : resolving'[i] = resolving[i]
    <3>1. resolving # <<>> /\ Len(resolving) - 1 = leaks + (n - 1)
      BY <1>1, <1>3, <2>2
    <3>2. /\ Len(resolving') = Len(resolving) - 1
          /\ \A i \in 1 .. Len(resolving) - 1 : resolving'[i] = resolving[i]
      BY <1>1, <2>1, <3>1, Popping
    <3> QED BY <3>1, <3>2
  <2>4. ASSUME NEW i \in 1 .. n - 1, call'[c].at # "thrown"
        PROVE  resolving'[leaks' + i] = Entry(r[i].provider)
    <3>1. leaks + i \in 1 .. leaks + (n - 1) /\ i \in 1 .. n
      BY <1>1, <2>2
    <3>2. resolving[leaks + i] = Entry(s[i].provider)
      BY <1>2, <1>9, <2>4, <3>1 DEF StackInv
    <3> QED BY <1>9, <2>2, <2>3, <3>1, <3>2
  <2>5. \A i, j \in 1 .. n - 1 : i < j =>
            /\ r[i].provider.class # r[j].provider.class
            /\ r[i].provider.scope = "singleton" => r[j].provider.scope = "singleton"
    <3>1. \A i \in 1 .. n - 1 : i \in DOMAIN s
      BY <1>2
    <3> QED BY <2>2, <3>1 DEF StackInv
  <2>6. n - 1 \in 0 .. n + 1
    BY <2>2
  <2> QED BY <1>4, <1>9, <2>2, <2>3, <2>4, <2>5, <2>6
<1>10. CASE Construct(c) \/ ConstructFails(c)
  <2>1. s # <<>> /\ Leave(c) /\ leaks' = leaks /\ call[c].at # "thrown"
    BY <1>10 DEF Construct, ConstructFails, Constructs, BaseInv, FramesInv, history
  <2> QED BY <1>9, <2>1
<1>11. CASE Unwind(c)
  BY <1>5, <1>9, <1>11 DEF Unwind, history
<1>12. CASE \/ \E t \in Token, x \in BOOLEAN : Ask(c, t, x)
            \/ NotFound(c) \/ ResolveValue(c) \/ ResolveExisting(c) \/ NoScopedContainer(c)
            \/ ResolveCached(c) \/ CallFactory(c) \/ Store(c) \/ Receive(c)
  <2>1. r = s /\ resolving' = resolving /\ leaks' = leaks /\ call[c].at # "thrown"
    BY <1>12 DEF Ask, NotFound, ResolveValue, ResolveExisting, NoScopedContainer, ResolveCached,
       CallFactory, Store, Receive, Resolves, history
  <2> QED BY <1>5, <2>1
<1> QED BY <1>6, <1>7, <1>8, <1>10, <1>11, <1>12 DEF Progress, Resolve, Activation, Continue

\* What is bound for a singleton, and how often it was made.
LEMMA SingletonStates ==
    ASSUME BaseInv, NEW c \in Caller, SingletonInv(c), NEW t \in singletons,
           IsMaker(providers[t]), call[c].at # "built"
    PROVE  made[t] = 0
BY DEF SingletonInv, IsMaker, UseValue

LEMMA StepKeepsSingletons ==
    ASSUME BaseInv, NEW c \in Caller, StackInv(c), SingletonInv(c),
           (\E t \in Token, s \in BOOLEAN : Ask(c, t, s)) \/ Progress(c)
    PROVE  SingletonInv(c)'
<1> DEFINE s == frames[c]
           r == frames'[c]
<1>1. /\ call \in [Caller -> Calls] /\ call[c] \in Calls /\ s \in Seq(Frames)
      /\ frames \in [Caller -> Seq(Frames)] /\ made \in [Token -> Nat] /\ singletons \subseteq Token
      /\ providers \in [Token -> Providers]
  BY DEF BaseInv, ContainerTypeOK, BindingInv
<1>2. PICK n \in Nat : n = Len(s) /\ DOMAIN s = 1 .. n /\ (s # <<>> <=> n > 0)
  BY FrameFacts
<1>3. workload' = workload /\ singletons' = singletons /\ \A t : Bound(t)' = Bound(t)
  <2>1. workload' = workload /\ singletons' = singletons
    BY DEF Progress, Resolve, Activation, Continue, Ask, NotFound, ResolveValue, ResolveExisting,
       NoScopedContainer, ResolveCached, Circular, ScopeViolation, Enter, Depend, CallFactory,
       Construct, ConstructFails, Store, Receive, Unwind, history
  <2> QED BY <2>1 DEF Bound
\* Steps that bind, make and build nothing.
<1>4. ASSUME providers' = providers, made' = made, call[c].at # "built",
             \A i \in DOMAIN r : r[i].token \in singletons =>
                (\E j \in DOMAIN s : s[j].token = r[i].token) \/ made[r[i].token] = 0,
             call'[c].at # "built",
             call'[c].at = "given" /\ call'[c].token \in singletons =>
                providers[call'[c].token] = UseValue(call'[c].no)
      PROVE  SingletonInv(c)'
  BY <1>3, <1>4 DEF SingletonInv
<1>5. CASE \/ \E t \in Token, x \in BOOLEAN : Ask(c, t, x)
           \/ NotFound(c) \/ ResolveExisting(c) \/ NoScopedContainer(c) \/ CallFactory(c) \/ Receive(c)
           \/ Circular(c) \/ ScopeViolation(c)
  <2>1. r = s /\ providers' = providers /\ made' = made /\ call[c].at # "built"
    BY <1>5 DEF Ask, NotFound, ResolveExisting, NoScopedContainer, CallFactory, Receive, Circular,
       ScopeViolation, Reaches, Resolves, history
  <2>2. call'[c].at # "given" /\ call'[c].at # "built"
    <3>1. CASE \E t \in Token, x \in BOOLEAN : Ask(c, t, x)
      BY <1>1, <3>1 DEF Ask, NoCall
    <3>2. CASE ResolveExisting(c) \/ CallFactory(c) \/ Receive(c)
      BY <1>1, <3>2 DEF ResolveExisting, Resolves, CallFactory, Receive, Calls
    <3>3. ASSUME NEW e, Throw(c, e) PROVE call'[c].at = "thrown"
      BY <1>1, <3>3 DEF Throw, Calls
    <3>4. CASE NotFound(c) \/ NoScopedContainer(c) \/ Circular(c) \/ ScopeViolation(c)
      BY <3>3, <3>4 DEF NotFound, NoScopedContainer, Circular, ScopeViolation
    <3> QED BY <1>5, <3>1, <3>2, <3>4
  <2> QED BY <1>4, <2>1, <2>2
<1>6. CASE ResolveValue(c)
  <2>1. r = s /\ providers' = providers /\ made' = made /\ call[c].at = "resolve"
        /\ providers[call[c].token].kind = "value"
    BY <1>6 DEF ResolveValue, Resolves, Asked, history
  <2>2. /\ call'[c].token = call[c].token /\ call'[c].no = providers[call[c].token].no
        /\ call'[c].at = "given"
    BY <1>1, <1>6 DEF ResolveValue, Give, Asked, Calls
  <2>3. ASSUME call[c].token \in singletons
        PROVE  providers[call[c].token] = UseValue(providers[call[c].token].no)
    <3>1. providers[call[c].token] # Bound(call[c].token)
      BY <2>1, <2>3 DEF BaseInv, BindingInv, IsSingleton, IsMaker
    <3> QED BY <2>1, <2>3, <3>1 DEF SingletonInv, UseValue
  <2> QED BY <1>4, <2>1, <2>2, <2>3
<1>7. CASE ResolveCached(c)
  <2>1. r = s /\ providers' = providers /\ made' = made /\ call[c].at = "resolve"
        /\ call[c].token \in Token /\ IsMaker(Asked(c)) /\ Asked(c).scope = "scoped"
    BY <1>7 DEF ResolveCached, Resolves, Cached, history, BaseInv, ContainerTypeOK
  <2>2. call'[c].token = call[c].token /\ call'[c].at = "given"
    BY <1>1, <1>7 DEF ResolveCached, Give, Calls
  <2>3. call[c].token \notin singletons
    BY <2>1, BoundProviders DEF Asked, BaseInv, BindingInv, IsSingleton
  <2> QED BY <1>4, <2>1, <2>2, <2>3
<1>8. CASE Enter(c)
  <2> DEFINE f == [token |-> call[c].token, provider |-> Asked(c), next |-> 1,
                   scoped |-> PassesContainer(Asked(c))]
  <2>1. /\ r = Append(s, f) /\ providers' = providers /\ made' = made /\ call[c].at = "resolve"
        /\ call[c].token \in Token /\ IsMaker(Asked(c)) /\ f.token = call[c].token
    BY <1>1, <1>8 DEF Enter, Reaches, Resolves, history, BaseInv, ContainerTypeOK
  <2>2. f \in Frames
    <3>1. Asked(c) \in Makers
      BY <2>1, TokensOfMakers DEF BaseInv, ContainerTypeOK, Asked
    <3> QED BY <2>1, <3>1 DEF Frames, PassesContainer
  <2> HIDE DEF f
  <2>3. DOMAIN r = 1 .. n + 1 /\ r[n + 1] = f /\ \A i \in 1 .. n : r[i] = s[i]
    BY <1>1, <1>2, <2>1, <2>2, Appending
  <2>4. call[c].token \in singletons => made[call[c].token] = 0
    BY <2>1, SingletonStates DEF Asked
  <2>5. call'[c].at = "frame"
    BY <1>1, <1>8 DEF Enter, Calls
  <2>6. ASSUME NEW i \in DOMAIN r, r[i].token \in singletons
        PROVE  (\E j \in DOMAIN s : s[j].token = r[i].token) \/ made[r[i].token] = 0
    <3>1. CASE i = n + 1
      BY <2>1, <2>3, <2>4, <2>6, <3>1
    <3>2. CASE i # n + 1
      <4>1. i \in DOMAIN s
        BY <1>2, <2>3, <3>2
      <4> QED BY <1>2, <2>3, <4>1
    <3> QED BY <3>1, <3>2
  <2> QED BY <1>4, <2>1, <2>5, <2>6
<1>9. CASE Depend(c)
  <2>1. /\ providers' = providers /\ made' = made /\ call[c].at = "frame" /\ s # <<>>
        /\ r = [s EXCEPT ![n] = [s[n] EXCEPT !.next = @ + 1]]
    BY <1>1, <1>2, <1>9 DEF Depend, history, BaseInv, FramesInv
  <2>2. n \in 1 .. n /\ s[n] \in Frames
    BY <1>1, <1>2, <2>1
  <2>3. [s[n] EXCEPT !.next = @ + 1].token = s[n].token
    BY <2>2 DEF Frames
  <2>4. DOMAIN r = 1 .. n /\ \A i \in 1 .. n : r[i].token = s[i].token
    BY <1>1, <1>2, <2>1, <2>2, <2>3
  <2>5. call'[c].at = "resolve"
    BY <1>1, <1>9 DEF Depend, Calls
  <2> QED BY <1>2, <1>4, <2>1, <2>4, <2>5
<1>10. ASSUME s # <<>>, Leave(c)
       PROVE  /\ n > 0 /\ Top(c) = s[n] /\ DOMAIN r = 1 .. n - 1
              /\ \A i \in 1 .. n - 1 : r[i] = s[i] /\ i \in DOMAIN s /\ i < n
  <2>1. r = Pop(s)
    BY <1>1, <1>10 DEF Leave
  <2>2. Pop(s) \in Seq(Frames) /\ Len(Pop(s)) = n - 1 /\ \A i \in 1 .. n - 1 : Pop(s)[i] = s[i]
    BY <1>1, <1>2, <1>10, Popping
  <2> QED BY <1>2, <1>10, <2>1, <2>2 DEF Top
<1>11. CASE ConstructFails(c) \/ Unwind(c)
  <2>1. /\ providers' = providers /\ made' = made /\ call[c].at # "built" /\ call'[c].at \notin {"given", "built"}
        /\ (s # <<>> /\ Leave(c)) \/ r = s
    BY <1>1, <1>11 DEF ConstructFails, Constructs, Unwind, history, Throw, Calls, BaseInv, FramesInv
  <2>2. CASE r = s
    BY <1>4, <2>1, <2>2
  <2>3. CASE s # <<>> /\ Leave(c)
    <3>1. \A i \in DOMAIN r : i \in DOMAIN s /\ r[i] = s[i]
      BY <1>10, <2>3
    <3> QED BY <1>4, <2>1, <3>1
  <2> QED BY <2>1, <2>2, <2>3
<1>12. CASE Construct(c)
  <2> DEFINE t == Top(c).token
  <2>1. s # <<>> /\ Leave(c) /\ call[c].at # "built"
    BY <1>12 DEF Construct, Constructs, BaseInv, FramesInv
  <2>2. /\ n > 0 /\ n \in DOMAIN s /\ Top(c) = s[n]
        /\ \A i \in DOMAIN r : r[i] = s[i] /\ i \in DOMAIN s /\ i < n
    BY <1>2, <1>10, <2>1
  <2>3. t \in Token
    BY <2>2, FrameFacts
  <2>4. /\ providers' = providers /\ made' = [made EXCEPT ![t] = made[t] + 1]
        /\ call'[c].at = "built" /\ call'[c].token = t /\ call'[c].no = made[t] + 1
    BY <1>1, <1>12 DEF Construct, Calls
  <2>5. t \in singletons => made[t] = 0 /\ providers[t] = Bound(t)
    <3>1. t \in singletons => made[t] = 0
      BY <2>2 DEF SingletonInv
    <3> QED BY <2>1, <3>1 DEF SingletonInv
  <2>6. ASSUME NEW i \in DOMAIN r PROVE r[i].token # t
    BY <2>2, FrameFacts DEF StackInv
  <2>7. ASSUME NEW x \in singletons
        PROVE  \/ providers'[x] = Bound(x) /\ made'[x] = 0
               \/ providers'[x] = UseValue(1) /\ made'[x] = 1
               \/ /\ providers'[x] = Bound(x) /\ made'[x] = 1
                  /\ call'[c].at = "built" /\ call'[c].token = x
    <3>1. CASE x = t
      BY <1>1, <2>3, <2>4, <2>5, <2>7, <3>1
    <3>2. CASE x # t
      BY <1>1, <2>1, <2>3, <2>4, <2>7, <3>2 DEF SingletonInv
    <3> QED BY <3>1, <3>2
  <2>8. ASSUME NEW i \in DOMAIN r, r[i].token \in singletons PROVE made'[r[i].token] = 0
    BY <1>1, <2>2, <2>4, <2>6, <2>8 DEF SingletonInv
  <2>9. t \in singletons => made'[t] = 1 /\ call'[c].no = 1
    BY <1>1, <2>3, <2>4, <2>5
  <2> HIDE DEF t
  <2> QED BY <1>3, <2>4, <2>7, <2>8, <2>9 DEF SingletonInv
<1>13. CASE Store(c)
  <2> DEFINE t == call[c].token
  <2>1. /\ call[c].at = "built" /\ t \in Token /\ IsMaker(Bound(t)) /\ call[c].scope = Bound(t).scope
        /\ r = s /\ made' = made
    BY <1>13 DEF Store, BaseInv, FramesInv, ContainerTypeOK, history
  <2>2. call'[c].at = "given" /\ call'[c].token = t /\ call'[c].no = call[c].no
    BY <1>1, <1>13 DEF Store, Give, Calls
  <2>3. t \in singletons <=> call[c].scope = "singleton"
    BY <2>1 DEF BaseInv, BindingInv, IsSingleton
  <2>4. providers' = IF t \in singletons THEN [providers EXCEPT ![t] = UseValue(call[c].no)] ELSE providers
    BY <1>13, <2>3 DEF Store, IsShared
  <2>5. t \in singletons => providers'[t] = UseValue(call[c].no)
    BY <1>1, <2>1, <2>4
  <2>6. t \in singletons => made[t] = 1 /\ call[c].no = 1
    BY <2>1 DEF SingletonInv
  <2>7. ASSUME NEW x \in singletons
        PROVE  \/ providers'[x] = Bound(x) /\ made'[x] = 0
               \/ providers'[x] = UseValue(1) /\ made'[x] = 1
    <3>1. CASE x = t
      BY <2>1, <2>5, <2>6, <2>7, <3>1
    <3>2. CASE x # t
      BY <1>1, <2>1, <2>4, <2>7, <3>2 DEF SingletonInv
    <3> QED BY <3>1, <3>2
  <2>8. \A i \in DOMAIN r : r[i].token \in singletons => made'[r[i].token] = 0
    BY <2>1 DEF SingletonInv
  <2>9. t \in singletons => providers'[t] = UseValue(call[c].no)
    BY <2>5
  <2> QED BY <1>3, <2>2, <2>7, <2>8, <2>9 DEF SingletonInv
<1> QED
  BY <1>5, <1>6, <1>7, <1>8, <1>9, <1>11, <1>12, <1>13 DEF Progress, Resolve, Activation, Continue

AloneInv ==
    /\ ContainerInv
    /\ \A c \in Caller : Alone(c) => StackInv(c) /\ SingletonInv(c)

\* With one caller, its activations are what the stack holds, no class is in
\* two of them, and what is made for a singleton is a singleton; a singleton is
\* made once, and bound at once.
THEOREM AloneCorrect == Spec => []AloneInv
<1>1. Init => AloneInv
  <2> SUFFICES ASSUME Init, NEW c \in Caller PROVE StackInv(c) /\ SingletonInv(c)
    <3>1. Init => ContainerInv
      BY InitContainer
    <3> QED BY <3>1 DEF AloneInv
  <2>1. /\ \A d \in Caller : frames[d] = <<>> /\ call[d].at = "idle"
        /\ resolving = <<>> /\ leaks = 0 /\ made = [t \in Token |-> 0] /\ providers = workload.providers
        /\ singletons \subseteq Token
    <3>1. NoCall.at = "idle"
      BY DEF NoCall
    <3> QED BY <3>1 DEF Init
  <2>2. DOMAIN frames[c] = {} /\ Len(frames[c]) = 0 /\ Len(resolving) = 0
    BY <2>1
  <2>3. StackInv(c)
    BY <2>1, <2>2 DEF StackInv
  <2>4. SingletonInv(c)
    <3>1. \A t \in singletons : providers[t] = Bound(t) /\ made[t] = 0
      BY <2>1 DEF Bound
    <3> QED BY <2>1, <2>2, <3>1 DEF SingletonInv
  <2> QED BY <2>3, <2>4
<1>2. AloneInv /\ [Next]_vars => AloneInv'
  <2> SUFFICES ASSUME AloneInv, [Next]_vars PROVE AloneInv'
    OBVIOUS
  <2>1. ContainerInv'
    BY NextKeepsContainer DEF AloneInv
  <2>2. ASSUME NEW c \in Caller, Alone(c)' PROVE StackInv(c)' /\ SingletonInv(c)'
    <3>1. CASE UNCHANGED vars
      <4>1. Alone(c) /\ StackInv(c) /\ SingletonInv(c)
        BY <2>2, <3>1 DEF vars, Alone, AloneInv
      <4> QED BY <3>1, <4>1 DEF vars, StackInv, SingletonInv, Entry, Bound
    <3>2. CASE Next
      <4>1. PICK d \in workload.callers : (\E t \in Token, s \in BOOLEAN : Ask(d, t, s)) \/ Progress(d)
        BY <3>2 DEF Next
      <4>2. d \in Caller /\ BaseInv
        BY BoundProviders DEF AloneInv, ContainerInv
      <4>3. workload' = workload
        BY <4>1 DEF Progress, Resolve, Activation, Continue, Ask, NotFound, ResolveValue,
           ResolveExisting, NoScopedContainer, ResolveCached, Circular, ScopeViolation, Enter, Depend,
           CallFactory, Construct, ConstructFails, Store, Receive, Unwind, history
      <4>4. d = c /\ StackInv(c) /\ SingletonInv(c)
        BY <2>2, <4>1, <4>3 DEF Alone, AloneInv
      <4> QED BY <4>1, <4>2, <4>4, StepKeepsStack, StepKeepsSingletons
    <3> QED BY <3>1, <3>2
  <2> QED BY <2>1, <2>2 DEF AloneInv
<1> QED BY <1>1, <1>2, PTL DEF Spec

\* No chain of activations has a class twice, or anything that lives shorter
\* than a singleton under the singleton.
THEOREM NoCaptiveCorrect == Spec => []NoCaptive
<1>1. AloneInv => NoCaptive
  <2> SUFFICES ASSUME AloneInv, NEW c \in Caller, Alone(c), NEW d \in Caller,
                      NEW i \in DOMAIN frames[d], NEW j \in DOMAIN frames[d], i < j
               PROVE  /\ frames[d][i].provider.class # frames[d][j].provider.class
                      /\ frames[d][i].provider.scope = "singleton" =>
                            frames[d][j].provider.scope = "singleton"
    BY DEF NoCaptive, OneCaller, Alone
  <2>1. d = c
    <3>1. d # c => frames[d] = <<>>
      BY DEF AloneInv, StackInv
    <3> QED BY <3>1
  <2> QED BY <2>1 DEF AloneInv, StackInv
<1> QED BY <1>1, AloneCorrect, PTL

\* A singleton is made once, however many resolves ask for it and fail after,
\* and each one that asks gets the instance that is bound.
THEOREM SingletonOnceCorrect == Spec => []SingletonOnce
<1>1. AloneInv => SingletonOnce
  <2> SUFFICES ASSUME AloneInv, NEW c \in Caller, Alone(c)
               PROVE  /\ \A t \in singletons : made[t] <= 1
                      /\ \A d \in Caller : call[d].at = "given" /\ call[d].token \in singletons =>
                            providers[call[d].token] = UseValue(call[d].no)
    BY DEF SingletonOnce, OneCaller, Alone
  <2>1. SingletonInv(c) /\ \A d \in Caller \ {c} : call[d].at = "idle"
    BY DEF AloneInv, StackInv
  <2> QED BY <2>1 DEF SingletonInv
<1> QED BY <1>1, AloneCorrect, PTL

\* Until the first error has left an entry, the errors of a caller that is
\* alone name a class, or a singleton, of its own activations.
THEOREM ErrorsAreRealCorrect == Spec => ErrorsAreReal
<1>1. ASSUME AloneInv, [Next]_vars, OneCaller, leaks = 0, NEW d \in Caller, NEW e, Begins(d, e),
             e \in {"circular", "scope"}
      PROVE  IF e = "circular" THEN \E p \in Chain(d) : p.class = Asked(d).class
                               ELSE \E p \in Chain(d) : p.scope = "singleton"
  <2>1. PICK c \in Caller : Alone(c)
    BY <1>1 DEF OneCaller, Alone
  <2>2. call'[d] # call[d]
    BY <1>1 DEF Begins
  <2>3. d \in workload.callers /\ ((\E t \in Token, s \in BOOLEAN : Ask(d, t, s)) \/ Progress(d))
    <3>1. PICK x \in workload.callers : (\E t \in Token, s \in BOOLEAN : Ask(x, t, s)) \/ Progress(x)
      BY <1>1, <2>2 DEF Next, vars
    <3>2. x \in Caller
      BY <1>1, BoundProviders DEF AloneInv, ContainerInv
    <3> QED BY <1>1, <2>2, <3>1, <3>2, OthersAreLeftAlone DEF AloneInv, ContainerInv, BaseInv
  <2>4. d = c
    BY <2>1, <2>3 DEF Alone
  <2>5. call \in [Caller -> Calls] /\ call[d] \in Calls
    BY <1>1 DEF AloneInv, ContainerInv, BaseInv, ContainerTypeOK
  <2>6. IF e = "circular" THEN Circular(d) ELSE ScopeViolation(d)
    <3>1. call[d].error # e /\ call'[d].error = e
      BY <1>1 DEF Begins
    <3>2. ~\E t \in Token, s \in BOOLEAN : Ask(d, t, s)
      BY <1>1, <2>5, <3>1 DEF Ask, NoCall
    <3>3. ASSUME NEW x, Throw(d, x) PROVE x = e
      BY <2>5, <3>1, <3>3 DEF Throw, Calls
    <3>4. ASSUME NEW x, Give(d, x) PROVE FALSE
      BY <2>5, <3>1, <3>4 DEF Give, Calls
    <3>5. ~(ResolveValue(d) \/ ResolveCached(d) \/ Store(d))
      BY <3>4 DEF ResolveValue, ResolveCached, Store
    <3>6. ~(NotFound(d) \/ NoScopedContainer(d) \/ ConstructFails(d))
      BY <1>1, <3>3 DEF NotFound, NoScopedContainer, ConstructFails
    <3>7. ~(ResolveExisting(d) \/ Enter(d) \/ Depend(d) \/ CallFactory(d) \/ Construct(d))
      BY <2>5, <3>1 DEF ResolveExisting, Enter, Depend, CallFactory, Construct, Calls
    <3>8. ~(Receive(d) \/ Unwind(d))
      BY <2>5, <3>1 DEF Receive, Unwind, Calls
    <3>9. Circular(d) \/ ScopeViolation(d)
      BY <2>3, <3>2, <3>5, <3>6, <3>7, <3>8 DEF Progress, Resolve, Activation, Continue
    <3> QED BY <1>1, <3>3, <3>9 DEF Circular, ScopeViolation
  <2>7. \A x \in Entries : \E i \in DOMAIN frames[d] : x = Entry(frames[d][i].provider)
    <3>1. call[d].at # "thrown"
      BY <2>6 DEF Circular, ScopeViolation, Reaches, Resolves
    <3> QED BY <1>1, <2>1, <2>4, <3>1, EntriesOfFrames DEF AloneInv, ContainerInv
  <2>8. \A x \in Entries : \E p \in Chain(d) : p.class = x.class /\ p.scope = x.scope
    BY <2>7 DEF Chain, Entry
  <2> QED BY <2>6, <2>8 DEF Circular, ScopeViolation, IsCircular, ViolatesScope
<1>2. AloneInv /\ [Next]_vars =>
        [OneCaller /\ leaks = 0 => CircularErrorsAreReal /\ ScopeErrorsAreReal]_vars
  <2> SUFFICES ASSUME AloneInv, [Next]_vars, OneCaller, leaks = 0
               PROVE  CircularErrorsAreReal /\ ScopeErrorsAreReal
    OBVIOUS
  <2>1. CircularErrorsAreReal
    BY <1>1 DEF CircularErrorsAreReal
  <2>2. ScopeErrorsAreReal
    BY <1>1 DEF ScopeErrorsAreReal
  <2> QED BY <2>1, <2>2
<1> QED BY <1>2, AloneCorrect, PTL DEF Spec, ErrorsAreReal
=============================================================================

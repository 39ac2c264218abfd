--------------------------- MODULE PluginRegistry ---------------------------
(***************************************************************************)
(* The plugin registry of packages/core: `register` collects plugin types, *)
(* `init` sorts them with Kahn's algorithm and runs their onRegister       *)
(* hooks, `run` runs onStart, `destroy` runs onStop in reverse order.      *)
(* The three calls are asynchronous loops over executionOrder that await   *)
(* one hook at a time; a hook may throw.                                   *)
(*                                                                         *)
(* The callers keep the order every bootstrap of the repository keeps:     *)
(* register*, init, run (only if init resolved), destroy (in a finally).   *)
(***************************************************************************)
EXTENDS Naturals, Sequences

CONSTANTS
    Plugin,     \* the plugin classes of the program
    Graphs      \* the dependency declarations (static `dependencies`) to consider

ASSUME GraphsAssumption ==
    Graphs \subseteq [Plugin -> [required : SUBSET Plugin, optional : SUBSET Plugin]]

VARIABLES
    graph,          \* the declared dependencies of every plugin class
    plugins,        \* this.plugins, in registration order
    executionOrder, \* this.executionOrder
    pending,        \* inDegree, as the set of dependencies still to be sorted
    queue,          \* the FIFO queue of resolveExecutionOrder
    instances,      \* the keys of this.instances
    state,          \* Plugin.state of every instance
    stateError,     \* Plugin.stateError: the hook that threw, or "none"
    phase,          \* the lifecycle call in progress, or the last one that ended
    pos,            \* the position of the for loop in executeLifecycleMethod
    hook,           \* "idle", or "running" while a hook is awaited
    failure         \* why init rejected

sortVars == <<executionOrder, pending, queue>>
pluginVars == <<instances, state, stateError>>
loopVars == <<phase, pos, hook>>
registryVars == <<graph, plugins, sortVars, pluginVars, loopVars, failure>>

Lifecycle == {"created", "registered", "started", "stopped", "error"}
Hook == {"onRegister", "onStart", "onStop"}
Phase == Hook \cup {"new", "sorting", "initialized", "initFailed", "running",
                    "destroyed", "destroyFailed"}

Elements(s) == {s[k] : k \in DOMAIN s}
Registered == Elements(plugins)

\* An optional dependency counts when it is registered and is skipped otherwise.
Deps(p) == (graph[p].required \cup graph[p].optional) \cap Registered
Missing(p) == graph[p].required \ Registered

RegisteredBefore(p, q) ==
    \E k, l \in DOMAIN plugins : k < l /\ plugins[k] = p /\ plugins[l] = q

\* The one sequence that lists S in registration order, as the loops over
\* inDegree.entries() and over a neighbour list do.
InRegistrationOrder(S) ==
    {s \in UNION {[1 .. n -> S] : n \in 0 .. Len(plugins)} :
        /\ Elements(s) = S
        /\ \A k, l \in DOMAIN s : k < l => RegisteredBefore(s[k], s[l])}

-----------------------------------------------------------------------------
Init ==
    /\ graph \in Graphs
    /\ plugins = <<>>
    /\ executionOrder = <<>>
    /\ pending = [p \in Plugin |-> {}]
    /\ queue = <<>>
    /\ instances = {}
    /\ state = [p \in Plugin |-> "created"]
    /\ stateError = [p \in Plugin |-> "none"]
    /\ phase = "new"
    /\ pos = 1
    /\ hook = "idle"
    /\ failure = "none"

\* register: a plugin that is registered already is refused.
Register(p) ==
    /\ phase = "new"
    /\ p \notin Registered
    /\ plugins' = Append(plugins, p)
    /\ UNCHANGED <<graph, sortVars, pluginVars, loopVars, failure>>

-----------------------------------------------------------------------------
(* init, first part: resolveExecutionOrder.                                *)

InitRejects(why) ==
    /\ phase' = "initFailed"
    /\ failure' = why

\* A required dependency that is not registered is found while the graph is
\* built: executionOrder has been cleared and stays empty.
MissingDependency ==
    /\ phase = "new"
    /\ \E p \in Registered : Missing(p) # {}
    /\ executionOrder' = <<>>
    /\ InitRejects("missing")
    /\ UNCHANGED <<graph, plugins, pending, queue, pluginVars, pos, hook>>

BuildGraph ==
    /\ phase = "new"
    /\ \A p \in Registered : Missing(p) = {}
    /\ executionOrder' = <<>>
    /\ pending' = [p \in Plugin |-> IF p \in Registered THEN Deps(p) ELSE {}]
    /\ queue' \in InRegistrationOrder({p \in Registered : Deps(p) = {}})
    /\ phase' = "sorting"
    /\ UNCHANGED <<graph, plugins, pluginVars, pos, hook, failure>>

InitCall == MissingDependency \/ BuildGraph

\* Not the code: for the mutants.
FreedTooEarly(current) == {p \in Registered : current \in pending[p]}

\* The neighbours whose in-degree drops to zero when current leaves the queue.
Freed(current) == {p \in Registered : pending[p] = {current}}

\* One turn of `while (queue.length > 0)`.
SortStep ==
    /\ phase = "sorting"
    /\ queue # <<>>
    /\ LET current == Head(queue) IN
       /\ executionOrder' = Append(executionOrder, current)
       /\ pending' = [p \in Plugin |-> pending[p] \ {current}]
       /\ \E freed \in InRegistrationOrder(Freed(current)) : queue' = Tail(queue) \o freed
    /\ UNCHANGED <<graph, plugins, pluginVars, loopVars, failure>>

\* Not the code: for the mutants.
SomePluginSorted == executionOrder # <<>>

AllPluginsSorted == Len(executionOrder) = Len(plugins)

\* A cycle leaves plugins out of the order. The partial order is not cleared.
SortEnd ==
    /\ phase = "sorting"
    /\ queue = <<>>
    /\ IF AllPluginsSorted
       THEN phase' = "onRegister" /\ pos' = 1 /\ UNCHANGED failure
       ELSE InitRejects("circular") /\ UNCHANGED pos
    /\ UNCHANGED <<graph, plugins, sortVars, pluginVars, hook>>

-----------------------------------------------------------------------------
(* executeLifecycleMethod.                                                 *)

\* Not the code: for the mutants.
ForwardCurrent == executionOrder[pos]

\* destroy walks executionOrder.toReversed().
Current ==
    IF phase = "onStop" THEN executionOrder[Len(executionOrder) + 1 - pos]
                        ELSE executionOrder[pos]

\* Not the code: for the mutants.
LastPluginForgotten == pos >= Len(executionOrder)

LoopDone == pos > Len(executionOrder)
InLoop == phase \in Hook /\ hook = "idle" /\ ~LoopDone

\* Not the code: for the mutants.
NeverFailed(p) == FALSE

Failed(p) == state[p] = "error"

After(method) == CASE method = "onRegister" -> "initialized"
                   [] method = "onStart" -> "running"
                   [] method = "onStop" -> "destroyed"

StateAfter(method) == CASE method = "onRegister" -> "registered"
                        [] method = "onStart" -> "started"
                        [] method = "onStop" -> "stopped"

\* onRegister: container.resolve is awaited outside the try block.
ResolveFails ==
    /\ InLoop
    /\ phase = "onRegister"
    /\ InitRejects("resolve")
    /\ UNCHANGED <<graph, plugins, sortVars, pluginVars, pos, hook>>

\* `instances.get(type)` is undefined: the TypeError raised in the try block is
\* followed by a second one in the catch block, which rejects the call.
NoInstance ==
    /\ InLoop
    /\ phase # "onRegister"
    /\ Current \notin instances
    /\ phase' = "destroyFailed"
    /\ UNCHANGED <<graph, plugins, sortVars, pluginVars, pos, hook, failure>>

\* `if (instance.getState() === PluginLifecycle.Error) return;` ends the whole
\* loop, not only this plugin's turn.
ErrorReturn ==
    /\ InLoop
    /\ Current \in instances
    /\ Failed(Current)
    /\ phase' = After(phase)
    /\ UNCHANGED <<graph, plugins, sortVars, pluginVars, pos, hook, failure>>

\* The hook is called and awaited. A plugin's first turn also stores the
\* instance that the container returned.
HookBegin ==
    /\ InLoop
    /\ phase = "onRegister" \/ Current \in instances
    /\ ~Failed(Current)
    /\ instances' = instances \cup {Current}
    /\ hook' = "running"
    /\ UNCHANGED <<graph, plugins, sortVars, state, stateError, phase, pos, failure>>

HookResolves ==
    /\ hook = "running"
    /\ state' = [state EXCEPT ![Current] = StateAfter(phase)]
    /\ hook' = "idle"
    /\ pos' = pos + 1
    /\ UNCHANGED <<graph, plugins, sortVars, instances, stateError, phase, failure>>

\* setStateError: the loop goes on with the next plugin.
HookThrows ==
    /\ hook = "running"
    /\ state' = [state EXCEPT ![Current] = "error"]
    /\ stateError' = [stateError EXCEPT ![Current] = phase]
    /\ hook' = "idle"
    /\ pos' = pos + 1
    /\ UNCHANGED <<graph, plugins, sortVars, instances, phase, failure>>

LoopEnd ==
    /\ phase \in Hook
    /\ hook = "idle"
    /\ LoopDone
    /\ phase' = After(phase)
    /\ UNCHANGED <<graph, plugins, sortVars, pluginVars, pos, hook, failure>>

\* The two other calls of the Lifecycle interface.
RunCall ==
    /\ phase = "initialized"
    /\ phase' = "onStart"
    /\ pos' = 1
    /\ UNCHANGED <<graph, plugins, sortVars, pluginVars, hook, failure>>

DestroyCall ==
    /\ phase \in {"new", "initFailed", "running"}
    /\ phase' = "onStop"
    /\ pos' = 1
    /\ UNCHANGED <<graph, plugins, sortVars, pluginVars, hook, failure>>

\* What the registry does by itself once a call has been made.
Progress ==
    \/ SortStep
    \/ SortEnd
    \/ ResolveFails
    \/ NoInstance
    \/ ErrorReturn
    \/ HookBegin
    \/ HookResolves
    \/ HookThrows
    \/ LoopEnd

Call ==
    \/ \E p \in Plugin : Register(p)
    \/ InitCall
    \/ RunCall
    \/ DestroyCall

Next == Progress \/ Call

Spec == Init /\ [][Next]_registryVars

-----------------------------------------------------------------------------
(* HealthEngine: what checkAll computes from the states above.             *)

HealthOf(p) == CASE state[p] = "started" -> "healthy"
                 [] state[p] = "error" -> "unhealthy"
                 [] OTHER -> "unknown"

AppHealth ==
    IF \A p \in Registered : HealthOf(p) = "healthy" THEN "healthy"
    ELSE IF \E p \in Registered : HealthOf(p) = "unhealthy" THEN "unhealthy"
    ELSE "unknown"

-----------------------------------------------------------------------------
(* Properties.                                                             *)

TypeOK ==
    /\ graph \in [Plugin -> [required : SUBSET Plugin, optional : SUBSET Plugin]]
    /\ plugins \in Seq(Plugin)
    /\ executionOrder \in Seq(Plugin)
    /\ pending \in [Plugin -> SUBSET Plugin]
    /\ queue \in Seq(Plugin)
    /\ instances \in SUBSET Plugin
    /\ state \in [Plugin -> Lifecycle]
    /\ stateError \in [Plugin -> Hook \cup {"none"}]
    /\ phase \in Phase
    /\ pos \in Nat
    /\ hook \in {"idle", "running"}
    /\ failure \in {"none", "missing", "circular", "resolve"}

\* Kahn's algorithm never emits a plugin before one of its registered
\* dependencies, required or optional, and emits no plugin twice: at every
\* moment of the sort the order is a topological order of a part of the graph.
TopologicalOrder ==
    \A l \in DOMAIN executionOrder :
        /\ \A d \in Deps(executionOrder[l]) :
               \E k \in DOMAIN executionOrder : k < l /\ executionOrder[k] = d
        /\ \A k \in DOMAIN executionOrder : executionOrder[k] = executionOrder[l] => k = l

\* A set of plugins in which every member waits for another member.
Cyclic == \E S \in SUBSET Registered : S # {} /\ \A p \in S : Deps(p) \cap S # {}

\* PluginCircularDependencyError is thrown exactly for the cyclic graphs: a
\* sort that fails has a cycle, and one that succeeds sorted every plugin.
CircularErrorIsExact ==
    /\ failure = "circular" => Cyclic
    /\ phase \in {"onRegister", "initialized", "onStart", "running"} =>
           ~Cyclic /\ Elements(executionOrder) = Registered

\* onStart is only called when every registered dependency has had its
\* onRegister completed and its onStart called: a dependency that failed to
\* register stops the start phase before any of its dependents.
StartsAfterDependencies ==
    phase = "onStart" /\ hook = "running" =>
        \A d \in Deps(Current) :
            /\ state[d] \in {"started", "error"}
            /\ stateError[d] # "onRegister"

\* onStop is only called when no plugin that depends on this one is running.
StopsAfterDependents ==
    phase = "onStop" /\ hook = "running" =>
        \A q \in Registered : Current \in Deps(q) => state[q] \in {"stopped", "error"}

\* destroy only rejects after an init that rejected, whichever hooks failed; and
\* without a failing hook the whole application comes down: every registered
\* plugin is stopped, whatever the graph and the registration order.
CleanShutdown ==
    /\ phase = "destroyFailed" => failure # "none"
    /\ phase = "destroyed" /\ instances # {} /\ (\A p \in Registered : state[p] # "error")
        => \A p \in Registered : state[p] = "stopped"

\* Once run has ended the application's health is decided: a plugin that never
\* started is always explained by a plugin in error, so checkAll does not
\* answer Unknown for a running application.
HealthDecidedAfterRun == phase = "running" => AppHealth # "unknown"

\* A plugin that failed never leaves the error state and its hooks are never
\* called again.
FailedPluginIsLeftAlone ==
    [][\A p \in Plugin : state[p] = "error" =>
        /\ state'[p] = "error"
        /\ hook' = "running" => Current' # p]_registryVars

-----------------------------------------------------------------------------
(* What the documentation says and the code does not keep.                 *)

\* "Destroys the registered plugins by executing their `onStop` lifecycle
\* method in reverse order": after destroy no plugin is left started.
DestroyStopsWhatStarted ==
    phase \in {"destroyed", "destroyFailed"} => \A p \in Plugin : state[p] # "started"
=============================================================================

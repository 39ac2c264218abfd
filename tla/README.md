# A verification project for AxiSpark

AxiSpark is a TypeScript framework for Node: a plugin registry with an
application bootstrap, a dependency-injection container, an execution engine
that runs a handler between middlewares, guards, interceptors and filters, and
transports (HTTP, WebSocket), integrations (Kafka, RabbitMQ, TypeORM) and
services (scheduler, logger, security, OpenAPI) built on them as plugins. This
directory holds TLA+ models of it, the TLC configurations that check them on
small instances, and theorems whose proofs TLAPS checks for every instance.

Everything is translated from the source under `src/packages`; `PROJECT.json`
("map") names the lines of each definition. Paths below are relative to
`src/packages`.

1. [The system and its components](#1-the-system-and-its-components)
2. [The modules](#2-the-modules)
3. [The runs](#3-the-runs)
4. [What the models show beside the properties](#4-what-the-models-show-beside-the-properties)
5. [The proofs](#5-the-proofs)
6. [What is not modelled, and the plan](#6-what-is-not-modelled-and-the-plan)

## 1. The system and its components

One Node process runs one application. JavaScript is single-threaded: code runs
until it awaits, and what interleaves are the continuations of awaited promises,
timer callbacks, events and signal handlers. All the concurrency modelled here is
of that kind. Nothing is persisted, so there is no crash recovery; there is
shutdown, which competes with start-up and with work in progress.

| Component | State it keeps | Operations | Hard behaviour | Correct when |
| --- | --- | --- | --- | --- |
| `core` plugin registry | registered types, execution order, instances, each plugin's state and error | `register`, `init` (sort, then `onRegister`), `run` (`onStart`), `destroy` (`onStop`, reversed), `getPluginOrder` | cyclic and missing dependencies; hooks that throw part of the way; destroy after a failed init | hooks respect the dependencies; what started is stopped; a cycle is reported when, and only when, there is one |
| `core` bootstrap, health | keep-alive interval, shutdown promise, signal listeners | `use`, `init`, `run`, `destroy`, signals, `getHealth` | a signal at any moment, before `run` listens too | it waits only while it can serve and be shut down; it ends |
| `di` container | providers, instances of each scoped container, one stack of classes being resolved | `bind`, `resolve`, `createScoped` | the stack is shared by all resolves in progress, which await each other's dependencies; errors unwind through it | a singleton is made once; a circular or scope error means a real one; no captive dependency |
| `engine` execution | the state of one call | before steps, handler, timeout, filters, after steps, result | the race between the handler and the timeout; the loser goes on running | one outcome, final; after steps run once |
| `engine` planner | global steps, cache of plans | `plan` | two requests fill the cache at the same time; the key of the cache | each request runs the steps of its handler and transport, in the documented order |
| `engine` parameters, pipes | the configuration of the steps | generate, process | steps of class, method and parameter as one chain; executions that interleave in it | each argument is its own request's value, through its own steps |
| `schedule` | registry of jobs, running and enabled names, Node's timers, executions | `start`, `stop`, `startAll`, `stopAll`, `addJob`, `removeJob`, trigger updates | jobs that take longer than their interval; stop and start during an execution; setTimeout's largest delay | at most one execution of a job at a time; a stopped job is silent; an enabled one recurs, never early |
| `common`, `di` metadata and class registry | lists of declarations, classes by name | every decorator, `remove` | lists are shared along a hierarchy; the order in which modules load | each class has its own and its bases' declarations, in order, and is found by its roles |
| `http` routing, versions, hosts | groups of routes | generate, validate, match | ties between patterns, hosts and versions | the best route answers and none is hidden |
| `http` exchange | the response | guards, handler, timeout, filters, results, `start`, `stop` | who writes the response; errors of every class; shutdown under a request | every request is answered, with the outcome it had |
| `http` rate limit | a bucket of timestamps per client and endpoint | `resolve` | the edge of the window, the sweep every 256 requests | it decides as a sliding window does |
| `http` uploads | files and fields so far, a flag of failure | parse, guard, parameters | events of the parser and of each file's stream in any order | all of an upload that fits, or none of it |
| `http` sessions | the wrapped session object | get, set, save, regenerate, reload, destroy | the request's session is replaced under its wrapper | a handler reads what earlier requests left |
| `websocket`, `websocket-socketio` | events, sockets, `lastIndex` of expressions | connect, message, disconnect | messages while the connection handler is awaited; overlapping messages | each message runs each of its handlers once |
| `kafka`, `rabbitmq`, `data` connections | maps of connections, tokens | create, inject, destroy | a broker that fails part of the way; creation racing destruction | no connection is lost sight of, none is open after a stop |
| `data` derived queries | none | parse a name, build, execute | separators and columns hidden in names; the counter of arguments | both engines select what the name says |
| `logger` | transports; a file's rotation | `log` | calls that overlap rotate concurrently | an entry of a call that resolved is in every transport, once |
| `security` | none between requests | authenticate, authorize | the order of guards; inheritance of policies | no secured handler without identity and every policy |
| `openapi` | the document, schemas to generate | `onRegister` | schemas that refer to each other; names cleared in shared metadata | every reference resolves; generation ends |
| `ddd`, `cli`, `test`, templates | none that matters here | pure functions and file copies | - | - |

How they interact. The bootstrap calls the plugin registry, which resolves
plugin instances from the container and calls their hooks. Plugins bind
providers into the container and own the run-time services: `SchedulePlugin`
starts and stops the scheduler, the connection plugins open and close what they
bind, transports register listeners. A request or message makes a transport
create a scoped container and an execution context and call
`ExecutionEngine.execute`, which asks the planner for a plan and resolves each
step from the container; guards of security, rate limit and upload are steps of
that plan, and the last before the handler are its parameters with their pipes.
So the container is the one piece of state that concurrent requests share, and
the registry's order is what start-up and shutdown rely on.

## 2. The modules

| Module | Models | Built on |
| --- | --- | --- |
| `PluginRegistry` | `core/src/plugin/plugin-registry.ts`, `core/src/health` | |
| `AxiSparkCore` | `core/src/axispark/axispark-core.ts` and the bootstrap of the templates | extends `PluginRegistry`, and implements its specification |
| `Scheduler` | `schedule/src` and Node's timers | |
| `Container` | `di/src/container` | |
| `ExecutionEngine` | `engine/src/execution/execution-engine.ts`, the timeout and result processors | |
| `ExecutionSteps` | the order of the steps of a plan, `engine/src/execution/execution-planner.ts` from `generateBeforeSteps` on | extends `Selection` |
| `ExecutionPlanner` | the rest of `execution-planner.ts` with its cache, `StepGenerator`, `StepDefinition` | extends `ExecutionSteps` |
| `Pipes` | `engine/src/parameter`, `engine/src/pipe`, the pipe steps, `HandlerInvoker` | |
| `Security` | `security/src`: middlewares, guards, engines, `@Secured` | extends `ExecutionSteps` |
| `Declarations` | `MetadataStatic`, `ClassRegistry` and the decorators of every package | extends `Selection` |
| `HttpRouting` | `http/src/routes`, `host`, `version`, the dispatch of both adapters | extends `Selection` |
| `HttpExchange` | `HttpPlugin`, errors, results, filters, timeouts, start, stop and commit of both adapters | extends `ExecutionEngine` |
| `SlidingWindow` | what a rate limit promises (abstract) | |
| `HttpRateLimit` | `HttpRateLimitResolver`, the guard and the policies of `engine/src/rate-limit` | implements `SlidingWindow` |
| `HttpUpload` | `parseMultipart` of both adapters, the guard, the parameters | extends `Selection` |
| `HttpSession` | `ExpressHttpSession`, `FastifyHttpSession` over the frameworks' sessions | |
| `Connections` | the managers and plugins of `kafka`, `rabbitmq` and `data` | |
| `DerivedQueries`, `QueryOperators` | `data/src/repository`: parser, SQL and MongoDB engine, generator; the operators' names | extends `Selection` |
| `WebSocket` | `websocket/src`, `websocket-socketio/src` | extends `Selection` |
| `Logger` | `logger/src`: `Logger` and the transports | |
| `OpenApi` | `openapi/src`: plugin and document generator | extends `Selection` |
| `Selection` | `Array.prototype.filter`, `flat` and `join` and `String.prototype.split`, as recursive functions that a prover can unfold | |
| `CoreProofs` | theorems (section 5) | extends `AxiSparkCore` |
| `SchedulerProofs`, `ContainerProofs` | theorems | each extends the module in its name |
| `ServicesProofs` | theorems | extends `Connections`, `Logger`, `WebSocket`, `OpenApi`, `Declarations` and `DerivedQueries` |
| `HttpGuardProofs` | theorems | extends `HttpRateLimit`, `HttpRouting` and `HttpUpload` |
| `ExecutionProofs` | theorems | extends `ExecutionPlanner` and `Security` |
| `HttpProofs` | theorems | extends `HttpExchange` and `HttpSession` |
| `SelectionProofs` | induction over numbers and sequences, and what `Select`, `Flat`, `Split` and `Join` give | extends `Selection` |
| `MC*` | the values of the constants for TLC | |

`MCExecution`, `MCHttp` and `MCServices` check several modules that share
no state in the code. They extend some (`MCExecution` the container, the planner, the pipes and security,
`MCHttp` and `MCServices` all of their parts), so
that a run and a theorem speak of the same definition, and instantiate the others. A behaviour of such a run is a behaviour of one of them:
the variable `component` says which, and the others keep still in an initial
state of theirs. So the states of the modules add up and do not multiply, and
the properties of each are checked on all of its behaviours. `MCScheduler` does the
same with two instances of `Scheduler`. The constant `Components` restricts a
run to some.

Some definitions stand next to the one they resemble and differ from it by one
plausible slip (`Popped` and `NotPopped`, `LoopEnds` and `MapIsEmpty`); each is
preceded by "Not the code". No specification uses them. Put in the place of the
right one, each makes a property fail; `PROJECT.json` ("mutants") says which.
They show that the properties can fail.

### PluginRegistry and AxiSparkCore

`plugins`, `executionOrder`, `instances`, `state` and `stateError` are the
fields of `PluginRegistry` and `Plugin`. `pending` stands for the map `inDegree`
of Kahn's algorithm: the set of dependencies that are still to be sorted, whose
size is the in-degree. `queue` is the algorithm's queue. `phase` and `pos` say
which lifecycle call runs and where its loop stands, and `hook` whether it awaits
a hook.

| Action | Code |
| --- | --- |
| `Register` | `register`, which ignores a type it has |
| `MissingDependency`, `BuildGraph` | the start of `init`: the check of `required` dependencies, in-degrees and the initial queue |
| `SortStep`, `SortEnd` | one round of the sort's loop; the test for a cycle |
| `ResolveFails`, `NoInstance`, `ErrorReturn`, `HookBegin` | one round of `executeLifecycleMethod` up to its await: `init` resolves the instance, later loops find it or not, and return at a plugin in error |
| `HookResolves`, `HookThrows`, `LoopEnd` | the rest of the round, its catch block, the end of the loop |
| `RunCall`, `DestroyCall` | `run` and `destroy` reaching the loop |

A hook that throws sets its plugin's state to `error` and the loop goes on with
the next plugin; a plugin found in `error` ends the loop. Both are in the model,
and both matter below.

`AxiSparkCore` is the bootstrap of `core/PACKAGE.md` and of the templates, `try
{ init; run } finally { destroy }`, around the registry. Signals arrive at any
moment; before `run` registers its listeners a signal kills the process, as Node
does, and so does a second one of the same kind, since the listeners are `once`.
The scanner is one step that may reject. `RegistrySpec` states that what the
bootstrap does to the registry is what `PluginRegistry` allows its callers to
do, a refinement with the registry's variables mapped to themselves: the calls
come in the order register, init, run, destroy. `PluginRegistry` assumes that
order in the guards of `Register`, `InitCall`, `RunCall` and `DestroyCall`.

### Scheduler

`jobs` is the registry's map, `runningJobs` and `enabledJobs` the runner's,
`timers` and `executions` what Node holds: pending timeouts, and callbacks that
await `job.execute()`. Time is relative: a timer keeps what is left of it, a
trigger the age of the time it counts from, so time itself is unbounded. `Tick`
passes one unit; it waits for timers that are due and for executions that have
lasted `MaxRun`. `Fire` is the callback up to the await, `Finish` its finally
block, which deletes the entry and schedules again. `Start` and `Stop` are
`SchedulerRunner.start` and `stop`, used by the plugin's `startAll` and
`stopAll` and by `startJob` and `stopJob`. `TimerLeft` models what `setTimeout`
does with a delay of more than 2^31 - 1 ms.

### Container

Each caller has a stack of activations (`frames`) of `ClassResolver.resolve`,
and all of them share `resolving`, as in the code, where a container has one
`ClassResolver` and that has one array. `running` is the caller whose code
runs; a caller gives it up exactly where the code awaits, so that two callers
interleave where they can and nowhere else. `Resolve` is the dispatch of
`Container.resolve` and `ScopedContainer.resolve` on the kind of provider;
`Circular`, `ScopeViolation`, `Enter`, `Depend`, `CallFactory`, `Construct` and
`ConstructFails` the steps of `ClassResolver.resolve`; `Store`, `Receive` and
`Unwind` what its callers do with a result or an error. `made`, `singletons` and
`leaks` are history: nothing reads them but the properties.

### ExecutionEngine, ExecutionPlanner, Pipes and Security

`ExecutionEngine` is one call of `execute` on any plan. The execution (before steps,
then the handler) and the main flow (the race, filters, after steps, the result)
are two processes, because losing the race does not stop the execution.
`ExecutionPlanner` is `plan` for several requests: the lookup in the cache and the
insertion are separate steps, with an await between them. The order of the
steps (`ExecutionSteps`, which `Security` uses too) is checked against relations on
pairs of steps (`Precedes`, `Outer`), stated without any reference to how the code
sorts. `Sort` is the stable sort of arrays, written as an insertion of one step
after the other.

`Pipes` is what `HandlerInvoker` does before it calls a handler: arguments are
read from the request (`ReadArguments`), and each goes through the steps of the
class, the method and the parameter, one `ProcessStep` at a time, since the
processor awaits the injector between two of them. A string is a word with its
white space, its case and a rest, which is what the steps tell apart. Only `Regex` has
a state, so the others are one operator (`Transform`), and the property says
what a list of steps accepts without any state (`ThroughSteps`).
`Security` runs the four steps of the plugin in the order the planner gives them,
whatever the order of registration, for chains of classes with and without
`@Secured`.

### The HTTP modules

`HttpRouting` makes the groups of routes from the controllers, validates them and
answers a request: the adapter picks the group by method and path, in order of
declaration as Express does, and `HttpEngine` the route by host and version.
Paths are sequences of segments, hosts of labels. The answer of a request is a
function of the routes, `Answer`, by the steps of the code: the group, the routes
of it that accept the host, the most specific of these, and the version.

`HttpExchange` extends `ExecutionEngine` with the lifecycle of the plugin over an
adapter and with data: the class of the error, the value, the response and who
committed it. Its actions call the engine's (`HandlerReturns`, `FilterReturns`...)
and add what the HTTP steps do. Express's start and stop hand over to the
server and do not wait for it; Fastify's are awaited.

`HttpRateLimit` is one action per request, since nothing in it is awaited before
the decision. `Abstract` maps the buckets to the windows of `SlidingWindow`: the
timestamps of a bucket that have not expired, where the code keeps expired ones
until it meets them. `HttpUpload` has the events of busboy as actions on Express
and the loop over parts on Fastify. `HttpSession` distinguishes the session
object the adapter wrapped from the one the request has.

### The services

`Connections` is one of three plugins (`plugin`) over one state: the configured
connections, what became of each link, the manager's maps as one sequence of names each, in the
order of insertion (which is the order in which a loop over a Map visits), what
`createConnections` has still to create of each configuration (`todo`), and the tokens. `Inject` is a Kafka producer or consumer that is asked for later,
also while `onStop` runs. `DerivedQueries` treats a method name as a sequence of
fragments between the places where the parser can cut, so that the column
`order` contains the separator `Or`; the reference is `PrintName`, how a name is
written for a query. `WebSocket` keeps for each message the handlers that have
still to run and those that ended; an event is named by its position in the list of
registered events, so that the filters of `registerEvents` are sets. `Logger` has one step per awaited call of the
file system. `Declarations` keeps lists on a heap (`store.lists`), because that is what
decorators share by mistake or on purpose; `program` has the declarations of each class
in the order in which TypeScript applies them, `Apply` runs the next one of a class
(`Effects`, `Perform`: what it registers, defines and pushes, in the order of the
decorator's code), and `Disable` is `HttpPlugin.disableComponentIf`. `OpenApi` works in the
rounds of the generator.

## 3. The runs

A deadlock is not checked where the system may stop, and each of these may: the
process ends, calls return and are not repeated without bound, jobs stop. Only
`schedule` never stops, as time passes: there a deadlock is checked.

**Runs that pass.**

| Run | Component | Instance | Shows |
| --- | --- | --- | --- |
| `core` | | 3 plugins; every graph of required dependencies with self-loops and cycles, and graphs without self-loops where one plugin's dependencies are optional; any hook that throws, any resolve that fails; signals at any moment | the order is topological (`TopologicalOrder`); init rejects as circular exactly when there is a cycle (`CircularErrorIsExact`); no plugin starts before its dependencies did or stops before its dependents did (`StartsAfterDependencies`, `StopsAfterDependents`); `destroy` rejects only after an init that rejected, and with no hook that throws everything is stopped in the end (`CleanShutdown`); a failed plugin's hooks are not called again (`FailedPluginIsLeftAlone`); the bootstrap waits only while it serves and can be shut down (`WaitingIsServing`); it ends after a signal or a failed init (`ShutdownCompletes`); it implements `PluginRegistry` (`RegistrySpec`) |
| `schedule` | api | two jobs of one name, an interval and a timeout job; `startJob`, `stopJob`, `removeJob` and updates in any order; executions as long as the interval | a name has one timer or one execution (`OneChainPerJob`) and a stopped one has no timer (`StoppedIsSilent`), unless `stopJob` was called during an execution; and, without exception, after `onStop` the timers of every registered name run dry (`RunsDry`) |
| | kinds | a job of each kind, one disabled at first, `stopJob`; executions shorter than every interval | none is early, date and timeout jobs run once (`KindsFireOnTime`), enabled ones recur (`Recurs`) |
| `execution` | di | one call on every graph of three providers with at most two dependencies each, with cycles, captives, aliases, unbound tokens and failing constructors; three calls in a row on sound graphs with failing constructors and factories; three calls of two callers that overlap, cyclic graphs included | with one caller: the errors are real until one leaves entries behind (`ErrorsAreReal`), no captive and no class entered twice (`NoCaptive`), singletons are made once (`SingletonOnce`); with two as well: scoped instances are kept (`ScopedOnce`), calls end (`CallsEnd`) |
| | planner | three requests, two for one handler; every list of two global and two local steps of all types, scopes and priorities, some of another transport | steps run in the reference order (`StepsNest`); a plan has exactly the steps of its handler (`PlanFits`), also for the request that did not make it |
| | pipes | two executions of handlers with pipes of every kind at every level, on requests with values of every type | `HandlerGetsItsArguments` |
| | security | every order of registration of the two middlewares and of the two guards, every declaration over two classes and a method, both strategies, two authenticators, any decision of policies | `SecuredRunsAuthorized` |
| `http` | routing | two controllers whose paths overlap by parameters and wildcards, with hosts and versions, versioning off, by header or by URI | `EveryRouteAnswers`, `BestRouteAnswers` |
| | rateLimit | one client on two endpoints of a class, with the policies of class, method and default | the limiter implements `SlidingWindow` (`ImplementsSlidingWindow`) |
| | exchange | both adapters, with and without a timeout, with handlers that return, throw, write the response themselves or hang; plans of at most two steps and any filters; stop at any moment | an error is answered as one and a success as one (`OutcomeIsAnswered`); after steps run once (`AfterStepsRunOnce`); the loser of the race changes nothing (`FailureIsNotAResult`); every request is answered (`EveryRequestIsAnswered`) |
| | upload | requests of up to three parts, files and fields, of every size around the limits, with limits of the plugin, class and method; both adapters | `UploadIsAllOrNothing` |
| | session | four operations in any number of requests, two keys and values; both adapters | `SessionIsKept` |
| `services` | connections | each of the three plugins, two connections of equal or different names, every `autoInitialize`; brokers that refuse to connect or to close; producers injected at any moment | `NothingLeaks`, `TokensAreConnected`, the loops of `onStop` end (`LoopsEnd`) |
| | queries | names of one or two predicates over three sets of columns, plain and misleading ones; every operator; malformed names; several data sources | `QueriesMeanTheirNames` |
| | websocket | a client of gateways whose names and expressions overlap, two messages, handlers that return or throw | `HandledByAll` |
| | logger | four calls, up to two at a time, to five sets of transports; a file of one entry that is rotated twice | `LogIsKept` |
| | declarations | a base class, two that extend it, one that extends one of these and an unrelated one with the name of another, loaded in any order; every decorator that declares something, on class and method, in several places of the hierarchy | `DeclarationsAreKept` |
| | openapi | routes and schemas that refer to each other in every way, with shared properties | `DocumentIsClosed`, generation ends (`LoopsEnd`) |

**Runs that find a disagreement** with a sentence of the code or of a test, which the
finding in `PROJECT.json` quotes. Each checks one property.

| Run | What happens |
| --- | --- |
| `registry_stop` | a plugin in error ends the destroy loop: the plugins it depends on stay started |
| `schedule_overrun` | an interval job whose execution lasts as long as its interval is not scheduled again |
| `di_circular` | two calls overlap, and the second resolve of a class is told of a cycle that is not there |
| `di_leak` | a ScopeDependencyError leaves entries in the shared stack, and a later, sound call fails with one too |
| `planner_transports` | the cache's key omits the transport: a handler on two transports runs the first one's steps |
| `routing_hosts` | a route with the hosts `*` and `admin.org` beats the route of `:tenant.org` for `shop.org`: its specificity is that of a host the request does not have |
| `websocket_timeout` | the resolver of timeouts is never registered: a client that asked for an acknowledgment hears nothing of a handler that timed out |

**Bounds.** Every bound is a constant of its module or stands in an MC module.

- Three plugins hold every shape that matters to the sort and the loops: a
  chain, a fork, a join, a cycle with something before and behind it, and a failed
  plugin with neighbours on both sides. Symmetry over plugins is used in
  `registry_stop` only, and is sound because no definition chooses one.
- In `Scheduler` jobs of different names do not share state, so one job per kind,
  and two for one name, are enough; `MaxTimers` bounds the timers and executions
  of a name: two show doubling, "api" has three (an operation that would need
  more is not taken); intervals are 2 or 3 units and executions 1 or 2, so that
  both orders of "interval ends" and "execution ends" occur, and the tie.
  `MaxRun` and `StartDelay` are assumptions about the program, named as such.
- `maxCalls` of a workload bounds the calls on a container: three let one call
  make, a second fail and a third find what is left. Three tokens allow chains,
  diamonds and cycles through two classes.
- `MaxSteps` = 2 tells the first, the last and the only step apart.
- Two routes are what the comparator, the matchers and the validator compare;
  paths of two segments have a static, a parameter and a wildcard form.
- The rate limit sweeps every 3 requests instead of 256, a second has 3 units
  and time ends at 5, more than the longest window (4): windows fill, expire
  in part, and are swept at the wrong moment if there is one. Keys of two clients
  differ as keys of two endpoints do, so one client is enough.
- Three parts exceed a limit of two files, and put a field between two files.
- Four session operations are a set, a replacement, a set on what is no longer the
  request's, and a save.
- The first connection is named "a": names are interchangeable until the second.
- Two overlapping log calls are what one rotation can meet; a file of one entry
  rotates at every entry, and the fourth entry drops the first. Calls that also
  go to a server are awaited in the run, since the server's answer and the
  rotation do not meet.
- Two messages meet at each of the awaits of the loop over expressions.

**Fairness.** `AxiSparkCore` assumes weak fairness of the bootstrap's own steps
(awaited promises settle: a hook may be slow but ends), and none of signals or
of calls of `use`. `Scheduler` assumes that time passes, timers that are due
fire and executions end within `MaxRun`; the program's calls are free.
`Container` assumes that each caller's call goes on when it can: the promises of
factories settle. `ExecutionEngine` and `HttpExchange` assume it of the timer, the
filters, the after steps and the result, and of a server that closes, and not of
the before steps and the handler: `EveryRequestIsAnswered` is about requests whose
execution ended or that have a timeout, and holds for a handler that hangs if
there is one. `Connections` assumes that brokers answer and that a loop that
awaits nothing goes on, and not that anybody starts, stops or injects. `OpenApi`
generates without awaiting anything.

## 4. What the models show beside the properties

Some properties that hold name an exception. What is excepted is what the
code does, and worth knowing; each can be seen by dropping the exception.

- *Schedule.* A job that is stopped and started again while it executes has two
  timers from then on, of which `stop` knows one (`\ interrupted` in
  `OneChainPerJob`, `StoppedIsSilent`). `startJob` after the interval has passed sets
  no timer (`EnabledKeepsRunning` with "start" among the `Operations`). A delay over
  `MaxDelay` fires at once (`OnTime` with `MaxDelay` = 2). `removeJob` leaves
  the job's timer, also after `onStop` (`jobs[n] # NoJob` in `RunsDry`).
- *Container.* Two resolves that overlap make two singletons, or let a singleton hold
  a transient (`OneCaller` in `SingletonOnce`, `NoCaptive`). A falsy scoped
  instance is not cached (`\ Falsy` in `ScopedOnce`). Injection tokens of one name
  are one token.
- *Core.* `destroy` after an init that was left part of the way rejects with a
  TypeError (`phase = "destroyFailed"`).
- *Pipes.* Comparisons with `undefined` and NaN are false, so both pass `Min`, `Max`
  and `Range`; `ParseInt` takes a numeral with a rest behind it; an expression with
  the g flag in `@Regex` keeps its `lastIndex`, so that equal requests are accepted
  and refused by turns; an undecorated parameter before a decorated one makes
  every request fail.
- *HTTP routing.* The validator takes routes on disjoint hosts or versions for
  compatible, but Express dispatches by path alone, so that one of them can be
  hidden (`ComparedByPath` in `EveryRouteAnswers`); one of a route's several hosts
  can hide another route (`HaveOneHost`). The document's own routes
  (`OpenApi`) do not go through the validator.
- *HTTP exchange.* `@Timeout` without `options.timeout` ends the race with
  `undefined`, since the resolver was not registered: a handler that timed out is answered as a
  success (`OutcomeIsAnswered` speaks of executions with an error). On Express the
  plugin is started before the server listens, and stopped while requests are under way.
- *Rate limit.* The clock is wall-clock time; the model's does not go back. On
  Fastify the path of the key includes the query string.
- *Upload.* A client that aborts a multipart request leaves the promise pending
  on Express: the library emits neither `close` nor an error.
- *Session.* After `regenerate` or `reload` the wrapper holds the session the
  request had: what is set then is lost, and `save` stores it under the old id
  (`bound = wrapped` in `SessionIsKept`). On Fastify `reload` regenerates.
- *Connections.* A Kafka producer that is injected while `onStop` runs or later is
  connected and never closed (`tokens[r] = "requested"` in `StoppedIsClosed`); a close that fails
  ends the loop and leaves the others open, but still in the maps. A data
  source that fails to initialize leaves the earlier ones open, and the registry
  does not stop a plugin in error.
- *Derived queries.* Columns that contain `Or` or `And` and
  columns that end in an operator are read as what they are not (`PlainColumns`);
  the engines differ on arguments that are null.
- *Logger.* Overlapping calls rotate twice and drop entries early (`overlap = 1` in
  `RotationKeepsTheNewest`); a call rejects while other transports are still writing.
- *Declarations.* The list of a base class is shared with every class that extends
  it (the filter by `IsOf` in `ListsAreKept`): generators that read it per class
  also see what siblings declared. `ClassRegistry.remove` takes a name away for
  the whole process.
- *WebSocket.* A message that arrives while the connection handler is awaited is
  lost. Only the first event named `connection` of a namespace is a
  connection handler. Closing Socket.IO closes the HTTP server it is attached to.
- *OpenAPI.* Generation clears the names in metadata that classes share; a property
  of type array without items throws in `onRegister`.

## 5. The proofs

Each theorem is of a specification the runs check, and holds for every value of its
constants: any number of plugins, jobs, callers, steps, connections or requests, any
dependencies, any delays. The bounds of section 3 play no part in them. A theorem
with a property states one that a run checks (`OnTime` is the `KindsFireOnTime` of `schedule`).

| Module | Theorem | States | Property |
| --- | --- | --- | --- |
| `CoreProofs` | `TypeCorrect` | every variable of the registry keeps its type | |
| | `SortIsTopological` | no plugin is sorted before a registered dependency, none twice | `TopologicalOrder` |
| | `CircularErrorCorrect` | the circular error is thrown only where some plugins wait for one another; a sort that succeeds has placed every plugin of an acyclic graph | `CircularErrorIsExact` |
| | `StartOrderCorrect` | `onStart` comes after that of all registered dependencies, none of which failed to register | `StartsAfterDependencies` |
| | `StopOrderCorrect` | `onStop` comes when no dependent is running | `StopsAfterDependents` |
| | `HealthCorrect` | a running application reports Healthy or Unhealthy, never Unknown | |
| | `ShutdownCorrect` | `destroy` rejects only after an init that rejected; without failures it stops everything | `CleanShutdown` |
| | `FailureIsFinal` | no step calls a hook of a plugin in error or takes it out of that state | `FailedPluginIsLeftAlone` |
| | `CoreImplementsRegistry` | the bootstrap implements the registry's specification | `RegistrySpec` |
| | `CoreKeepsTheRegistry` | so all of the above holds in an application | |
| | `WaitingCorrect` | an application that waits is kept alive, has a health and can be or is being shut down | `WaitingIsServing` |
| `SchedulerProofs` | `RunnerCorrect` | the runner's map names what Node holds (`SchedulerInv`) | |
| | `OneChainCorrect` | one timer or execution per name that was not stopped while it executed | `OneChainPerJob` |
| | `SilentCorrect` | a name that is not enabled has no timer, with the same exception | `StoppedIsSilent` |
| | `OnTimeCorrect` | no job begins early, and a one-shot job begins once | `OnTime` |
| `ContainerProofs` | `ContainerCorrect` | frames, bindings and what callers received, for callers that overlap (`ContainerInv`) | |
| | `ScopedOnceCorrect` | a scoped instance that is not falsy stays, however calls overlap and fail | `ScopedOnce` |
| | `AloneCorrect` | with one caller, the stack of the resolver is that caller's activations (`AloneInv`) | |
| | `NoCaptiveCorrect` | with one caller, no class is in two activations and nothing shorter-lived is made for a singleton | `NoCaptive` |
| | `SingletonOnceCorrect` | with one caller, a singleton is made once and every resolve gives it | `SingletonOnce` |
| | `ErrorsAreRealCorrect` | with one caller, until an error left an entry behind, a circular or scope error is real | `ErrorsAreReal` |
| `ExecutionProofs` | `StepsNestCorrect` | every plan nests: global steps around local ones, by priority, then as declared | `StepsNest` |
| | `PlanFitsCorrect` | a request gets its own handler with exactly its steps, each once, where a key of the cache is one handler and one transport | `PlanFits` |
| | `SecuredCorrect` | a secured handler runs only for an identified caller whom every policy has allowed, and a refusal tells its reason | `SecuredRunsAuthorized` |
| | `HandlerGetsItsArgumentsCorrect` | a handler is invoked with its own request's values, through the steps of class, method and parameter | `HandlerGetsItsArguments` |
| `HttpProofs` | `ExchangeImplementsEngine` | an exchange does nothing that `ExecutionEngine` does not allow | |
| | `EngineCorrect` | types, the single run of the after steps and the loser of the race, for the engine alone | |
| | `AfterStepsCorrect`, `FailureIsNotAResultCorrect` | the same for HTTP requests | `AfterStepsRunOnce`, `FailureIsNotAResult` |
| | `OutcomeCorrect` | a failed execution is answered with a status of an error, a successful one is not | `OutcomeIsAnswered` |
| | `SessionCorrect` | how the wrapped, the bound and the stored session are related (`SessionInv`) | |
| | `SessionIsKeptCorrect` | a handler reads what earlier requests left | `SessionIsKept` |
| `HttpGuardProofs` | `RateLimitCorrect` | a bucket is of an endpoint with a policy and has its ttl | |
| | `RateLimitImplementsWindow` | every decision is one of a sliding window that forgets at once | `ImplementsSlidingWindow` |
| | `BestRouteCorrect` | no route of the group that accepts the host matches the request better than the one that answers | `BestRouteAnswers` |
| | `UploadCorrect` | a handler gets all of an upload that keeps the limits, a refusal exposes nothing and has its reason | `UploadIsAllOrNothing` |
| `ServicesProofs` | `ConnectionsCorrect` | types, and what every loop says of maps and links (`ConnectionsInv`) | |
| | `NothingLeaksCorrect` | what was opened stays in the maps until it is closed; `onStop` closes all that was not injected | `NothingLeaks` |
| | `TokensAreConnectedCorrect` | until `onStop`, a token with a value gives an open connection | `TokensAreConnected` |
| | `LogIsKeptCorrect` | a resolved call is written once by every transport that takes it; rotation under awaited calls keeps the newest entries, in order | `LogIsKept` |
| | `HandledByAllCorrect` | a message runs each handler it is for once, the expressions in their order | `HandledByAll` |
| | `DocumentIsClosedCorrect` | every reference of a finished document leads to a schema, a schema requires what it has, every route is described | `DocumentIsClosed` |
| | `DeclarationsAreKeptCorrect` | a class has its chain's declarations and its own, in order and once each, and is found by its roles | `DeclarationsAreKept` |
| | `QueriesMeanTheirNamesCorrect` | what is read of a method name is what the name says, every query over plain columns is read as written, both engines select the same rows | `QueriesMeanTheirNames` |

**Assumptions.** The named assumptions of the modules about their constants, which TLC
evaluates on every run: `GraphsAssumption`, `WaitAssumption`, `SchedulerAssumptions`
(definitions have positive delays, declared jobs have different names, a cron job is
due every `CronPeriod`), `ContainerAssumptions` (no chains of aliases),
`PlannerAssumptions` (lists of global and of local steps, each in the order of
declaration; a local step has priority 0), `SecurityAssumptions` (each of the four
steps is loaded once, policies and authenticators are lists of names),
`PipesAssumptions` (pipes are lists of the repository's steps, a request has a value, if
only undefined, for what a parameter reads), `UploadAssumptions` (limits and sizes
are numbers or not given, a body is asked for by the name of a field),
`LoggerAssumptions` (a file holds an entry at least; with `maxFiles` 0 the code keeps one
rotated file, as with 1), `WebSocketAssumptions` (the classes, and the events of each, are lists),
`RoutingAssumptions` (controllers, routes, hosts and their labels are lists),
`DocumentAssumptions` (routes, parameters, responses, properties and items are lists),
`DeclarationsAssumptions` (a chain starts with its class and goes on as that of what the
class extends; each decorator stands where TypeScript accepts it), `QueriesAssumptions` (the columns of an entity
have paths of their own and tags that begin with a capital, rows and arguments are numbers or null, no group of a
query is empty),
`EngineAssumption`, `SessionAssumptions` and `RateLimitAssumptions` (what stands for
undefined is not a number). Two theorems assume more. `PlanFitsCorrect` is for programs
in which requests with one key in the cache have one handler and one transport
(`OnePlanPerKey`); `planner_transports` shows what happens to others. `OnTimeCorrect` is for programs in which
triggers are not replaced while a timer is pending and whose delays fit
in 31 bits (`Punctual`), since with either the code is early (section 4).

**Registry.** The properties are not inductive as they stand. The argument has three parts.

*Sorting* (`SortPart`). That `executionOrder` is topological follows from what
`pending` means at every moment: the plugin's registered dependencies that are
not in `executionOrder`. `SortInv` says so, that no plugin is queued twice or
both queued and sorted, and that the plugins with nothing pending are exactly
those that are queued or sorted. `OrderInv` carries the order through the
lifecycle. Cycles are defined as sets in which every plugin has a
dependency (`Cyclic`), which needs no induction along a path: no member of such a
set can be the first of the set to be sorted (`NoCycleSorted`), and
when the queue runs empty early the unsorted plugins form one (`CircularInv`).
`FullInv` says that after an init that resolved the order has every plugin.

*Looping* (`LoopPart`). The hooks' properties relate the position in the loop
to each plugin's state: in the `onStart` loop plugins before `pos` were started
or failed, those behind it are as init left them; in the `onStop` loop, which
goes backwards, the other way round. `LoopInv` and `EndInv` say that for each
phase, `HookInv` which states allow a hook to be in progress. With the
topological order, "before" in the loop contains "is a dependency of", which
gives `StartsAfterDependencies` and `StopsAfterDependents`.

*Instances* (`InstanceInv`). `destroy` rejects when a plugin of the order has no
instance. Instances are made in the `onRegister` loop, which could stop early only at a
plugin in error; it never does, because a plugin cannot have failed before its
first turn.


**Bootstrap.** The refinement is step by step: each action of `AxiSparkCore` that touches the registry
is one of the registry's calls under the registry's own guard, the others leave it alone.
`WaitInv` adds that the interval is set from `run` to `destroy`; the health of a
waiting application is `HealthCorrect` through the refinement.

**Scheduler.** `OneChainPerJob` needs to know why a second timer cannot come about: the
runner's entry of a name is the id of what is alive (`Tracked`), ids tell timers and
executions of a name apart (`DistinctIds`), and `start` does nothing for a name with
an entry. `stop` during an execution deletes the entry and not the execution; the
name is `interrupted` from then on. That nothing is early is `NotEarly`: the time a
timer has left is never less than what its trigger asks for (`NextIn`), which `Tick`
reduces alike (`TimePasses`).

**Container.** For callers that overlap, `FramesInv` says that every frame is of a
provider that was bound and `ScopeInv` what a scoped container holds: the first
instance, and while a caller is inside a scoped token, nothing of that token yet.
The array `resolving` is only understood with one caller (`StackInv`): entries that
errors left behind, `leaks` of them, then one entry per frame. An error that
is thrown before the try block leaves its own entry, so the finally blocks pop the
wrong ones; while an error unwinds only the lengths agree, and the
entries agree again when all frames are gone. `SingletonInv` counts how often a singleton was
made by where its call stands.

**Planner.** The lemmas about `ExecutionSteps` are for any list of steps that is in the order of
declaration. `InsertSorts` finds the one place of a step among those that are
sorted, by induction on their number; `SortSorts` is an induction on the steps that were
inserted, and `SelectionSorted` says that filtering keeps any order. From these
`BeforeNests`, `AfterNests` and `CatchNests` derive, for each list of a plan, that
it is sorted by its relation and which steps it has; since no step precedes itself it has
none twice (`SortedHasNoDoubles`), so the length is the number of steps. The invariant of the cache
(`PlansOk`) is that whatever is registered or was given is the plan of some request with
that key, which holds however lookups and insertions interleave.

**Security.** The plan of the four steps is one sequence whatever the order of their
registration (`PlanIsOrdered`): it nests, has the four steps once each, and their
order is total. `SecurityInv` then says what is known at each stage: who is
authenticated is known by an authenticator of the transport (`IdentityOk`), the
mark the guards look at says whether the execution is to be secured (`MarkOk`), the
decisions are those of the policies in their order and their conjunction is kept
(`DecisionsOk`), and each guard that was passed has seen what it checks (`ChecksOk`).

**Pipes.** The invariant (`ArgumentSoFar`) says of each argument where it stands: as it
was read, through the steps that were run, or through all of them. That a step which
was passed made of the value what it makes without a `lastIndex` is
`AcceptedIsApplied`; that two lists of steps one after the other are their
concatenation is `ThroughBoth`, by induction on the second one.

**Exchange.** `AfterInv` counts the runs of every after step by the position of the
main flow, `RaceInv` says what result and error are while the race is open. On
the way to `OutcomeIsAnswered` stands the value: without filters of the application a
failed execution has that of `ReturnErrorFilter` (`ValueInv`), the result step is the last to answer
(`ResponseInv`), and every class of error has a status of 400 or more (`ErrorsHaveErrorStatus`).

**Session.** The data is in two places that take turns: the wrapped object during a
request (`WhileRunning`, `WhileDestroyed`), the store between requests (`WhileStored`).

**Rate limit.** The buckets keep expired timestamps until somebody sweeps, the window of `SlidingWindow`
forgets at once, so the mapping filters. What filtering does to sequences that were
appended to, filtered or cut is proved by induction on the length. The induction is
one over a set of numbers or sequences, shown to be all of them (`NumberInduction`,
`SequenceInduction`), since the library's theorem takes an operator as a parameter;
`filter` itself is `Selection.Select`, a recursive function. Everything that is kept after
filtering by a later time is what filtering twice keeps, so sweeping changes no
decision.

**Uploads.** Until a failure, every part that was parsed is in `parsed` or an open stream,
and the files among them keep the limits (`KeptInv`); fields never wait for a stream,
so they are in the order of the parts (`FieldsInOrder`). What is exposed is exposed
with no stream open and no part left (`ExposedInv`), and a reason that was
given stays true (`ReasonInv`). Which places `Select` takes is in `SelectionProofs`.

**Routing.** The invariant says that the groups are lists of routes, none empty, and that an answer
is `Answer` of its request (`RoutingInv`); the rest is about functions. What `generate` makes of
any controllers has that form (`GeneratedAreGroups`), by what `filter` and `flat` have
(`SelectHas`, `FlatHas`). With one host per route, the routes that `HostMatcher` keeps are exactly those of the
greatest specificity among the accepting ones, and there is one (`MostSpecificHas`,
`HighestExists`); `VersionMatcher` picks one of them, which names or accepts the version if
any of them does (`VersionMatchIsBest`). With several hosts the theorem's property claims nothing, and
`routing_hosts` shows why. The definitions choose with IF where the code returns early: the arms of
a CASE that can hold together leave its value open, and the proof does not go through.

**Connections.** The maps hold whatever is open (`MapsInv`), names are in them once,
whoever is still connecting is awaited or was injected (`ConnectingInv`), and a
loop that has ended left nothing open but what was injected (`LoopsInv`).

**Logger.** Who is done has received the entry once (`ReceivedInv`), and who has nothing to do
for a level is done from the start (`ResolvedInv`); both hold however calls overlap, as does that no
entry is in the files twice (`PlacesInv`), because renames only move files. The
rest needs calls that are awaited: then only the last one can be under way
(`AwaitedInv`). Between two of its renames there is one gap among the files, the place
where the next rename puts the file below (`GapInv`), and every file but the current
one is full (`SizeInv`). So only the first rename can lose a file, only when all
of them are full, and then the oldest (`OrderInv`); that full files hold as many
entries as fit is an induction on their number (`FullFiles`).

**WebSocket.** Each event that a message is for has run, runs, or waits in the loop over the expressions, and
is in one of these places only (`PlacesOk`). The loop runs one expression at a time; it
is behind those that ran and before those that wait, and none waits when none
runs (`LoopOk`), because the loop takes the first that matches of those that are left
(`LoopTakes`). What a message is for cannot change under it: a socket with a message
stays in its namespace, and the events are registered before any socket connects
(`ConnectedInv`). That one test of an expression leaves the `lastIndex` the next one starts from as it was
is why "matches" needs no history.

**OpenAPI.** Whatever the document refers to has a schema, or waits in this round or for the next one
(`ReferencesOk`), and whatever was taken up is described or waits in this round (`TakenUpOk`): when both are
empty every reference is closed. A route is described when its turn has been, unless a later one took its path
and method (`RoutesOk`). A schema requires names it has, because its properties and what it
requires are both read before the names are cleared.

**Declarations.** What a decorator does is a list of effects, of which one at most changes a list
(`DecoratorsOk`). A list of the heap belongs to one key and property (`StoreOk`), and
what a class pushes is found by the classes that extend it and by no other: those read the
list from the same owner (`ReadAsBase`, `Reread`). The order is the point. `Found` has the
declarations in the order of pushing, `Inherited` in that of the chain; the two agree because a class
is loaded when all it extends is (`BasesAreApplied`) and before anything that extends it, so
whoever pushes is the latest of every chain it is in (`IsLatest`) and the lists behind its own are
empty (`FlatAppend`). `LinksInv` is that agreement, for every class, key and
property at every moment. Of the registry, a name is in it once, and a class with a name of its own stays until it
is removed, whoever registers again (`RegistryInv`). Another class of the same name takes the place of the first,
which is why the property excepts it.

**Derived queries.** The invariant says what a call is made of: it reads a name that is malformed or printed from a
query, and its result is `ExecuteQuery` of what was read (`QueriesInv`); the rest is about functions.
Splitting a text at a word and joining the parts gives the text (`JoinSplit`), so that whatever the parser reads prints
as the name (`WhatIsRead`), however misleading the columns. The other direction needs
`PlainColumns`: parts without the word survive joining and splitting (`SplitJoin`), a segment can then be read
as one column with one operator only (`SameReading`, by the lengths of tag and suffix), and the text of the groups has
no `OrderBy`, because its `Or` is always followed by the first fragment of a tag, which is never `der`
(`JoinSeparates`, `PlaceOfOrderBy`); so what is printed is read (`WhatIsSaid`). That the engines
agree is a count: the places of the arguments form one finite set (`Taken`), those before a predicate
and its own are disjoint parts of it (`ArgumentsSuffice`), so that a call with as many arguments as the method takes
has one for every place, none is `undefined`, and on values that are not null the comparisons
of both databases are the same (`SameRows`).

**Only model-checked.** Liveness (`ShutdownCompletes`, `Recurs`, `RunsDry`, `CallsEnd`,
`EveryRequestIsAnswered`, `LoopsEnd`): the prover does not reason about fairness here. Of the safety properties,
`EveryRouteAnswers`: it asks for a request that reaches a route, so it depends on which requests the instance has.

## 6. What is not modelled, and the plan

Left out of the modelled components: chains of aliases and `bind` after the start in
`Container`; the parsing of cron expressions (a cron job is one that is due every
`CronPeriod`); `BaseRepository`, which delegates to TypeORM; the parameters that
only look a header, query or cookie up; the delegation of cookies, headers and
rooms to Express, Fastify and Socket.IO; Fastify's own precedence of routes
(`HttpRouting` dispatches as Express does); child loggers and formatters. A user
who calls `destroy` during `init`, or `init` twice, is outside `PluginRegistry`;
no code of the repository does. What a step, a handler or a policy computes is a
nondeterministic choice.

Not modelled at all, with the reason in `PROJECT.json` ("components"): the scanner
and the CLI (input and output of files), `ddd` (base classes without shared state),
the testing utilities, the templates, and type declarations and plain data.

Some hazards have no property. A handler's timeout without `options.timeout` is
answered as a success (section 4): the model has it, and `OutcomeIsAnswered`
leaves it out. Others are outside what is modelled: a cron expression
without a next date throws in a timer callback (`schedule/src/scheduler/scheduler-runner.ts:78`),
a clock that is set back (`http/src/implementations/rate-limits/http-rate-limit-resolver.ts:25`),
a plugin registered after `init` (`core/src/plugin/plugin-registry.ts:33`).

---------------------------- MODULE AxiSparkCore ----------------------------
(***************************************************************************)
(* AxiSparkCore (packages/core) driving the plugin registry the way the    *)
(* bootstrap of PACKAGE.md and of the templates does:                      *)
(*                                                                         *)
(*     try { await app.init(); await app.run(); } finally { app.destroy() }*)
(*                                                                         *)
(* together with the termination signals, which arrive at any moment. A    *)
(* signal with no listener has Node's default effect and ends the process. *)
(***************************************************************************)
EXTENDS PluginRegistry

CONSTANT Wait   \* privateConfig.wait

ASSUME WaitAssumption == Wait \in BOOLEAN

VARIABLES
    main,       \* where the bootstrap stands
    keepAlive,  \* the interval that keeps the event loop alive is set
    shutdown,   \* the shutdown promise has been resolved
    handlers    \* the signals with a process.once listener

coreVars == <<main, keepAlive, shutdown, handlers>>
vars == <<registryVars, coreVars>>

Signals == {"SIGINT", "SIGTERM"}
Ended == main \in {"exited", "killed"}

CoreInit ==
    /\ Init
    /\ main = "boot"
    /\ keepAlive = FALSE
    /\ shutdown = FALSE
    /\ handlers = {}

\* app.use, in app.ts, before the bootstrap.
Use(p) ==
    /\ main = "boot"
    /\ Register(p)
    /\ UNCHANGED coreVars

\* scanner.scan() rejects: the plugins are never initialised.
ScanFails ==
    /\ main = "boot"
    /\ main' = "finally"
    /\ UNCHANGED <<registryVars, keepAlive, shutdown, handlers>>

AppInit ==
    /\ main = "boot"
    /\ main' = "init"
    /\ InitCall
    /\ UNCHANGED <<keepAlive, shutdown, handlers>>

InitRejected ==
    /\ main = "init"
    /\ phase = "initFailed"
    /\ main' = "finally"
    /\ UNCHANGED <<registryVars, keepAlive, shutdown, handlers>>

\* Not the code: for the mutants.
InitNotAwaited ==
    /\ main = "init"
    /\ phase # "initFailed"
    /\ main' = "run"
    /\ phase' = "onStart"
    /\ pos' = 1
    /\ keepAlive' = TRUE
    /\ UNCHANGED <<graph, plugins, sortVars, pluginVars, hook, failure, shutdown, handlers>>

AppRun ==
    /\ main = "init"
    /\ main' = "run"
    /\ RunCall
    /\ keepAlive' = TRUE
    /\ shutdown' = FALSE
    /\ UNCHANGED handlers

\* Not the code: for the mutants.
SigintOnly == {"SIGINT"}

Listeners == {"SIGINT", "SIGTERM"}

\* The listeners are only installed once every onStart hook has ended.
Listen ==
    /\ main = "run"
    /\ phase = "running"
    /\ handlers' = Listeners
    /\ main' = IF Wait THEN "wait" ELSE "finally"
    /\ UNCHANGED <<registryVars, keepAlive, shutdown>>

\* Not the code: for the mutants.
BothSignalsAwaited ==
    /\ main = "wait"
    /\ handlers = {}
    /\ main' = "finally"
    /\ UNCHANGED <<registryVars, keepAlive, shutdown, handlers>>

ShutdownAwaited ==
    /\ main = "wait"
    /\ shutdown
    /\ main' = "finally"
    /\ UNCHANGED <<registryVars, keepAlive, shutdown, handlers>>

AppDestroy ==
    /\ main = "finally"
    /\ main' = "destroy"
    /\ keepAlive' = FALSE
    /\ DestroyCall
    /\ UNCHANGED <<shutdown, handlers>>

Exit ==
    /\ main = "destroy"
    /\ phase \in {"destroyed", "destroyFailed"}
    /\ main' = "exited"
    /\ UNCHANGED <<registryVars, keepAlive, shutdown, handlers>>

PluginStep ==
    /\ ~Ended
    /\ Progress
    /\ UNCHANGED coreVars

Signal(s) ==
    /\ ~Ended
    /\ IF s \in handlers
       THEN shutdown' = TRUE /\ handlers' = handlers \ {s} /\ UNCHANGED main
       ELSE main' = "killed" /\ UNCHANGED <<shutdown, handlers>>
    /\ UNCHANGED <<registryVars, keepAlive>>

BootstrapStep ==
    \/ ScanFails
    \/ AppInit
    \/ InitRejected
    \/ AppRun
    \/ Listen
    \/ ShutdownAwaited
    \/ AppDestroy
    \/ Exit
    \/ PluginStep

CoreNext ==
    \/ \E p \in Plugin : Use(p)
    \/ BootstrapStep
    \/ \E s \in Signals : Signal(s)

\* The bootstrap and the hooks it awaits make progress; nobody has to send a
\* signal or to register a plugin.
CoreSpec == CoreInit /\ [][CoreNext]_vars /\ WF_vars(BootstrapStep)

-----------------------------------------------------------------------------
(* Properties.                                                             *)

\* While the application waits for a signal, every registered plugin has been
\* started or the health report shows an error; in both cases the event loop is
\* kept alive and the shutdown can still be asked for.
WaitingIsServing ==
    main = "wait" =>
        /\ keepAlive
        /\ AppHealth \in {"healthy", "unhealthy"}
        /\ shutdown \/ handlers = Signals

\* Once a shutdown was asked for, or init failed, or the scan before it (which
\* leads to the finally block at once), the bootstrap ends, whatever the hooks do
\* and whatever signals come.
ShutdownCompletes ==
    ((main = "wait" /\ shutdown) \/ failure # "none" \/ main = "finally") ~> Ended

\* The core only ever makes the calls in the order the registry assumes: its
\* behaviours are behaviours of the registry.
RegistrySpec == Spec
=============================================================================

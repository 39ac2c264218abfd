----------------------------- MODULE Connections -----------------------------
(***************************************************************************)
(* The plugins that own connections: packages/kafka, packages/rabbitmq and *)
(* packages/data. Each opens what its options name in onRegister and       *)
(* closes it in onStop; the broker or database may refuse either. Kafka    *)
(* also connects producers and consumers later, when they are injected.    *)
(*                                                                         *)
(* A behaviour is that of one of the three plugins. The registry calls     *)
(* onStop only when no hook failed before (PluginRegistry).                *)
(***************************************************************************)
EXTENDS Naturals, Sequences, SequencesExt

CONSTANTS
    Names,          \* of connections
    MaxConnections  \* how many an application configures

Kinds == {"connection", "producer", "consumer"}
Resources == Kinds \X Names
Kind(r) == r[1]
Name(r) == r[2]

VARIABLES
    plugin,     \* "kafka", "rabbitmq" or "data"
    configs,    \* options.connections: [name, auto], auto the kinds connected at once
    phase,      \* of the plugin: "new", "creating", "registered", "started", the loops
                \* of onStop, "stopped", "error"
    todo,       \* the kinds that createConnections still has to create of each configuration
    links,      \* what became of the connection of each resource
    maps,       \* the maps of the manager: of each kind the names, in the order of insertion
    tokens      \* the providers the plugin bound for each resource

vars == <<plugin, configs, phase, todo, links, maps, tokens>>

\* autoInitialize: undefined or a boolean for both, an object for each.
AutoInitialize == {{"producer", "consumer"}, {}, {"producer"}, {"consumer"}}

Init ==
    /\ plugin \in {"kafka", "rabbitmq", "data"}
    /\ configs \in UNION {[1 .. n -> [name : Names, auto : AutoInitialize]] : n \in 1 .. MaxConnections}
    /\ plugin # "kafka" => \A i \in DOMAIN configs : configs[i].auto = {}
    /\ phase = "new"
    /\ todo = [i \in DOMAIN configs |-> {}]
    /\ links = [r \in Resources |-> "none"]
    /\ maps = [kind \in Kinds |-> <<>>]
    /\ tokens = [r \in Resources |-> "unbound"]

Held == {r \in Resources : Name(r) \in ToSet(maps[Kind(r)])}
Put(r) == maps' = [maps EXCEPT ![Kind(r)] = Append(@, Name(r))]
Cleared(kinds) == [kind \in Kinds |-> IF kind \in kinds THEN <<>> ELSE maps[kind]]

-----------------------------------------------------------------------------
(* onRegister: createConnections, then the bindings.                       *)

OnRegister ==
    /\ phase = "new"
    /\ phase' = "creating"
    /\ todo' = [i \in DOMAIN configs |-> {"connection"} \cup configs[i].auto]
    /\ UNCHANGED <<plugin, configs, links, maps, tokens>>

\* One configuration after the other: its connection, its producer, its consumer.
First(kinds) ==
    IF "connection" \in kinds THEN "connection" ELSE IF "producer" \in kinds THEN "producer" ELSE "consumer"
IsNext(i, r) ==
    /\ \A j \in 1 .. i - 1 : todo[j] = {}
    /\ todo[i] # {} /\ r = <<First(todo[i]), configs[i].name>>

Creating(r) == phase = "creating" /\ \E i \in DOMAIN configs : IsNext(i, r)
AllCreated == phase = "creating" /\ \A i \in DOMAIN configs : todo[i] = {}
LoopGoesOn(r) ==
    todo' = [i \in DOMAIN configs |-> IF Creating(r) /\ IsNext(i, r) THEN todo[i] \ {Kind(r)} ELSE todo[i]]

DuplicateName(r) ==
    /\ Creating(r) /\ Kind(r) = "connection"
    /\ r \in Held
    /\ phase' = "error"
    /\ UNCHANGED <<plugin, configs, todo, links, maps, tokens>>

\* KafkaJS and amqp-connection-manager return a client that connects later.
ClientCreated(r) ==
    /\ Creating(r) /\ Kind(r) = "connection" /\ r \notin Held
    /\ plugin # "data"
    /\ links' = [links EXCEPT ![r] = "open"]
    /\ Put(r) /\ LoopGoesOn(r)
    /\ UNCHANGED <<plugin, configs, phase, tokens>>

DataSourceInitialized(r) ==
    /\ Creating(r) /\ r \notin Held
    /\ plugin = "data"
    /\ links' = [links EXCEPT ![r] = "open"]
    /\ Put(r) /\ LoopGoesOn(r)
    /\ UNCHANGED <<plugin, configs, phase, tokens>>

DataSourceFails(r) ==
    /\ Creating(r) /\ r \notin Held
    /\ plugin = "data"
    /\ links' = [links EXCEPT ![r] = "failed"]
    /\ phase' = "error"
    /\ UNCHANGED <<plugin, configs, todo, maps, tokens>>

\* createProducer and createConsumer, up to the await.
CanConnect(r) ==
    /\ plugin = "kafka" /\ Kind(r) # "connection"
    /\ <<"connection", Name(r)>> \in Held
    /\ links[r] \in {"none", "failed"}

AutoConnect(r) ==
    /\ Creating(r) /\ CanConnect(r) /\ links[r] = "none"
    /\ links' = [links EXCEPT ![r] = "connecting"]
    /\ UNCHANGED <<plugin, configs, phase, todo, maps, tokens>>

\* The rest of them: the answer of the broker, and of the loop that awaits it.
Connected(r) ==
    /\ links[r] = "connecting"
    /\ links' = [links EXCEPT ![r] = "open"]
    /\ Put(r) /\ LoopGoesOn(r)
    /\ UNCHANGED <<plugin, configs, phase, tokens>>

ConnectFails(r) ==
    /\ links[r] = "connecting"
    /\ links' = [links EXCEPT ![r] = "failed"]
    /\ LoopGoesOn(r)
    /\ UNCHANGED <<plugin, configs, phase, maps, tokens>>

\* Not the code: for the mutants.
ValuesOnly ==
    [r \in Resources |-> IF <<"connection", Name(r)>> \in Held THEN "value" ELSE "unbound"]

KafkaTokens ==
    [r \in Resources |->
        IF <<"connection", Name(r)>> \notin Held THEN "unbound"
        ELSE IF r \in Held THEN "value" ELSE "factory"]
RabbitMQTokens == [r \in Resources |-> IF r \in Held THEN "value" ELSE "unbound"]
DataTokens == [r \in Resources |-> IF r \in Held THEN "value" ELSE "unbound"]

Bind ==
    /\ AllCreated
    /\ phase' = "registered"
    /\ tokens' = IF plugin = "kafka" THEN KafkaTokens
                 ELSE IF plugin = "rabbitmq" THEN RabbitMQTokens ELSE DataTokens
    /\ UNCHANGED <<plugin, configs, todo, links, maps>>

\* RepositoryGenerator.generate throws for an entity of no data source.
RepositoriesFail ==
    /\ AllCreated /\ plugin = "data"
    /\ phase' = "error"
    /\ tokens' = DataTokens
    /\ UNCHANGED <<plugin, configs, todo, links, maps>>

-----------------------------------------------------------------------------
(* A running application.                                                  *)

OnStart ==
    /\ phase = "registered"
    /\ phase' = "started"
    /\ UNCHANGED <<plugin, configs, todo, links, maps, tokens>>

Loops == {"producers", "consumers", "connections"}

\* The singleton factory of a token, whose promise the container keeps.
Inject(r) ==
    /\ phase \in {"started", "stopped", "error"} \cup Loops
    /\ tokens[r] = "factory"
    /\ CanConnect(r)
    /\ tokens' = [tokens EXCEPT ![r] = "requested"]
    /\ links' = [links EXCEPT ![r] = "connecting"]
    /\ UNCHANGED <<plugin, configs, phase, todo, maps>>

-----------------------------------------------------------------------------
(* onStop: destroyConnections. A loop over a Map visits what is inserted   *)
(* while it runs.                                                          *)

OnStop ==
    /\ phase = "started"
    /\ phase' = IF plugin = "kafka" THEN "producers" ELSE "connections"
    /\ UNCHANGED <<plugin, configs, todo, links, maps, tokens>>

KindOf(loop) ==
    IF loop = "producers" THEN "producer" ELSE IF loop = "consumers" THEN "consumer" ELSE "connection"

\* Not the code: for the mutants.
OfTheStart(kind) ==
    {i \in DOMAIN maps[kind] : links[<<kind, maps[kind][i]>>] = "open" /\ tokens[<<kind, maps[kind][i]>>] = "value"}

\* The places of the map that the loop has still to visit.
Unvisited(kind) == {i \in DOMAIN maps[kind] : links[<<kind, maps[kind][i]>>] = "open"}

NoneIsClosing == \A r \in Resources : links[r] # "closing"
Visits(r) ==
    /\ phase \in Loops /\ NoneIsClosing
    /\ LET kind == KindOf(phase) IN
        \E i \in Unvisited(kind) : /\ r = <<kind, maps[kind][i]>>
                                   /\ \A j \in Unvisited(kind) : i <= j

Close(r) ==
    /\ Visits(r)
    /\ links' = [links EXCEPT ![r] = "closing"]
    /\ UNCHANGED <<plugin, configs, phase, todo, maps, tokens>>

Without(names, name) ==
    LET place == CHOOSE i \in DOMAIN names : names[i] = name IN RemoveAt(names, place)
RemovedWhenClosed(r) ==
    IF plugin = "kafka" THEN maps ELSE [maps EXCEPT ![Kind(r)] = Without(@, Name(r))]
Closed(r) ==
    /\ links[r] = "closing"
    /\ links' = [links EXCEPT ![r] = "closed"]
    /\ maps' = RemovedWhenClosed(r)
    /\ UNCHANGED <<plugin, configs, phase, todo, tokens>>

CloseFails(r) ==
    /\ links[r] = "closing"
    /\ links' = [links EXCEPT ![r] = "open"]
    /\ phase' = "error"
    /\ UNCHANGED <<plugin, configs, todo, maps, tokens>>

\* Not the code: for the mutants.
MapIsEmpty(loop) == phase = loop /\ maps[KindOf(loop)] = <<>>

LoopEnds(loop) ==
    /\ phase = loop /\ NoneIsClosing
    /\ Unvisited(KindOf(loop)) = {}

ProducersDone ==
    /\ LoopEnds("producers")
    /\ phase' = "consumers"
    /\ maps' = Cleared({"producer"})
    /\ UNCHANGED <<plugin, configs, todo, links, tokens>>

\* kafkajs clients hold no connection of their own.
ConsumersDone ==
    /\ LoopEnds("consumers")
    /\ phase' = "stopped"
    /\ maps' = Cleared({"consumer", "connection"})
    /\ links' = [r \in Resources |-> IF r \in Held /\ Kind(r) = "connection" THEN "closed" ELSE links[r]]
    /\ UNCHANGED <<plugin, configs, todo, tokens>>

ConnectionsDone ==
    /\ LoopEnds("connections")
    /\ phase' = "stopped"
    /\ UNCHANGED <<plugin, configs, todo, links, maps, tokens>>

-----------------------------------------------------------------------------
Answers(r) == Connected(r) \/ ConnectFails(r) \/ Closed(r) \/ CloseFails(r)

Register ==
    \/ OnRegister \/ Bind \/ RepositoriesFail
    \/ \E r \in Resources : \/ DuplicateName(r) \/ ClientCreated(r) \/ AutoConnect(r)
                            \/ DataSourceInitialized(r) \/ DataSourceFails(r)

Destroy == ProducersDone \/ ConsumersDone \/ ConnectionsDone \/ \E r \in Resources : Close(r)

Next ==
    \/ Register \/ OnStart \/ OnStop \/ Destroy
    \/ \E r \in Resources : Answers(r) \/ Inject(r)

\* Brokers and databases answer, and a loop that awaits nothing goes on.
Fairness == WF_vars(Destroy) /\ WF_vars(\E r \in Resources : Answers(r))

Spec == Init /\ [][Next]_vars /\ Fairness

-----------------------------------------------------------------------------
(* Properties.                                                             *)

OpenIsHeld == \A r \in Resources : links[r] = "open" => r \in Held
StoppedIsClosed ==
    phase = "stopped" =>
        \A r \in Resources : links[r] \in {"open", "connecting"} => tokens[r] = "requested"

\* The manager never loses sight of a connection it opened: whatever fails and
\* whoever connects while it is being stopped, it stays in the maps until it is
\* closed. And an onStop that resolved has closed all that the plugin connected
\* by itself: only a producer or consumer that somebody injected may be open (a
\* late one is never disconnected). (createProducer and destroyConnections.)
NothingLeaks == OpenIsHeld /\ StoppedIsClosed

\* Until onStop is called, a token that is bound to a value gives a connection
\* that is open, and every configured connection has its token.
TokensAreConnected ==
    phase \in {"registered", "started"} =>
        /\ \A r \in Resources : tokens[r] = "value" => links[r] = "open"
        /\ \A i \in DOMAIN configs : tokens[<<"connection", configs[i].name>>] = "value"
        /\ plugin = "kafka" => \A i \in DOMAIN configs : \A kind \in configs[i].auto :
                                    tokens[<<kind, configs[i].name>>] # "unbound"
=============================================================================

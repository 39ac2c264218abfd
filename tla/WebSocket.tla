------------------------------- MODULE WebSocket -------------------------------
(***************************************************************************)
(* packages/websocket and packages/websocket-socketio: the plugin collects *)
(* the events of the decorated classes, the Socket.IO adapter listens for  *)
(* them on every socket of their namespace, and each message runs its      *)
(* handlers through the execution engine, whose steps ExecutionEngine      *)
(* models: here a handler ends with a value, nothing, an error or late.    *)
(*                                                                         *)
(* Socket.IO is external: it delivers the messages of a socket in order,   *)
(* to the listeners that are registered then.                              *)
(***************************************************************************)
EXTENDS Naturals, Sequences, FiniteSets, TLC, Selection

CONSTANTS
    Clients,
    Gateways,     \* sequences of classes [namespace, events], as they are registered
    EventNames,   \* what a client may send
    Matches(_, _), \* whether a regular expression matches an event name
    MaxMessages,  \* per client
    Outcomes,     \* of a handler
    Nothing

\* Classes with metadata, and of each the list of its events.
ASSUME WebSocketAssumptions ==
    /\ Gateways \in Seq({Gateways[g] : g \in DOMAIN Gateways})
    /\ \A g \in DOMAIN Gateways :
            LET declared == Gateways[g].events IN declared \in Seq({declared[i] : i \in DOMAIN declared})

VARIABLES
    adapter,    \* "new", "registered", "started", "stopped"
    events,     \* the definitions of WebSocketEventGenerator.generate
    sockets,    \* client -> [status, namespace]
    messages,   \* client -> what it sent and what became of it
    lastIndex   \* of the regular expressions with the g or y flag

socketVars == <<adapter, events, sockets, messages, lastIndex>>

NoSocket == [status |-> "none", namespace |-> Nothing]

SocketInit ==
    /\ adapter = "new"
    /\ events = <<>>
    /\ sockets = [c \in Clients |-> NoSocket]
    /\ messages = [c \in Clients |-> <<>>]
    /\ lastIndex = <<>>

-----------------------------------------------------------------------------
(* WebSocketPlugin and WebSocketEventGenerator.                            *)

NormalizeNamespace(namespace) == IF namespace[1] = "/" THEN namespace ELSE <<"/">> \o namespace
EventsOf(gateway) ==
    [i \in DOMAIN gateway.events |->
        gateway.events[i] @@ [namespace |-> NormalizeNamespace(gateway.namespace)]]

\* The implementations the plugin registers for its transport: no timeout resolver.
RegisteredImplementations == {"result", "connection", "message", "data", "ack"}

Generated == Flat([g \in DOMAIN Gateways |-> EventsOf(Gateways[g])])

RegisterEvents ==
    /\ adapter = "new"
    /\ adapter' = "registered"
    /\ events' = Generated
    /\ lastIndex' = [i \in DOMAIN events' |-> 0]
    /\ UNCHANGED <<sockets, messages>>

StartAdapter ==
    /\ adapter = "registered"
    /\ adapter' = "started"
    /\ UNCHANGED <<events, sockets, messages, lastIndex>>

\* Server.close disconnects every socket; the handlers that run go on.
StopAdapter ==
    /\ adapter = "started"
    /\ adapter' = "stopped"
    /\ sockets' = [c \in Clients |->
                    IF sockets[c].status = "none" THEN sockets[c] ELSE [sockets[c] EXCEPT !.status = "closed"]]
    /\ UNCHANGED <<events, messages, lastIndex>>

-----------------------------------------------------------------------------
(* SocketIOWebSocketAdapter.registerEvents. Events are named by their      *)
(* positions, so that a filter is a set of them.                           *)

IsRegex(i) == events[i].regex
InNamespace(namespace) == {i \in DOMAIN events : events[i].namespace = namespace}
FirstOf(S) == {i \in S : \A j \in S : i <= j}

ConnectionEvent(namespace) ==
    FirstOf({i \in InNamespace(namespace) : ~IsRegex(i) /\ events[i].event = "connection"})
MessageEvents(namespace) == InNamespace(namespace) \ ConnectionEvent(namespace)
ExactEvents(namespace, name) == {i \in MessageEvents(namespace) : ~IsRegex(i) /\ events[i].event = name}
RegexEvents(namespace) == {i \in MessageEvents(namespace) : IsRegex(i)}

AfterConnection(namespace) == IF ConnectionEvent(namespace) = {} THEN "ready" ELSE "connecting"

Connect(c, namespace) ==
    /\ adapter = "started" /\ sockets[c].status = "none"
    /\ sockets' = [sockets EXCEPT ![c] = [status |-> AfterConnection(namespace), namespace |-> namespace]]
    /\ UNCHANGED <<adapter, events, messages, lastIndex>>

\* The connection handler resolved: the listeners of the socket are registered.
ConnectionHandled(c) ==
    /\ sockets[c].status = "connecting"
    /\ sockets' = [sockets EXCEPT ![c].status = "ready"]
    /\ UNCHANGED <<adapter, events, messages, lastIndex>>

Disconnect(c) ==
    /\ sockets[c].status \in {"connecting", "ready"}
    /\ sockets' = [sockets EXCEPT ![c].status = "closed"]
    /\ UNCHANGED <<adapter, events, messages, lastIndex>>

\* Not the code: for the mutants.
TestFromLastIndex(i, name) ==
    LET found == Matches(events[i].event, name) /\ lastIndex[i] = 0 IN
    [found |-> found, lastIndex |-> IF found /\ events[i].global THEN 1 ELSE 0]

\* A test of a global expression starts at its lastIndex and moves it.
MatchesEventName(i, name) == [found |-> Matches(events[i].event, name), lastIndex |-> lastIndex[i]]

\* The loop over the regular expressions, which are in queue, up to the first that matches.
Hits(queue, name) == {i \in queue : MatchesEventName(i, name).found}
Matched(queue, name) == FirstOf(Hits(queue, name))
Tested(queue, name) == {i \in queue : \A j \in Matched(queue, name) : i <= j}
Left(queue, name) == queue \ Tested(queue, name)
AfterTests(queue, name) ==
    [i \in DOMAIN lastIndex |->
        IF i \in Tested(queue, name) THEN MatchesEventName(i, name).lastIndex ELSE lastIndex[i]]

\* A message finds the listeners its socket has when it arrives.
Delivered(c, name, ack) ==
    LET namespace == sockets[c].namespace
        listening == sockets[c].status = "ready"
        regexes == IF listening THEN RegexEvents(namespace) ELSE {} IN
    /\ messages' = [messages EXCEPT ![c] = Append(@,
            [name |-> name, ack |-> ack, arrived |-> sockets[c].status,
             exact |-> IF listening THEN ExactEvents(namespace, name) ELSE {},
             regex |-> Matched(regexes, name), queue |-> Left(regexes, name),
             ended |-> <<>>, late |-> {}, answers |-> <<>>])]
    /\ lastIndex' = AfterTests(regexes, name)

Send(c, name, ack) ==
    /\ sockets[c].status \in {"connecting", "ready"}
    /\ Len(messages[c]) < MaxMessages
    /\ Delivered(c, name, ack)
    /\ UNCHANGED <<adapter, events, sockets>>

-----------------------------------------------------------------------------
(* WebSocketEngine.execute: the result of a handler answers the client.    *)

\* ReturnErrorFilter wraps what is not a WebSocketError.
ErrorAnswer(outcome) ==
    IF outcome = "websocketError" THEN [error |-> TRUE, status |-> "own"]
    ELSE [error |-> TRUE, status |-> "1"]
OkAnswer == [error |-> FALSE, status |-> "0"]

\* WebSocketResultResolver answers with what is neither undefined nor null, a
\* late handler is answered by the timeout resolver of its transport, if any.
Answer(outcome) ==
    CASE outcome = "value" -> <<OkAnswer>>
      [] outcome \in {"error", "websocketError"} -> <<ErrorAnswer(outcome)>>
      [] outcome = "timeout" /\ "timeout" \in RegisteredImplementations -> <<ErrorAnswer("websocketError")>>
      [] OTHER -> <<>>

HandlerEnds(c, k, i, outcome) ==
    LET m == messages[c][k]
        loops == i \in m.regex IN
    /\ i \in m.exact \cup m.regex
    /\ outcome = "timeout" => events[i].timeout
    /\ messages' = [messages EXCEPT ![c][k] =
            [m EXCEPT !.exact = @ \ {i},
                      !.regex = IF loops THEN Matched(m.queue, m.name) ELSE @,
                      !.queue = IF loops THEN Left(m.queue, m.name) ELSE @,
                      !.ended = Append(@, i),
                      !.late = IF outcome = "timeout" THEN @ \cup {i} ELSE @,
                      !.answers = IF m.ack THEN @ \o Answer(outcome) ELSE @]]
    /\ lastIndex' = IF loops THEN AfterTests(m.queue, m.name) ELSE lastIndex
    /\ UNCHANGED <<adapter, events, sockets>>

-----------------------------------------------------------------------------
Namespaces == {NormalizeNamespace(Gateways[i].namespace) : i \in DOMAIN Gateways}

Handlers == \E c \in Clients :
    \/ ConnectionHandled(c)
    \/ \E k \in 1 .. MaxMessages, i \in DOMAIN events, outcome \in Outcomes :
        k \in DOMAIN messages[c] /\ HandlerEnds(c, k, i, outcome)

SocketNext ==
    \/ RegisterEvents \/ StartAdapter \/ StopAdapter
    \/ \E c \in Clients :
        \/ \E namespace \in Namespaces : Connect(c, namespace)
        \/ Disconnect(c)
        \/ \E name \in EventNames, ack \in BOOLEAN : Send(c, name, ack)
    \/ Handlers

SocketSpec == SocketInit /\ [][SocketNext]_socketVars

-----------------------------------------------------------------------------
(* Properties.                                                             *)

Sent(c, k) == messages[c][k]
Known(c) == {k \in 1 .. MaxMessages : k \in DOMAIN messages[c]}
Done(m) == m.exact = {} /\ m.regex = {}
Ended(m) == {m.ended[x] : x \in DOMAIN m.ended}
Interested(namespace, name) ==
    {i \in MessageEvents(namespace) :
        IF IsRegex(i) THEN Matches(events[i].event, name) ELSE events[i].event = name}

\* A message that finds its socket ready has run, when it is done, each handler
\* of the namespace that matches its name, once, whatever other messages tested
\* the same expressions in between; an earlier one has run none. Its expressions
\* run one after the other, in the order they were declared.
HandledByAll ==
    \A c \in Clients : \A k \in Known(c) :
        LET m == Sent(c, k) IN
        /\ Done(m) => Ended(m) = IF m.arrived = "ready" THEN Interested(sockets[c].namespace, m.name) ELSE {}
        /\ \A x, y \in DOMAIN m.ended : m.ended[x] = m.ended[y] => x = y
        /\ Cardinality(m.regex) <= 1
        /\ \A x, y \in DOMAIN m.ended :
                x < y /\ IsRegex(m.ended[x]) /\ IsRegex(m.ended[y]) => m.ended[x] < m.ended[y]

\* websocket-timeout-resolver.ts: "It throws a RequestTimeoutError with a custom
\* message when a timeout occurs". A client that asked for an acknowledgment
\* hears of a handler that timed out.
TimeoutIsAnswered ==
    \A c \in Clients : \A k \in Known(c) :
        LET m == Sent(c, k) IN
        m.ack /\ m.late # {} => \E x \in DOMAIN m.answers : m.answers[x].error
=============================================================================

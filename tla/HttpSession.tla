------------------------------ MODULE HttpSession ------------------------------
(***************************************************************************)
(* Sessions: the requests of one client, one after the other. The          *)
(* framework's session (express-session, @fastify/session: external) loads *)
(* the stored data by the client's cookie into a session object of the     *)
(* request and stores it at the end; the adapter wraps the object it finds *)
(* when it makes the context, and keeps that one, while regenerate and     *)
(* reload give the request another.                                        *)
(***************************************************************************)
EXTENDS Naturals

CONSTANTS
    Frameworks,     \* of "express", "fastify"
    SessionKeys, SessionValues,
    None,
    MaxCalls        \* bound: calls of the handlers

\* Objects and ids are numbers, None is neither.
SessionAssumptions == None \notin Nat

VARIABLES
    framework,
    objects,    \* the session objects of the running request: number -> [id, data]
    bound,      \* request.session: an object, or None between requests and when destroyed
    wrapped,    \* HttpSession.session
    store,      \* id -> data, of the sessions that are stored
    cookie,     \* the id the client sends, or None
    ids,        \* ids given out
    calls,
    kept        \* what the session is to hold, or None after its object was replaced

sessionVars == <<framework, objects, bound, wrapped, store, cookie, ids, calls, kept>>

\* A new session has no data (None) before it is wrapped.
Empty == [k \in SessionKeys |-> None]

SessionInit ==
    /\ framework \in Frameworks
    /\ objects = <<>> /\ bound = None /\ wrapped = None
    /\ store = <<>> /\ cookie = None /\ ids = 0 /\ calls = 0
    /\ kept = Empty

-----------------------------------------------------------------------------
InRequest == wrapped # None
With(f, k, v) == [x \in DOMAIN f \cup {k} |-> IF x = k THEN v ELSE f[x]]
Without(f, k) == [x \in DOMAIN f \ {k} |-> f[x]]

\* Not the code: for the mutants.
WrappedAnew(object) == [object EXCEPT !.data = Empty]

\* The constructor of ExpressHttpSession and of FastifyHttpSession.
Wrapped(object) == IF object.data = None THEN [object EXCEPT !.data = Empty] ELSE object

\* The framework finds the session of the cookie or makes one, createContext wraps it.
FoundSession == IF cookie \in DOMAIN store THEN [id |-> cookie, data |-> store[cookie]] ELSE [id |-> ids + 1, data |-> None]
CreateContext ==
    /\ ~InRequest /\ calls < MaxCalls
    /\ objects' = <<Wrapped(FoundSession)>>
    /\ bound' = 1 /\ wrapped' = 1
    /\ ids' = IF FoundSession.id = cookie THEN ids ELSE ids + 1
    /\ kept' = IF kept = None THEN objects'[1].data ELSE kept
    /\ UNCHANGED <<framework, store, cookie, calls>>

Call == InRequest /\ calls < MaxCalls /\ calls' = calls + 1
Session == objects[wrapped]

Write(data) ==
    /\ objects' = [objects EXCEPT ![wrapped].data = data]
    /\ kept' = IF kept # None /\ bound = wrapped THEN data ELSE kept
    /\ UNCHANGED <<framework, bound, wrapped, store, cookie, ids>>
Set(k, v) == Call /\ Write([Session.data EXCEPT ![k] = v])
Delete(k) == Call /\ Write([Session.data EXCEPT ![k] = None])
Clear == Call /\ Write(Empty)

\* save stores the wrapped session under its id, also when it was destroyed.
Save ==
    /\ Call
    /\ store' = With(store, Session.id, Session.data)
    /\ kept' = IF bound = wrapped THEN kept ELSE None
    /\ UNCHANGED <<framework, objects, bound, wrapped, cookie, ids>>

RequestId == IF bound = None THEN Session.id ELSE objects[bound].id

\* Another object for the request: on Express the old session is destroyed.
Regenerate ==
    /\ Call
    /\ objects' = With(objects, 2, [id |-> ids + 1, data |-> None])
    /\ bound' = 2 /\ ids' = ids + 1
    /\ store' = IF framework = "express" THEN Without(store, RequestId) ELSE store
    /\ kept' = None
    /\ UNCHANGED <<framework, wrapped, cookie>>

\* On Fastify reload is regenerate; on Express it is refused without a stored session.
Reload ==
    \/ framework = "fastify" /\ Regenerate
    \/ /\ framework = "express" /\ Call
       /\ IF Session.id \in DOMAIN store
          THEN /\ objects' = With(objects, 2, [id |-> Session.id, data |-> store[Session.id]])
               /\ bound' = 2 /\ kept' = None
          ELSE UNCHANGED <<objects, bound, kept>>
       /\ UNCHANGED <<framework, wrapped, store, cookie, ids>>

Destroy ==
    /\ Call
    /\ store' = Without(store, Session.id)
    /\ bound' = None
    /\ kept' = IF bound = wrapped /\ kept # None THEN Empty ELSE None
    /\ UNCHANGED <<framework, objects, wrapped, cookie, ids>>

\* The framework stores the session the request has; one without data is not stored.
End ==
    /\ InRequest
    /\ LET stored == IF bound = None THEN FALSE ELSE objects[bound].data # None IN
        /\ store' = IF stored THEN With(store, objects[bound].id, objects[bound].data) ELSE store
        /\ cookie' = IF stored THEN objects[bound].id ELSE cookie
    /\ objects' = <<>> /\ bound' = None /\ wrapped' = None
    /\ UNCHANGED <<framework, ids, calls, kept>>

SessionNext ==
    \/ CreateContext \/ End \/ Clear \/ Save \/ Regenerate \/ Reload \/ Destroy
    \/ \E k \in SessionKeys : Delete(k) \/ \E v \in SessionValues : Set(k, v)
SessionSpec == SessionInit /\ [][SessionNext]_sessionVars

-----------------------------------------------------------------------------
(* Properties.                                                             *)

\* A handler reads what the client's earlier requests left in the session, with
\* or without save, and nothing of a session that was destroyed, as long as no
\* regenerate or reload replaced the object that the adapter had wrapped.
SessionIsKept == InRequest /\ bound = wrapped /\ kept # None => Session.data = kept
=============================================================================

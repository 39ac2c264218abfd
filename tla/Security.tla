------------------------------- MODULE Security -------------------------------
(***************************************************************************)
(* packages/security: one execution of a handler that may be @Secured, in  *)
(* a project with the plugin. Its two middlewares and two guards are       *)
(* global steps that ExecutionPlanner puts in order, whatever the order of *)
(* their registration; what authenticators and policies of the application *)
(* answer is chosen at each await.                                         *)
(***************************************************************************)
EXTENDS ExecutionSteps

CONSTANTS
    Configurations,  \* [options, registered, supports, classes, order], see below
    None,            \* not @Secured
    SecurityTransports \* of executions; "all" is another one

StepNames == {"authenticate", "authorize", "checkAuthentication", "checkAuthorization"}

\* Names of classes, of which "none" is not one; each step is loaded once.
ASSUME SecurityAssumptions ==
    \A c \in Configurations :
        /\ c.registered \in Seq(STRING \ {"none"}) /\ c.options.selected \in Seq(STRING \ {"none"})
        /\ c.classes \in Seq([class : Seq(STRING) \cup {None}, method : Seq(STRING) \cup {None}])
        /\ c.order \in [1 .. 4 -> StepNames] /\ \A i, j \in 1 .. 4 : i # j => c.order[i] # c.order[j]

VARIABLES
    config,          \* fixed: the project and the handler
    transport, secured, \* of the execution, and whether it is to be secured
    steps,           \* before, of the ExecutionPlan of the handler
    stage,              \* the step of the plan that runs
    asked,           \* authenticators or policies it has asked
    context,         \* SecurityContext
    outcome          \* "none", "handled", or the error that ended the execution

fixed == <<config, transport, secured, steps>>
securityVars == <<config, transport, secured, steps, stage, asked, context, outcome>>

\* StepPriority: Low is 25, Normal is 50.
SecurityStep(type, name, priority, id) ==
    [type |-> type, name |-> name, priority |-> priority, global |-> TRUE, scope |-> "before", id |-> id]
StepOf(name, id) ==
    CASE name = "authenticate" -> SecurityStep("middleware", name, 50, id)
      [] name = "authorize" -> SecurityStep("middleware", name, 25, id)
      [] name = "checkAuthentication" -> SecurityStep("guard", name, 50, id)
      [] name = "checkAuthorization" -> SecurityStep("guard", name, 25, id)

\* config.order names the steps as their modules were loaded.
Plan == Before([i \in DOMAIN config.order |-> StepOf(config.order[i], i)])

-----------------------------------------------------------------------------
(* What @Secured and the options say.                                      *)

\* Metadata.get finds what the nearest class of the chain declares, [class, method]
\* being lists of policies or None; config.classes starts with the handler's class.
Nearest(kind) ==
    LET declaring == {i \in DOMAIN config.classes : config.classes[i][kind] # None} IN
    IF declaring = {} THEN None
    ELSE config.classes[CHOOSE i \in declaring : \A j \in declaring : i <= j][kind]
IsSecured == Nearest("class") # None \/ Nearest("method") # None
PoliciesOf(kind) == IF Nearest(kind) = None THEN <<>> ELSE Nearest(kind)

Policies == PoliciesOf("class") \o PoliciesOf("method")

\* options.authenticator: [transports, strategy, selected], transports {} when not given.
AllowedTransports == IF config.options.transports = {} THEN {"all"} ELSE config.options.transports
IsEnabled == AllowedTransports \cap {"all", transport} # {}

\* config.registered: the injectable classes that extend Authenticator.
Candidates ==
    IF config.options.strategy = "selected" THEN config.options.selected ELSE config.registered
\* Not the code: for the mutants.
AllCandidates == Candidates

Authenticators ==
    Select(Candidates, {i \in DOMAIN Candidates : config.supports[Candidates[i]] \cap {"all", transport} # {}})

-----------------------------------------------------------------------------
NoContext == [securedMethod |-> FALSE, authenticated |-> FALSE, authenticationMethod |-> "none",
              authorized |-> FALSE, decisions |-> <<>>]

SecurityInit ==
    /\ config \in Configurations /\ transport \in SecurityTransports
    /\ secured = (IsSecured /\ IsEnabled) /\ steps = Plan
    /\ stage = 1 /\ asked = 0 /\ context = NoContext /\ outcome = "none"

Running(name) == outcome = "none" /\ stage <= Len(steps) /\ steps[stage].name = name
Proceed == stage' = stage + 1 /\ asked' = 0 /\ UNCHANGED outcome
End(result) == outcome' = result /\ UNCHANGED <<stage, asked>>

\* AuthenticationMiddleware, where the transport is disabled.
SkipAuthentication ==
    /\ Running("authenticate") /\ ~IsEnabled
    /\ Proceed
    /\ UNCHANGED <<fixed, context>>

\* AuthenticationEngine.execute, one authenticator after the other.
Marked == [context EXCEPT !.securedMethod = IsSecured]
AskAuthenticator ==
    /\ Running("authenticate") /\ IsEnabled /\ asked < Len(Authenticators)
    /\ \/ /\ context' = Marked \* a falsy value
          /\ asked' = asked + 1
          /\ UNCHANGED <<stage, outcome>>
       \/ /\ context' = [Marked EXCEPT !.authenticated = TRUE,
                                       !.authenticationMethod = Authenticators[asked + 1]]
          /\ Proceed
       \/ context' = Marked /\ End("ErrorOfAuthenticator")
    /\ UNCHANGED fixed
NoneAuthenticated ==
    /\ Running("authenticate") /\ IsEnabled /\ asked = Len(Authenticators)
    /\ context' = Marked
    /\ Proceed
    /\ UNCHANGED fixed

\* AuthorizationEngine.execute: a denial does not stop it, the error of a policy does.
DecisionsSoFar == IF asked = 0 THEN <<>> ELSE context.decisions
Authorized(decision) == decision.authorized /\ (asked = 0 \/ context.authorized)
EvaluatePolicy ==
    /\ Running("authorize") /\ asked < Len(Policies)
    /\ \/ \E allowed \in BOOLEAN :
            LET decision == [policy |-> Policies[asked + 1], authorized |-> allowed] IN
            /\ context' = [context EXCEPT !.decisions = Append(DecisionsSoFar, decision),
                                          !.authorized = Authorized(decision)]
            /\ asked' = asked + 1
            /\ UNCHANGED <<stage, outcome>>
       \/ End("ErrorOfPolicy") /\ UNCHANGED context
    /\ UNCHANGED fixed
AllEvaluated ==
    /\ Running("authorize") /\ asked = Len(Policies)
    /\ context' = IF Policies = <<>> THEN [context EXCEPT !.authorized = TRUE] ELSE context
    /\ Proceed
    /\ UNCHANGED fixed

Check(name, passes, error) ==
    /\ Running(name)
    /\ IF context.securedMethod /\ ~passes THEN End(error) ELSE Proceed
    /\ UNCHANGED <<fixed, context>>
CheckAuthentication == Check("checkAuthentication", context.authenticated, "AuthenticationError")
CheckAuthorization == Check("checkAuthorization", context.authorized, "AuthorizationError")

\* The handler is invoked when every step has passed.
Invoke ==
    /\ outcome = "none" /\ stage > Len(steps)
    /\ End("handled")
    /\ UNCHANGED <<fixed, context>>

SecurityNext ==
    \/ SkipAuthentication \/ AskAuthenticator \/ NoneAuthenticated
    \/ EvaluatePolicy \/ AllEvaluated
    \/ CheckAuthentication \/ CheckAuthorization \/ Invoke
SecuritySpec == SecurityInit /\ [][SecurityNext]_securityVars

-----------------------------------------------------------------------------
(* Properties.                                                             *)

SecuredIsIdentified ==
    outcome = "handled" /\ secured =>
        /\ context.authenticationMethod \in
               Elements(IF config.options.strategy = "selected" THEN config.options.selected ELSE config.registered)
        /\ config.supports[context.authenticationMethod] \cap {"all", transport} # {}

Decided(policy) == \E d \in Elements(context.decisions) : d.policy = policy
SecuredIsAllowed ==
    outcome = "handled" /\ secured =>
        /\ \A kind \in {"class", "method"} : Nearest(kind) # None =>
               \A policy \in Elements(Nearest(kind)) : Decided(policy)
        /\ \A d \in Elements(context.decisions) : d.authorized

\* Who is not identified is told that and not the denial of a policy, and who is
\* denied is given the decision of every policy, those of the class first.
RefusalsAreExplained ==
    /\ outcome = "AuthenticationError" => secured /\ context.authenticationMethod = "none"
    /\ outcome = "AuthorizationError" =>
        /\ secured /\ context.authenticationMethod # "none"
        /\ [i \in DOMAIN context.decisions |-> context.decisions[i].policy] =
               PoliciesOf("class") \o PoliciesOf("method")
        /\ \E d \in Elements(context.decisions) : ~d.authorized

\* A secured handler runs only for an execution that an authenticator of the
\* configuration, made for the transport, has identified, and only when each of
\* the policies of the class and of the method has decided, and allowed it, in
\* whatever order the steps were registered; and a refusal tells its reason.
SecuredRunsAuthorized == SecuredIsIdentified /\ SecuredIsAllowed /\ RefusalsAreExplained
=============================================================================

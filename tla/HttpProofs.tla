------------------------------ MODULE HttpProofs ------------------------------
(***************************************************************************)
(* Proofs about ExecutionEngine and HttpExchange, for every plan, every    *)
(* configuration and every endpoint, and about HttpSession, for any keys,  *)
(* values and number of calls.                                             *)
(***************************************************************************)
EXTENDS HttpExchange, HttpSession, WellFoundedInduction, TLAPS

-----------------------------------------------------------------------------
(* The engine.                                                             *)

\* Where the parts of execute stand.
EngineTypeOK ==
    /\ plan \in Plans
    /\ execution \in {"running", "returned", "threw"}
    /\ step \in Nat
    /\ timer \in {"none", "armed", "processing", "over", "cleared"}
    /\ main \in {"race", "catch", "after", "result", "resolved", "rejected"}
    /\ pos \in Nat
    /\ result \in {"undefined", "handler", "filter"}
    /\ error \in Errors \cup {"none"}
    /\ thrown \in BOOLEAN
    /\ afterRuns \in [1 .. plan.after -> Nat]
    /\ afterThrew \in BOOLEAN

\* How often the after steps were invoked follows from where the rest stands.
Invoked(n) == \A i \in 1 .. plan.after : afterRuns[i] = IF i <= n THEN 1 ELSE 0
AfterInv ==
    /\ main \in {"race", "catch"} => Invoked(0)
    /\ main = "after" => pos \in 1 .. plan.after /\ Invoked(pos)
    /\ main \in {"result", "resolved"} => Invoked(plan.after)
    /\ main = "rejected" =>
        IF afterThrew THEN \E n \in 1 .. plan.after : Invoked(n) ELSE Invoked(plan.after)
    /\ afterThrew => main = "rejected"

\* The result and the error are undefined until the race is decided, and a race
\* that was decided by an error leaves no value of the handler.
RaceInv ==
    /\ main = "race" => result = "undefined" /\ error = "none"
    /\ main = "catch" => error # "none" /\ pos \in DOMAIN plan.catch
    /\ error # "none" => result # "handler"

EngineInv == EngineTypeOK /\ AfterInv /\ RaceInv

\* A set of natural numbers has a least one.
LEMMA LeastNatural ==
    ASSUME NEW S \in SUBSET Nat, S # {}
    PROVE  \E i \in S : \A j \in S : i <= j
<1>1. PICK i \in S : \A j \in S : <<j, i>> \notin OpToRel(<, Nat)
  BY NatLessThanWellFounded, WFMin, Zenon
<1>2. ASSUME NEW j \in S PROVE i <= j
  <2>1. CASE j < i
    <3>1. <<j, i>> \in OpToRel(<, Nat)
      BY <2>1 DEF OpToRel
    <3> QED BY <1>1, <3>1
  <2> QED BY <2>1
<1> QED BY <1>2

\* The after steps begin with the first one, if there is one.
LEMMA ToAfterKeepsAfterInv ==
    ASSUME EngineTypeOK, Invoked(0), ~afterThrew,
           NEW threw \in BOOLEAN, ToAfter(threw), UNCHANGED <<plan, afterThrew>>
    PROVE  /\ main' \in {"after", "result", "rejected"}
           /\ pos' \in Nat /\ thrown' \in BOOLEAN
           /\ afterRuns' \in [1 .. plan'.after -> Nat]
           /\ AfterInv'
<1>1. plan.after \in Nat
  BY EngineAssumption DEF EngineTypeOK, Plans
<1>2. CASE plan.after > 0
  <2>1. main' = "after" /\ pos' = 1 /\ thrown' = threw
        /\ afterRuns' = [afterRuns EXCEPT ![1] = @ + 1]
    BY <1>2 DEF ToAfter, Invoke
  <2>2. \A i \in 1 .. plan.after : afterRuns'[i] = IF i <= 1 THEN 1 ELSE 0
    BY <1>1, <2>1 DEF EngineTypeOK, Invoked
  <2>3. afterRuns' \in [1 .. plan.after -> Nat]
    <3>1. afterRuns \in [1 .. plan.after -> Nat] /\ 1 \in 1 .. plan.after
      BY <1>1, <1>2 DEF EngineTypeOK
    <3>2. afterRuns[1] + 1 \in Nat
      BY <3>1
    <3> QED BY <2>1, <3>1, <3>2
  <2> QED BY <1>1, <1>2, <2>1, <2>2, <2>3 DEF AfterInv, Invoked
<1>3. CASE ~(plan.after > 0)
  <2>1. /\ main' = IF threw THEN "rejected" ELSE "result"
        /\ pos' = 0 /\ thrown' = threw /\ afterRuns' = afterRuns
    BY <1>3 DEF ToAfter
  <2> QED BY <1>1, <1>3, <2>1 DEF AfterInv, Invoked, EngineTypeOK
<1> QED BY <1>2, <1>3

\* The next filter that accepts the error, or the after steps.
LEMMA ToCatchKeepsAfterInv ==
    ASSUME EngineTypeOK, Invoked(0), ~afterThrew,
           NEW k \in Nat, NEW e \in Errors, ToCatch(k, e), UNCHANGED <<plan, afterThrew>>
    PROVE  /\ main' \in {"catch", "after", "result", "rejected"}
           /\ pos' \in Nat /\ thrown' \in BOOLEAN
           /\ afterRuns' \in [1 .. plan'.after -> Nat]
           /\ AfterInv'
           /\ main' = "catch" => pos' \in Accepting(k, e)
<1> DEFINE A == Accepting(k, e)
<1>1. CASE A = {}
  <2>1. ToAfter(FALSE)
    BY <1>1 DEF ToCatch
  <2> QED BY <2>1, ToAfterKeepsAfterInv
<1>2. CASE A # {}
  <2>1. /\ main' = "catch" /\ pos' = CHOOSE i \in A : \A j \in A : i <= j
        /\ UNCHANGED <<thrown, afterRuns>>
    BY <1>2 DEF ToCatch
  <2>2. A \subseteq Nat
    BY DEF Accepting
  <2>3. \E i \in A : \A j \in A : i <= j
    BY <1>2, <2>2, LeastNatural
  <2>4. pos' \in A
    BY <2>1, <2>3
  <2> QED BY <2>1, <2>2, <2>4 DEF AfterInv, Invoked, EngineTypeOK
<1> QED BY <1>1, <1>2

\* No after step was invoked yet, whichever way a step goes on from here.
LEMMA StartsTheRest ==
    ASSUME EngineTypeOK, Invoked(0), ~afterThrew, UNCHANGED <<plan, afterThrew>>,
           \/ ToAfter(FALSE) \/ ToAfter(TRUE)
           \/ \E k \in Nat \ {0} : error' \in Errors /\ ToCatch(k, error')
    PROVE  /\ main' \in {"catch", "after", "result", "rejected"}
           /\ pos' \in Nat /\ thrown' \in BOOLEAN
           /\ afterRuns' \in [1 .. plan'.after -> Nat]
           /\ AfterInv'
           /\ main' = "catch" => error' # "none" /\ pos' \in DOMAIN plan'.catch
<1>1. CASE \E threw \in BOOLEAN : ToAfter(threw)
  <2>1. PICK threw \in BOOLEAN : ToAfter(threw)
    BY <1>1
  <2>2. main' # "catch"
    BY <2>1, ToAfterKeepsAfterInv
  <2> QED BY <2>1, <2>2, ToAfterKeepsAfterInv
<1>2. CASE \E k \in Nat \ {0} : error' \in Errors /\ ToCatch(k, error')
  <2>1. PICK k \in Nat \ {0} : error' \in Errors /\ ToCatch(k, error')
    BY <1>2
  <2>2. Accepting(k, error') \subseteq DOMAIN plan.catch
    <3>1. plan.catch \in UNION {[1 .. n -> SUBSET Errors] : n \in 0 .. MaxSteps}
      BY DEF EngineTypeOK, Plans
    <3>2. PICK n \in 0 .. MaxSteps : plan.catch \in [1 .. n -> SUBSET Errors]
      BY <3>1
    <3>3. Len(plan.catch) = n /\ DOMAIN plan.catch = 1 .. n
      BY <3>2, EngineAssumption
    <3> QED BY <3>3 DEF Accepting
  <2> QED BY <2>1, <2>2, ToCatchKeepsAfterInv DEF Errors
<1> QED BY <1>1, <1>2

LEMMA EngineInit == Init => EngineInv
<1> SUFFICES ASSUME Init PROVE EngineInv
  OBVIOUS
<1>1. plan.after \in Nat
  BY EngineAssumption DEF Init, Plans
<1>2. EngineTypeOK
  BY <1>1 DEF Init, EngineTypeOK
<1> QED BY <1>1, <1>2 DEF Init, EngineInv, AfterInv, RaceInv, Invoked

\* Every step of the engine keeps the invariant.
LEMMA EngineStep == EngineInv /\ [Next]_vars => EngineInv'
<1> SUFFICES ASSUME EngineInv, [Next]_vars PROVE EngineInv'
  OBVIOUS
<1> USE DEF EngineInv
<1>0. plan.after \in Nat /\ "app" \in Errors /\ "timeout" \in Errors
  BY EngineAssumption DEF EngineTypeOK, Plans, Errors
<1>a. main \in {"race", "catch"} => Invoked(0) /\ ~afterThrew
  BY DEF AfterInv
<1>1. CASE BeforeReturns
  BY <1>1 DEF BeforeReturns, history, EngineTypeOK, AfterInv, RaceInv, Invoked
<1>2. CASE HandlerReturns
  <2>1. CASE Open
    <3>1. ToAfter(FALSE) /\ UNCHANGED <<plan, step, error, afterThrew>>
          /\ execution' = "returned" /\ timer' = Cleared
          /\ result' \in {"handler", result}
      BY <1>2, <2>1 DEF HandlerReturns, RaceReturns, ResultOfRace
    <3>2. error' = "none"
      BY <2>1, <3>1 DEF Open, RaceInv
    <3> QED BY <1>a, <2>1, <3>1, <3>2, StartsTheRest DEF Open, EngineTypeOK, RaceInv, Cleared
  <2>2. CASE ~Open
    BY <1>2, <2>2 DEF HandlerReturns, RaceReturns, ResultOfRace, EngineTypeOK, AfterInv, RaceInv, Invoked, Open
  <2> QED BY <2>1, <2>2
<1>3. CASE StepThrows
  <2>1. CASE Open
    <3>1. ToCatch(1, "app") /\ UNCHANGED <<plan, step, result, afterThrew>>
          /\ execution' = "threw" /\ timer' = Cleared /\ error' = "app"
      BY <1>3, <2>1 DEF StepThrows, RaceThrows
    <3>2. error' \in Errors /\ ToCatch(1, error') /\ 1 \in Nat \ {0}
      BY <1>0, <3>1
    <3>3. \E k \in Nat \ {0} : error' \in Errors /\ ToCatch(k, error')
      BY <3>2, Zenon
    <3> QED BY <1>0, <1>a, <2>1, <3>1, <3>2, <3>3, StartsTheRest DEF Open, EngineTypeOK, RaceInv, Cleared
  <2>2. CASE ~Open
    BY <1>3, <2>2 DEF StepThrows, RaceThrows, EngineTypeOK, AfterInv, RaceInv, Invoked, Open
  <2> QED BY <2>1, <2>2
<1>4. CASE TimerFires
  BY <1>4 DEF TimerFires, executionVars, history, EngineTypeOK, AfterInv, RaceInv, Invoked
<1>5. CASE TimeoutReturns
  <2>1. CASE Open
    <3>1. ToAfter(FALSE) /\ UNCHANGED <<plan, step, execution, result, error, afterThrew>>
          /\ timer' = "over"
      BY <1>5, <2>1 DEF TimeoutReturns, executionVars
    <3> QED BY <1>a, <2>1, <3>1, StartsTheRest DEF Open, EngineTypeOK, RaceInv
  <2>2. CASE ~Open
    BY <1>5, <2>2 DEF TimeoutReturns, executionVars, EngineTypeOK, AfterInv, RaceInv, Invoked, Open
  <2> QED BY <2>1, <2>2
<1>6. CASE TimeoutThrows
  <2>1. CASE Open
    <3>1. ToCatch(1, "timeout") /\ UNCHANGED <<plan, step, execution, result, afterThrew>>
          /\ timer' = "over" /\ error' = "timeout"
      BY <1>6, <2>1 DEF TimeoutThrows, executionVars
    <3>2. error' \in Errors /\ ToCatch(1, error') /\ 1 \in Nat \ {0}
      BY <1>0, <3>1
    <3>3. \E k \in Nat \ {0} : error' \in Errors /\ ToCatch(k, error')
      BY <3>2, Zenon
    <3> QED BY <1>0, <1>a, <2>1, <3>1, <3>2, <3>3, StartsTheRest DEF Open, EngineTypeOK, RaceInv
  <2>2. CASE ~Open
    BY <1>6, <2>2 DEF TimeoutThrows, executionVars, EngineTypeOK, AfterInv, RaceInv, Invoked, Open
  <2> QED BY <2>1, <2>2
<1>7. CASE FilterReturns
  <2>1. CASE result' = "filter" /\ ToAfter(FALSE)
    <3>1. main = "catch" /\ UNCHANGED <<plan, step, execution, timer, error, afterThrew>>
      BY <1>7 DEF FilterReturns, executionVars
    <3> QED BY <1>a, <2>1, <3>1, StartsTheRest DEF EngineTypeOK, RaceInv
  <2>2. CASE result' = "undefined" /\ ToCatch(pos + 1, error)
    <3>1. main = "catch" /\ UNCHANGED <<plan, step, execution, timer, error, afterThrew>>
      BY <1>7 DEF FilterReturns, executionVars
    <3>2. error' \in Errors /\ error' = error /\ pos + 1 \in Nat \ {0}
      BY <3>1 DEF EngineTypeOK, RaceInv
    <3>3. ToCatch(pos + 1, error')
      BY <2>2, <3>2
    <3>4. \E k \in Nat \ {0} : error' \in Errors /\ ToCatch(k, error')
      BY <3>2, <3>3, Zenon
    <3> QED BY <1>a, <2>2, <3>1, <3>2, <3>4, StartsTheRest DEF EngineTypeOK, RaceInv
  <2> QED BY <1>7, <2>1, <2>2 DEF FilterReturns
<1>8. CASE FilterThrows
  <2>1. main = "catch" /\ ToAfter(TRUE) /\ UNCHANGED <<plan, step, execution, timer, result, error, afterThrew>>
    BY <1>8 DEF FilterThrows, executionVars
  <2> QED BY <1>a, <2>1, StartsTheRest DEF EngineTypeOK, RaceInv
<1>9. CASE AfterReturns
  <2>1. pos \in 1 .. plan.after /\ Invoked(pos) /\ main = "after" /\ ~afterThrew
    BY <1>9 DEF AfterReturns, AfterInv
  <2>2. CASE LastAfter
    BY <1>0, <1>9, <2>1, <2>2 DEF AfterReturns, LastAfter, executionVars, EngineTypeOK, AfterInv, RaceInv, Invoked
  <2>3. CASE ~LastAfter
    <3>1. /\ pos' = pos + 1 /\ afterRuns' = [afterRuns EXCEPT ![pos + 1] = @ + 1]
          /\ UNCHANGED <<main, plan, step, execution, timer, result, error, thrown, afterThrew>>
      BY <1>9, <2>3 DEF AfterReturns, Invoke, executionVars
    <3>2. pos + 1 \in 1 .. plan.after
      BY <1>0, <2>1, <2>3 DEF LastAfter
    <3>3. afterRuns \in [1 .. plan.after -> Nat] /\ afterRuns[pos + 1] + 1 = 1
      BY <1>0, <2>1, <3>2 DEF EngineTypeOK, Invoked
    <3>4. afterRuns' \in [1 .. plan.after -> Nat]
      BY <3>1, <3>2, <3>3
    <3>5. \A i \in 1 .. plan.after : afterRuns'[i] = IF i <= pos + 1 THEN 1 ELSE 0
      BY <1>0, <2>1, <3>1, <3>3 DEF Invoked
    <3> QED BY <1>0, <2>1, <3>1, <3>2, <3>4, <3>5 DEF EngineTypeOK, AfterInv, RaceInv, Invoked
  <2> QED BY <2>2, <2>3
<1>10. CASE AfterThrows
  BY <1>0, <1>10 DEF AfterThrows, executionVars, EngineTypeOK, AfterInv, RaceInv, Invoked
<1>11. CASE ResultProcessed
  BY <1>0, <1>11 DEF ResultProcessed, executionVars, history, EngineTypeOK, AfterInv, RaceInv, Invoked
<1>12. CASE UNCHANGED vars
  BY <1>12 DEF vars, EngineTypeOK, AfterInv, RaceInv, Invoked
<1> QED
  BY <1>1, <1>2, <1>3, <1>4, <1>5, <1>6, <1>7, <1>8, <1>9, <1>10, <1>11, <1>12
  DEF Next, Execution, Timeout, Rest

\* What the invariant says of the properties.
LEMMA EngineInvIsEnough == EngineInv => AfterStepsRunOnce /\ FailureIsNotAResult
<1> SUFFICES ASSUME EngineInv PROVE AfterStepsRunOnce /\ FailureIsNotAResult
  OBVIOUS
<1>1. plan.after \in Nat /\ DOMAIN afterRuns = 1 .. plan.after
  BY EngineAssumption DEF EngineInv, EngineTypeOK, Plans
<1>2. \E n \in Nat : Invoked(n)
  BY <1>1 DEF EngineInv, EngineTypeOK, AfterInv
<1> QED BY <1>1, <1>2 DEF EngineInv, EngineTypeOK, AfterInv, RaceInv, Invoked,
                         AfterStepsRunOnce, FailureIsNotAResult, Settled

-----------------------------------------------------------------------------
(* The exchange is an execution.                                           *)

\* What the HTTP plugin does to an execution are steps of the engine.
LEMMA ExchangeStepsTheEngine == HttpNext => [Next]_vars
<1> USE DEF Next, Execution, Timeout, Rest
<1>1. OnRegister \/ OnStart \/ Listen \/ OnStop \/ Close \/ Arrive => UNCHANGED vars
  BY DEF OnRegister, OnStart, Listen, OnStop, Close, Arrive, Lifecycle
<1>2. Guard \/ Handler \/ (\E e \in Failures : Throws(e)) => Next
  BY DEF Guard, Handler, HandlerWrites, HandlerEnds, Throws
<1>3. Engine => [Next]_vars
  BY DEF Engine, Fire, TimeoutEnds, ReturnError, ApplicationFilter, AfterStep, Respond, FrameworkAnswers
<1> QED BY <1>1, <1>2, <1>3 DEF HttpNext

\* An exchange is a behaviour of the engine: guards, handlers, timeouts, filters
\* and results of HTTP do nothing that ExecutionEngine does not allow.
THEOREM ExchangeImplementsEngine == HttpSpec => Init /\ [][Next]_vars
<1>1. HttpInit => Init
  BY DEF HttpInit
<1>2. [HttpNext]_vars2 => [Next]_vars
  BY ExchangeStepsTheEngine DEF vars2
<1> QED BY <1>1, <1>2, PTL DEF HttpSpec

\* Of the engine itself and of every exchange: the after steps run once, however
\* the execution ended, and the value of a handler never hides an error
\* (ExecutionEngine.execute).
THEOREM EngineCorrect ==
    Init /\ [][Next]_vars => []EngineTypeOK /\ []AfterStepsRunOnce /\ []FailureIsNotAResult
<1>1. Init /\ [][Next]_vars => []EngineInv
  BY EngineInit, EngineStep, PTL
<1>2. EngineInv => EngineTypeOK
  BY DEF EngineInv
<1> QED BY <1>1, <1>2, EngineInvIsEnough, PTL

THEOREM AfterStepsCorrect == HttpSpec => []AfterStepsRunOnce
  BY ExchangeImplementsEngine, EngineCorrect, PTL

THEOREM FailureIsNotAResultCorrect == HttpSpec => []FailureIsNotAResult
  BY ExchangeImplementsEngine, EngineCorrect, PTL

-----------------------------------------------------------------------------
(* The answer.                                                             *)

Answered == {"BadRequest", "Unauthorized", "Forbidden", "NotFound", "InternalServerError"}

ExchangeTypeOK ==
    /\ endpoint \in Endpoints
    /\ Len(plan.catch) \in Nat /\ DOMAIN plan.catch = 1 .. Len(plan.catch)
    /\ Len(plan.catch) > 0 /\ plan.catch[Len(plan.catch)] = Errors
    /\ response \in [status : Nat \cup {endpoint.code}, committed : BOOLEAN,
                     by : {"none", "handler", "result", "framework"},
                     attempts : SUBSET {"handler", "result", "framework"}]

\* What won the race is a value of the handler; without filters of the
\* application the value of an execution that failed is that of ReturnErrorFilter.
ValueInv ==
    /\ value \in Values \cup {"Handled", "Error"}
    /\ error = "none" => value # "Error"
    /\ main = "race" => value = "undefined"
    /\ error # "none" /\ ~Filtered /\ main \in {"after", "result", "resolved", "rejected"} => value = "Error"

\* The result is the last thing the engine answers with.
ResponseInv == response.by = "result" => response.committed /\ main \in {"resolved", "rejected"}

ExchangeInv == EngineInv /\ ExchangeTypeOK /\ ValueInv /\ ResponseInv /\ OutcomeIsAnswered

\* Every class of error has a status of 400 or more.
LEMMA ErrorsHaveErrorStatus == \A e : StatusOfError(e) \in Nat /\ StatusOfError(e) >= 400
<1>1. \A e \in DOMAIN ClientErrors : ClientErrors[e] \in Nat /\ ClientErrors[e] >= 400
  BY DEF ClientErrors, BadRequest
<1>2. \A e \in DOMAIN LaterClientErrors : LaterClientErrors[e] \in Nat /\ LaterClientErrors[e] >= 400
  BY DEF LaterClientErrors
<1>3. \A e \in DOMAIN ServerErrors : ServerErrors[e] \in Nat /\ ServerErrors[e] >= 400
  BY DEF ServerErrors, InternalServerError, ServiceUnavailable
<1>4. \A e \in DOMAIN HttpErrors : HttpErrors[e] \in Nat /\ HttpErrors[e] >= 400
  BY <1>1, <1>2, <1>3 DEF HttpErrors
<1> QED BY <1>4 DEF StatusOfError, BadRequest, InternalServerError

\* A result that does not say it is an error has the status of a success, or
\* the one of @HttpCode.
LEMMA SuccessesHaveSuccessStatus ==
    ASSUME NEW v \in Values
    PROVE  /\ StatusOfResult(v) \in Nat \cup {endpoint.code}
           /\ v \notin Answered => StatusOfResult(v) < 400 \/ StatusOfResult(v) = endpoint.code
<1>0. v # "Error"
  BY DEF Values, PlainValues, HttpResults
<1>1. CASE v \in PlainValues
  <2>1. StatusOfResult(v) = IF endpoint.code # Undefined THEN endpoint.code ELSE DefaultStatusCode(endpoint.method)
    BY <1>0, <1>1 DEF StatusOfResult
  <2>2. DefaultStatusCode(endpoint.method) \in {200, 201, 204}
    BY DEF DefaultStatusCode, Ok, Created, NoContent
  <2> QED BY <2>1, <2>2
<1>2. CASE v \notin PlainValues
  <2>1. StatusOfResult(v) = HttpResults[v]
    BY <1>0, <1>2 DEF StatusOfResult
  <2>2. v \in DOMAIN HttpResults
    BY <1>2 DEF Values
  <2>3. HttpResults[v] \in Nat /\ (v \notin Answered => HttpResults[v] < 400)
    BY <2>2 DEF HttpResults, Answered, Ok, Created, Accepted, NoContent, Found, MovedPermanently,
                BadRequest, InternalServerError
  <2> QED BY <2>1, <2>3
<1> QED BY <1>1, <1>2

\* Committing an answer: the first one stays.
LEMMA AttemptEffect ==
    ASSUME ExchangeTypeOK, UNCHANGED <<plan, endpoint>>,
           NEW by \in {"handler", "result", "framework"}, NEW status \in Nat \cup {endpoint.code},
           Attempt(by, status)
    PROVE  /\ ExchangeTypeOK'
           /\ IF response.committed
              THEN response' = [response EXCEPT !.attempts = response'.attempts]
              ELSE response'.by = by /\ response'.status = status /\ response'.committed
  BY DEF Attempt, ExchangeTypeOK

\* A step of the execution that is not the answer of the engine.
LEMMA ExecutionKeepsExchange ==
    ASSUME ExchangeInv, EngineInv', ValueInv', ExchangeTypeOK',
           response.by = "result" => UNCHANGED <<main, value, error>>,
           UNCHANGED <<plan, endpoint>>,
           response'.by = "result" => response' = [response EXCEPT !.attempts = response'.attempts]
    PROVE  ExchangeInv'
<1>1. CASE response'.by # "result"
  BY <1>1 DEF ExchangeInv, ResponseInv, OutcomeIsAnswered
<1>2. CASE response'.by = "result"
  <2>1. /\ response'.by = response.by /\ response'.status = response.status
        /\ response'.committed = response.committed
    BY <1>2 DEF ExchangeInv, ExchangeTypeOK
  <2>2. UNCHANGED <<main, value, error, plan, endpoint>>
    BY <1>2, <2>1
  <2> QED BY <1>2, <2>1, <2>2 DEF ExchangeInv, ResponseInv, OutcomeIsAnswered, Filtered
<1> QED BY <1>1, <1>2

LEMMA ExchangeInit == HttpInit => ExchangeInv
<1> SUFFICES ASSUME HttpInit PROVE ExchangeInv
  OBVIOUS
<1>1. EngineInv
  BY EngineInit DEF HttpInit
<1>2. ExchangeTypeOK
  <2>1. plan.catch \in UNION {[1 .. n -> SUBSET Errors] : n \in 0 .. MaxSteps}
    BY <1>1 DEF EngineInv, EngineTypeOK, Plans
  <2>2. PICK n \in 0 .. MaxSteps : plan.catch \in [1 .. n -> SUBSET Errors]
    BY <2>1
  <2>3. Len(plan.catch) = n /\ n \in Nat
    BY <2>2, EngineAssumption
  <2> QED BY <2>3 DEF HttpInit, IsPlan, ExchangeTypeOK, NoResponse, Ok
<1> QED BY <1>1, <1>2 DEF HttpInit, Init, ExchangeInv, ValueInv, ResponseInv, OutcomeIsAnswered,
                         NoResponse, Values, PlainValues

\* ReturnErrorFilter accepts what the filters before it leave.
LEMMA CatchIsReached ==
    ASSUME ExchangeTypeOK, NEW k \in 1 .. Len(plan.catch), NEW e \in Errors, ToCatch(k, e)
    PROVE  main' = "catch"
<1>1. Len(plan.catch) \in Accepting(k, e)
  BY DEF Accepting, ExchangeTypeOK
<1> QED BY <1>1 DEF ToCatch

\* Every step of the exchange keeps the invariant.
LEMMA ExchangeStep == ExchangeInv /\ [HttpNext]_vars2 => ExchangeInv'
<1> SUFFICES ASSUME ExchangeInv, [HttpNext]_vars2 PROVE ExchangeInv'
  OBVIOUS
<1>0. EngineInv'
  BY ExchangeStepsTheEngine, EngineStep DEF ExchangeInv, vars2
<1>a. /\ EngineTypeOK /\ RaceInv /\ ExchangeTypeOK /\ ValueInv /\ ResponseInv
      /\ "app" \in Errors /\ "timeout" \in Errors /\ "none" \notin Errors
  BY DEF ExchangeInv, EngineInv, Errors
\* What remains to be shown of a step that does not answer.
<1>b. ASSUME UNCHANGED <<plan, endpoint, response>>, ValueInv',
             main \in {"resolved", "rejected"} => UNCHANGED <<main, value, error>>
      PROVE  ExchangeInv'
  <2>1. ExchangeTypeOK'
    BY <1>a, <1>b DEF ExchangeTypeOK
  <2>2. response' = [response EXCEPT !.attempts = response'.attempts]
    BY <1>a, <1>b DEF ExchangeTypeOK
  <2> QED BY <1>0, <1>a, <1>b, <2>1, <2>2, ExecutionKeepsExchange DEF ResponseInv
<1>1. CASE Lifecycle
  <2>1. UNCHANGED <<plan, endpoint, response, main, value, error>>
    BY <1>1 DEF Lifecycle, vars
  <2> QED BY <1>a, <1>b, <2>1 DEF ValueInv, Filtered
<1>2. CASE Guard
  <2>1. UNCHANGED <<plan, endpoint, response, main, value, error>>
    BY <1>2 DEF Guard, BeforeReturns, plugin
  <2> QED BY <1>a, <1>b, <2>1 DEF ValueInv, Filtered
<1>3. CASE HandlerWrites
  <2>1. /\ UNCHANGED <<plan, endpoint>>
        /\ IF Open THEN ToAfter(FALSE) /\ error' = error /\ value' = "Handled"
                   ELSE UNCHANGED <<main, error, value>>
    BY <1>3 DEF HandlerWrites, HandlerReturns, RaceReturns, plugin
  <2>2. PICK status \in {Ok, ServiceUnavailable} : Attempt("handler", status)
    BY <1>3 DEF HandlerWrites
  <2>3. status \in Nat \cup {endpoint.code}
    BY DEF Ok, ServiceUnavailable
  <2>4. /\ ExchangeTypeOK'
        /\ response'.by = "result" => response' = [response EXCEPT !.attempts = response'.attempts]
    BY <1>a, <2>1, <2>2, <2>3, AttemptEffect
  <2>5. ValueInv'
    BY <1>a, <2>1 DEF ValueInv, Filtered, RaceInv, Open, ToAfter
  <2>6. response.by = "result" => UNCHANGED <<main, value, error>>
    BY <1>a, <2>1 DEF ResponseInv, Open
  <2> QED BY <1>0, <2>1, <2>4, <2>5, <2>6, ExecutionKeepsExchange
<1>4. ASSUME NEW v \in Values, HandlerEnds(v) PROVE ExchangeInv'
  <2>1. /\ UNCHANGED <<plan, endpoint, response>>
        /\ IF Open THEN ToAfter(FALSE) /\ error' = error /\ value' = v
                   ELSE UNCHANGED <<main, error, value>>
    BY <1>4 DEF HandlerEnds, HandlerReturns, RaceReturns, plugin
  <2>2. v # "Error"
    BY DEF Values, PlainValues, HttpResults
  <2>3. ValueInv'
    BY <1>a, <2>1, <2>2 DEF ValueInv, Filtered, RaceInv, Open, ToAfter
  <2> QED BY <1>b, <2>1, <2>3 DEF Open
<1>5. ASSUME NEW e \in Failures, Throws(e) PROVE ExchangeInv'
  <2>1. /\ UNCHANGED <<plan, endpoint, response, value>>
        /\ IF Open THEN ToCatch(1, "app") /\ error' = "app" ELSE UNCHANGED <<main, error>>
    BY <1>5 DEF Throws, StepThrows, RaceThrows, plugin
  <2>2. Open => main' = "catch"
    BY <1>a, <2>1, CatchIsReached DEF ExchangeTypeOK
  <2>3. ValueInv'
    BY <1>a, <2>1, <2>2 DEF ValueInv, Filtered, Open
  <2> QED BY <1>b, <2>1, <2>3 DEF Open
<1>6. CASE TimeoutEnds
  <2>1. CASE ResolverThrows
    <3>1. /\ UNCHANGED <<plan, endpoint, response, value>>
          /\ IF Open THEN ToCatch(1, "timeout") /\ error' = "timeout" ELSE UNCHANGED <<main, error>>
      BY <1>6, <2>1 DEF TimeoutEnds, TimeoutThrows, plugin
    <3>2. Open => main' = "catch"
      BY <1>a, <3>1, CatchIsReached DEF ExchangeTypeOK
    <3>3. ValueInv'
      BY <1>a, <3>1, <3>2 DEF ValueInv, Filtered, Open
    <3> QED BY <1>b, <3>1, <3>3 DEF Open
  <2>2. CASE ~ResolverThrows
    <3>1. /\ UNCHANGED <<plan, endpoint, response, value, error>>
          /\ IF Open THEN ToAfter(FALSE) ELSE UNCHANGED main
      BY <1>6, <2>2 DEF TimeoutEnds, TimeoutReturns, plugin
    <3>2. ValueInv'
      BY <1>a, <3>1 DEF ValueInv, Filtered, RaceInv, Open, ToAfter
    <3> QED BY <1>b, <3>1, <3>2 DEF Open
  <2> QED BY <2>1, <2>2
<1>7. CASE Fire
  <2>1. UNCHANGED <<plan, endpoint, response, main, value, error>>
    BY <1>7 DEF Fire, TimerFires, plugin
  <2> QED BY <1>a, <1>b, <2>1 DEF ValueInv, Filtered
<1>8. CASE ReturnError
  <2>1. main = "catch" /\ ToAfter(FALSE) /\ value' = "Error" /\ UNCHANGED <<plan, endpoint, response, error>>
    BY <1>8 DEF ReturnError, FilterReturns, plugin
  <2>2. ValueInv'
    BY <1>a, <2>1 DEF ValueInv, RaceInv, ToAfter
  <2> QED BY <1>b, <2>1, <2>2
<1>9. CASE ApplicationFilter
  <2>1. main = "catch" /\ main' # "race" /\ UNCHANGED <<plan, endpoint, response, error>> /\ pos # Len(plan.catch)
    BY <1>9 DEF ApplicationFilter, IsReturnErrorFilter, FilterReturns, FilterThrows, ToAfter, ToCatch, plugin
  <2>2. Len(plan.catch) > 1
    BY <1>a, <2>1 DEF RaceInv, ExchangeTypeOK
  <2>3. "undefined" \in Values
    BY DEF Values, PlainValues
  <2>4. value' \in Values \cup {"Handled", "Error"}
    BY <1>9, <1>a, <2>3 DEF ValueInv, ApplicationFilter
  <2>5. ValueInv'
    BY <1>a, <2>1, <2>2, <2>4 DEF ValueInv, RaceInv, Filtered
  <2> QED BY <1>b, <2>1, <2>5
<1>10. CASE AfterStep
  <2>1. /\ UNCHANGED <<plan, endpoint, response, value, error>>
        /\ main = "after" /\ main' \in {"after", "result", "rejected"}
    BY <1>10 DEF AfterStep, AfterReturns, AfterThrows, plugin
  <2>2. ValueInv'
    BY <1>a, <2>1 DEF ValueInv, Filtered
  <2> QED BY <1>b, <2>1, <2>2
<1>11. CASE Respond
  <2>1. /\ UNCHANGED <<plan, endpoint, value, error>>
        /\ main = "result" /\ main' \in {"resolved", "rejected"}
    BY <1>11 DEF Respond, ResultProcessed, plugin
  <2>2. ValueInv'
    BY <1>a, <2>1 DEF ValueInv, Filtered
  <2>3. CASE IsHandled(value)
    <3>1. UNCHANGED response
      BY <1>11, <2>3 DEF Respond
    <3> QED BY <1>b, <2>1, <2>2, <3>1
  <2>4. CASE ~IsHandled(value)
    <3>1. Attempt("result", StatusOfResult(value))
      BY <1>11, <2>4 DEF Respond
    <3>2. /\ StatusOfResult(value) \in Nat \cup {endpoint.code}
          /\ value = "Error" => StatusOfResult(value) >= 400
          /\ value # "Error" /\ value \notin Answered =>
                StatusOfResult(value) < 400 \/ StatusOfResult(value) = endpoint.code
      <4>1. CASE value = "Error"
        <5>1. StatusOfResult(value) = StatusOfError(failure)
          BY <4>1 DEF StatusOfResult, PlainValues
        <5> QED BY <4>1, <5>1, ErrorsHaveErrorStatus
      <4>2. CASE value # "Error"
        <5>1. value \in Values
          BY <1>a, <2>4, <4>2 DEF ValueInv, IsHandled
        <5> QED BY <4>2, <5>1, SuccessesHaveSuccessStatus
      <4> QED BY <4>1, <4>2
    <3>3. /\ ExchangeTypeOK'
          /\ IF response.committed
             THEN response' = [response EXCEPT !.attempts = response'.attempts]
             ELSE response'.by = "result" /\ response'.status = StatusOfResult(value) /\ response'.committed
      BY <1>a, <2>1, <3>1, <3>2, AttemptEffect
    <3>4. CASE response.committed
      <4>1. response.by # "result"
        BY <1>a, <2>1 DEF ResponseInv
      <4> QED BY <1>0, <2>1, <2>2, <3>3, <3>4, <4>1, ExecutionKeepsExchange
    <3>5. CASE ~response.committed
      <4>1. error # "none" /\ ~Filtered => value = "Error"
        BY <1>a, <2>1 DEF ValueInv
      <4>2. OutcomeIsAnswered'
        BY <1>a, <2>1, <3>2, <3>3, <3>5, <4>1 DEF OutcomeIsAnswered, Filtered, ValueInv, Answered
      <4> QED BY <1>0, <2>1, <2>2, <3>3, <3>5, <4>2 DEF ExchangeInv, ResponseInv
    <3> QED BY <3>4, <3>5
  <2> QED BY <2>3, <2>4
<1>12. CASE FrameworkAnswers
  <2>1. UNCHANGED <<plan, endpoint, value, error, main>> /\ ~response.committed
    BY <1>12 DEF FrameworkAnswers, plugin, vars
  <2>2. PICK status \in {BadRequest, InternalServerError} : Attempt("framework", status)
    BY <1>12 DEF FrameworkAnswers
  <2>3. status \in Nat \cup {endpoint.code}
    BY DEF BadRequest, InternalServerError
  <2>4. ExchangeTypeOK' /\ response'.by # "result"
    BY <1>a, <2>1, <2>2, <2>3, AttemptEffect
  <2>5. ValueInv'
    BY <1>a, <2>1 DEF ValueInv, Filtered
  <2> QED BY <1>0, <2>1, <2>4, <2>5, ExecutionKeepsExchange
<1>13. CASE UNCHANGED vars2
  <2>1. UNCHANGED <<plan, endpoint, response, main, value, error>>
    BY <1>13 DEF vars2, vars
  <2> QED BY <1>a, <1>b, <2>1 DEF ValueInv, Filtered
<1> QED
  BY <1>1, <1>2, <1>3, <1>4, <1>5, <1>6, <1>7, <1>8, <1>9, <1>10, <1>11, <1>12, <1>13
  DEF HttpNext, OnRegister, OnStart, Listen, OnStop, Close, Arrive, Handler, Engine

\* An error is answered as one and a success as one, for every configuration,
\* endpoint, class of error and plan (HttpPlugin, the results and the filters).
THEOREM OutcomeCorrect == HttpSpec => []OutcomeIsAnswered
<1>1. ExchangeInv => OutcomeIsAnswered
  BY DEF ExchangeInv
<1> QED BY <1>1, ExchangeInit, ExchangeStep, PTL DEF HttpSpec

-----------------------------------------------------------------------------
(* Sessions: what a client left in its session is what its next handler    *)
(* reads. The session is in two places that take turns: during a request   *)
(* in the object that was wrapped, between requests in the store under the *)
(* client's cookie. The invariant says what each place holds while the     *)
(* other one has the turn.                                                 *)

\* During a request the object 1 exists and is the wrapped one; the request may
\* have lost it, or have another, and then nothing is promised any more.
ObjectsInv ==
    /\ wrapped \in {None, 1}
    /\ bound \in {None, 1, 2}
    /\ InRequest => /\ 1 \in DOMAIN objects
                  /\ objects[1] = [id |-> objects[1].id, data |-> objects[1].data]
    /\ InRequest /\ bound = 2 => kept = None

\* The object that is wrapped and bound has the data, and the store has nothing
\* else under the cookie, so that a destroy leaves nothing there.
WhileRunning ==
    InRequest /\ bound = 1 /\ kept # None =>
        /\ objects[1].data = kept
        /\ cookie \in DOMAIN store => cookie = objects[1].id

\* A session that was destroyed is empty, and not in the store.
WhileDestroyed ==
    InRequest /\ bound = None /\ kept # None => kept = Empty /\ cookie \notin DOMAIN store

\* Between requests the store has the data under the cookie.
WhileStored ==
    ~InRequest /\ kept # None =>
        IF cookie \in DOMAIN store THEN store[cookie] = kept ELSE kept = Empty

SessionInv == ObjectsInv /\ WhileRunning /\ WhileDestroyed /\ WhileStored

-----------------------------------------------------------------------------
LEMMA ArriveKeeps ==
    ASSUME SessionAssumptions, SessionInv, CreateContext
    PROVE  SessionInv'
<1>1. wrapped' = 1 /\ bound' = 1 /\ None # 1 /\ None # 2
  BY DEF SessionAssumptions, CreateContext
<1>2. objects' = <<Wrapped(FoundSession)>> /\ DOMAIN objects' = {1} /\ objects'[1] = Wrapped(FoundSession)
  BY DEF CreateContext
<1>3. FoundSession = [id |-> FoundSession.id, data |-> FoundSession.data]
  BY DEF FoundSession
<1>4. Wrapped(FoundSession) = [id |-> FoundSession.id, data |-> IF FoundSession.data = None THEN Empty ELSE FoundSession.data]
  BY <1>3 DEF Wrapped
<1>5. kept # None => Wrapped(FoundSession).data = kept
  BY <1>4 DEF SessionInv, WhileStored, CreateContext, FoundSession
<1>6. cookie \in DOMAIN store => FoundSession.id = cookie
  BY DEF FoundSession
<1>. QED
  BY <1>1, <1>2, <1>4, <1>5, <1>6
     DEF SessionInv, ObjectsInv, WhileRunning, WhileDestroyed, WhileStored, CreateContext, InRequest

LEMMA WriteKeeps ==
    ASSUME SessionAssumptions, SessionInv, InRequest, NEW data, Write(data)
    PROVE  SessionInv'
<1>1. wrapped = 1 /\ None # 1 /\ None # 2
  BY DEF SessionAssumptions, SessionInv, ObjectsInv, InRequest
<1>2. objects[1] = [id |-> objects[1].id, data |-> objects[1].data] /\ 1 \in DOMAIN objects
  BY DEF SessionInv, ObjectsInv
<1>3. objects' = [objects EXCEPT ![1] = [objects[1] EXCEPT !.data = data]]
  BY <1>1 DEF Write
<1>4. objects'[1] = [id |-> objects[1].id, data |-> data] /\ 1 \in DOMAIN objects'
  BY <1>2, <1>3
<1>. QED
  BY <1>1, <1>2, <1>4
     DEF SessionInv, ObjectsInv, WhileRunning, WhileDestroyed, WhileStored, Write, InRequest, Empty

LEMMA SaveKeeps ==
    ASSUME SessionAssumptions, SessionInv, Save
    PROVE  SessionInv'
<1>1. wrapped = 1 /\ None # 1 /\ None # 2
  BY DEF SessionAssumptions, SessionInv, ObjectsInv, Save, Call, InRequest
<1>2. DOMAIN store' = DOMAIN store \cup {objects[1].id}
  BY <1>1 DEF Save, Session, With
<1>. QED
  BY <1>1, <1>2
     DEF SessionInv, ObjectsInv, WhileRunning, WhileDestroyed, WhileStored, Save, InRequest, Empty

\* What regenerate and a successful reload do to the objects.
LEMMA ReplacingKeeps ==
    ASSUME SessionAssumptions, SessionInv, InRequest, NEW object,
           objects' = With(objects, 2, object), bound' = 2, kept' = None, wrapped' = wrapped
    PROVE  SessionInv'
<1>1. wrapped = 1 /\ None # 1 /\ None # 2 /\ 1 \in DOMAIN objects
  BY DEF SessionAssumptions, SessionInv, ObjectsInv, InRequest
<1>2. 1 \in DOMAIN objects' /\ objects'[1] = objects[1]
  BY <1>1 DEF With
<1>. QED
  BY <1>1, <1>2 DEF SessionInv, ObjectsInv, WhileRunning, WhileDestroyed, WhileStored, InRequest

LEMMA RegenerateKeeps ==
    ASSUME SessionAssumptions, SessionInv, Regenerate
    PROVE  SessionInv'
<1>. InRequest /\ bound' = 2 /\ kept' = None /\ wrapped' = wrapped
      /\ objects' = With(objects, 2, [id |-> ids + 1, data |-> None])
  BY DEF Regenerate, Call
<1>. QED  BY ReplacingKeeps

LEMMA ReloadKeeps ==
    ASSUME SessionAssumptions, SessionInv, Reload
    PROVE  SessionInv'
<1>1. CASE Regenerate
  BY <1>1, RegenerateKeeps
<1>2. CASE /\ InRequest /\ wrapped' = wrapped /\ bound' = 2 /\ kept' = None
           /\ objects' = With(objects, 2, [id |-> Session.id, data |-> store[Session.id]])
  BY <1>2, ReplacingKeeps
<1>3. CASE InRequest /\ UNCHANGED <<objects, bound, kept, wrapped, store, cookie>>
  BY <1>3 DEF SessionInv, ObjectsInv, WhileRunning, WhileDestroyed, WhileStored, InRequest, Empty
<1>. QED  BY <1>1, <1>2, <1>3 DEF Reload, Call

LEMMA DestroyKeeps ==
    ASSUME SessionAssumptions, SessionInv, Destroy
    PROVE  SessionInv'
<1>1. wrapped = 1 /\ None # 1 /\ None # 2
  BY DEF SessionAssumptions, SessionInv, ObjectsInv, Destroy, Call, InRequest
<1>2. DOMAIN store' = DOMAIN store \ {objects[1].id}
  BY <1>1 DEF Destroy, Session, Without
<1>3. bound = 1 /\ kept # None => cookie \notin DOMAIN store'
  BY <1>2 DEF SessionInv, WhileRunning, Destroy, Call
<1>. QED
  BY <1>1, <1>3
     DEF SessionInv, ObjectsInv, WhileRunning, WhileDestroyed, WhileStored, Destroy, InRequest, Empty

LEMMA EndKeeps ==
    ASSUME SessionAssumptions, SessionInv, End
    PROVE  SessionInv'
<1>1. None # 1 /\ None # 2 /\ InRequest /\ wrapped' = None /\ bound' = None /\ kept' = kept
  BY DEF SessionAssumptions, End
<1>2. ASSUME kept # None, bound = 1
      PROVE  cookie' \in DOMAIN store' /\ store'[cookie'] = kept
  <2>1. objects[1].data = kept
    BY <1>1, <1>2 DEF SessionInv, WhileRunning
  <2>2. store' = With(store, objects[1].id, objects[1].data) /\ cookie' = objects[1].id
    BY <1>1, <1>2, <2>1 DEF End
  <2>. QED  BY <2>1, <2>2 DEF With
<1>3. ASSUME kept # None, bound = None
      PROVE  cookie' \notin DOMAIN store' /\ kept = Empty
  BY <1>1, <1>3 DEF SessionInv, WhileDestroyed, End
<1>. QED
  BY <1>1, <1>2, <1>3
     DEF SessionInv, ObjectsInv, WhileRunning, WhileDestroyed, WhileStored, InRequest, Empty

-----------------------------------------------------------------------------
\* SessionInv holds of every reachable state.
THEOREM SessionCorrect ==
    ASSUME SessionAssumptions
    PROVE  SessionSpec => []SessionInv
<1>1. SessionInit => SessionInv
  BY DEF SessionInit, SessionInv, ObjectsInv, WhileRunning, WhileDestroyed, WhileStored, InRequest
<1>2. SessionInv /\ [SessionNext]_sessionVars => SessionInv'
  <2>. SUFFICES ASSUME SessionInv, [SessionNext]_sessionVars PROVE SessionInv'
    OBVIOUS
  <2>1. CASE CreateContext      BY <2>1, ArriveKeeps
  <2>2. CASE End         BY <2>2, EndKeeps
  <2>3. CASE Clear       BY <2>3, WriteKeeps DEF Clear, Call
  <2>4. CASE Save        BY <2>4, SaveKeeps
  <2>5. CASE Regenerate  BY <2>5, RegenerateKeeps
  <2>6. CASE Reload      BY <2>6, ReloadKeeps
  <2>7. CASE Destroy     BY <2>7, DestroyKeeps
  <2>8. ASSUME NEW k \in SessionKeys, Delete(k)
        PROVE  SessionInv'
    BY <2>8, WriteKeeps DEF Delete, Call
  <2>9. ASSUME NEW k \in SessionKeys, NEW v \in SessionValues, Set(k, v)
        PROVE  SessionInv'
    BY <2>9, WriteKeeps DEF Set, Call
  <2>10. CASE UNCHANGED sessionVars
    BY <2>10 DEF SessionInv, ObjectsInv, WhileRunning, WhileDestroyed, WhileStored, InRequest, Empty, sessionVars
  <2>. QED
    BY <2>1, <2>2, <2>3, <2>4, <2>5, <2>6, <2>7, <2>8, <2>9, <2>10 DEF SessionNext
<1>. QED  BY <1>1, <1>2, PTL DEF SessionSpec

\* A handler reads what the client's earlier requests left in the session, and
\* nothing of a session that was destroyed, until the request gets another
\* session object (HttpSession of both adapters).
THEOREM SessionIsKeptCorrect ==
    ASSUME SessionAssumptions
    PROVE  SessionSpec => []SessionIsKept
<1>1. SessionInv => SessionIsKept
  BY DEF SessionInv, ObjectsInv, WhileRunning, SessionIsKept, SessionAssumptions, InRequest, Session
<1>. QED  BY <1>1, SessionCorrect, PTL
===============================================================================

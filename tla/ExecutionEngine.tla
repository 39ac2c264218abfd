--------------------------- MODULE ExecutionEngine ---------------------------
(***************************************************************************)
(* packages/engine: one call of ExecutionEngine.execute on a plan, with    *)
(* TimeoutProcessor and ResultProcessor.                                   *)
(*                                                                         *)
(* Two flows run side by side. The execution (before steps, then the       *)
(* handler) and, once the race is decided, the rest of execute: filters,   *)
(* after steps, result. Deciding the race does not stop the execution.     *)
(* Every invoked step is asynchronous and returns or throws when it likes. *)
(***************************************************************************)
EXTENDS Naturals, Sequences

CONSTANT MaxSteps   \* bound on the before steps, the filters and the after steps

ASSUME EngineAssumption == MaxSteps \in Nat

Errors == {"app", "timeout"}

\* before and after are numbers of steps, catch the errors each filter accepts.
Plans == [before : 0 .. MaxSteps, after : 0 .. MaxSteps, timeout : BOOLEAN,
          catch : UNION {[1 .. n -> SUBSET Errors] : n \in 0 .. MaxSteps}]

VARIABLES
    plan,           \* the ExecutionPlan
    execution,      \* "running", "returned" or "threw"
    step,           \* the before step it runs; the handler comes after the last one
    timer,          \* "none", "armed", "processing", "over" or "cleared"
    main,           \* "race", "catch", "after", "result", "resolved" or "rejected"
    pos,            \* the filter or after step that runs
    result,         \* "undefined", "handler" or "filter": where the value came from
    error,          \* context.error
    thrown,         \* a filter threw: execute rejects after the after steps
    afterRuns,      \* history: how often each after step was invoked
    afterThrew      \* history: an after step threw

vars == <<plan, execution, step, timer, main, pos, result, error, thrown, afterRuns, afterThrew>>
executionVars == <<execution, step>>
history == <<afterRuns, afterThrew>>

Init ==
    /\ plan \in Plans
    /\ execution = "running" /\ step = 1
    /\ timer = IF plan.timeout THEN "armed" ELSE "none"
    /\ main = "race" /\ pos = 0
    /\ result = "undefined" /\ error = "none" /\ thrown = FALSE
    /\ afterRuns = [i \in 1 .. plan.after |-> 0] /\ afterThrew = FALSE

-----------------------------------------------------------------------------
Settled == main \in {"resolved", "rejected"}

Invoke(i) == afterRuns' = [afterRuns EXCEPT ![i] = @ + 1]

\* The first after step is invoked, if there is one.
ToAfter(threw) ==
    /\ thrown' = threw
    /\ IF plan.after > 0 THEN main' = "after" /\ pos' = 1 /\ Invoke(1)
       ELSE main' = (IF threw THEN "rejected" ELSE "result") /\ pos' = 0 /\ UNCHANGED afterRuns

\* The filters from position k on that accept the error.
Accepting(k, e) == {i \in k .. Len(plan.catch) : e \in plan.catch[i]}

ToCatch(k, e) ==
    LET A == Accepting(k, e) IN
    IF A = {} THEN ToAfter(FALSE)
    ELSE /\ main' = "catch" /\ pos' = CHOOSE i \in A : \A j \in A : i <= j
         /\ UNCHANGED <<thrown, afterRuns>>

\* The finally block of the race.
Cleared == IF timer = "armed" THEN "cleared" ELSE timer

Open == main = "race"

\* Not the code: for the mutants.
LateResultWins(v) == IF v THEN "handler" ELSE result

ResultOfRace(v) == IF v /\ Open THEN "handler" ELSE result

\* The execution and the timeout compete for the race: the first to return or
\* throw decides it, the other one changes nothing any more.
RaceReturns == IF Open THEN ToAfter(FALSE) /\ timer' = Cleared /\ UNCHANGED error
               ELSE UNCHANGED <<main, pos, thrown, afterRuns, timer, error>>
RaceThrows(e) ==
    IF Open THEN ToCatch(1, e) /\ timer' = Cleared /\ error' = e
    ELSE UNCHANGED <<main, pos, thrown, afterRuns, timer, error>>

(* The execution.                                                          *)
BeforeReturns ==
    /\ execution = "running" /\ step <= plan.before
    /\ step' = step + 1
    /\ UNCHANGED <<plan, execution, timer, main, pos, result, error, thrown, history>>

\* The handler returns a value or undefined.
HandlerReturns ==
    /\ execution = "running" /\ step > plan.before
    /\ execution' = "returned"
    /\ RaceReturns
    /\ \E v \in BOOLEAN : result' = ResultOfRace(v)
    /\ UNCHANGED <<plan, step, afterThrew>>

StepThrows ==
    /\ execution = "running"
    /\ execution' = "threw"
    /\ RaceThrows("app")
    /\ UNCHANGED <<plan, step, result, afterThrew>>

(* The timeout. Its callback finds finished set only if the timer has been *)
(* cleared, so that branch is unreachable and left out.                    *)
TimerFires ==
    /\ timer = "armed"
    /\ timer' = "processing"
    /\ UNCHANGED <<plan, executionVars, main, pos, result, error, thrown, history>>

\* A transport without a TimeoutResolver, or one whose resolver returns: the
\* race is over with the value undefined.
TimeoutReturns ==
    /\ timer = "processing"
    /\ IF Open THEN ToAfter(FALSE) ELSE UNCHANGED <<main, pos, thrown, afterRuns>>
    /\ timer' = "over"
    /\ UNCHANGED <<plan, executionVars, result, error, afterThrew>>

TimeoutThrows ==
    /\ timer = "processing"
    /\ IF Open THEN ToCatch(1, "timeout") /\ error' = "timeout"
       ELSE UNCHANGED <<main, pos, thrown, afterRuns, error>>
    /\ timer' = "over"
    /\ UNCHANGED <<plan, executionVars, result, afterThrew>>

(* The rest of execute.                                                    *)

\* A filter that returns undefined leaves the error to the next one.
FilterReturns ==
    /\ main = "catch"
    /\ \/ result' = "filter" /\ ToAfter(FALSE)
       \/ result' = "undefined" /\ ToCatch(pos + 1, error)
    /\ UNCHANGED <<plan, executionVars, timer, error, afterThrew>>

FilterThrows ==
    /\ main = "catch"
    /\ ToAfter(TRUE)
    /\ UNCHANGED <<plan, executionVars, timer, result, error, afterThrew>>

\* Not the code: for the mutants.
LastAfterSkipped == pos + 1 >= plan.after

LastAfter == pos = plan.after
AfterReturns ==
    /\ main = "after"
    /\ IF LastAfter
       THEN /\ main' = IF thrown THEN "rejected" ELSE "result"
            /\ pos' = 0 /\ UNCHANGED afterRuns
       ELSE pos' = pos + 1 /\ Invoke(pos + 1) /\ UNCHANGED main
    /\ UNCHANGED <<plan, executionVars, timer, result, error, thrown, afterThrew>>

AfterThrows ==
    /\ main = "after"
    /\ main' = "rejected" /\ afterThrew' = TRUE
    /\ UNCHANGED <<plan, executionVars, timer, pos, result, error, thrown, afterRuns>>

\* ResultProcessor.process.
ResultProcessed ==
    /\ main = "result"
    /\ main' \in {"resolved", "rejected"}
    /\ UNCHANGED <<plan, executionVars, timer, pos, result, error, thrown, history>>

Execution == BeforeReturns \/ HandlerReturns \/ StepThrows
Timeout == TimerFires \/ TimeoutReturns \/ TimeoutThrows
Rest == FilterReturns \/ FilterThrows \/ AfterReturns \/ AfterThrows \/ ResultProcessed

Next == Execution \/ Timeout \/ Rest

\* Timers fire, and filters, after steps and results end. The handler and the
\* before steps may hang.
Spec == Init /\ [][Next]_vars /\ WF_vars(Timeout) /\ WF_vars(Rest)

-----------------------------------------------------------------------------

\* Every after step runs once however the execution ended, unless one of them
\* throws: before the result is processed, and before execute rejects.
AfterStepsRunOnce ==
    /\ \A i \in DOMAIN afterRuns : afterRuns[i] <= 1
    /\ (main = "result" \/ Settled) /\ ~afterThrew =>
            \A i \in DOMAIN afterRuns : afterRuns[i] = 1

\* An execution that failed or timed out never delivers the handler's value,
\* however late the handler returns.
FailureIsNotAResult == error # "none" => result # "handler"
=============================================================================

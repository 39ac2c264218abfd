--------------------------------- MODULE Pipes ---------------------------------
(***************************************************************************)
(* The arguments of a handler: ParameterGenerator reads them from the      *)
(* request, PipeGenerator collects the steps of the class, the method and  *)
(* the parameter, PipeProcessor runs them, and the handler is invoked with *)
(* the results. Between two steps the processor awaits the injector, so    *)
(* that executions interleave; what they share is the configuration of the *)
(* steps, of which a regular expression with the g flag has a state.       *)
(*                                                                         *)
(* A string is a word with what the steps tell apart of it: white space    *)
(* around it, its case and something behind it.                            *)
(***************************************************************************)
EXTENDS Integers, Sequences

CONSTANTS
    Executions,
    Handlers,    \* [classPipes, methodPipes, parameters], parameters by index, each
                 \* [field, steps] or Undecorated
    Undecorated, \* no decorator, or one without a resolver
    Requests,    \* field -> value
    Numerals,    \* word -> number
    Words,       \* word -> length
    Yes, No,     \* the words of a boolean
    NaN

PipeSteps ==
    [step : {"Trim", "LowerCase", "UpperCase", "NotEmpty", "ParseInt", "ParseFloat", "ParseBoolean"}]
    \cup [step : {"Min", "Max", "MinLength", "MaxLength"}, value : Int]
    \cup [step : {"Range"}, min : Int, max : Int]
    \cup [step : {"ValidateSchema"}, class : STRING]
    \cup [step : {"Regex"}, pattern : [word : STRING, global : BOOLEAN]]

PipeValues ==
    [type : {"undefined"}]
    \cup [type : {"string"}, word : STRING, spaces : BOOLEAN, upper : BOOLEAN, more : BOOLEAN]
    \cup [type : {"number"}, n : Int] \cup [type : {"boolean"}, b : BOOLEAN]
    \cup [type : {"object"}, valid : BOOLEAN, instance : BOOLEAN]

\* A request has a value, if only undefined, for whatever a parameter reads.
ASSUME PipesAssumptions ==
    /\ \A w \in DOMAIN Numerals : Numerals[w] \in Int
    /\ \A h \in Handlers :
        /\ h.classPipes \in Seq(PipeSteps) /\ h.methodPipes \in Seq(PipeSteps)
        /\ h.parameters \in Seq({Undecorated} \cup [field : STRING, steps : Seq(PipeSteps)])
        /\ \A i \in DOMAIN h.parameters : h.parameters[i] # Undecorated =>
                /\ h.parameters[i].steps \in Seq(PipeSteps)
                /\ \A r \in Requests : r[h.parameters[i].field] \in PipeValues

VARIABLES
    handler, requests,
    state,       \* execution -> "new", "piping", "invoked" or the error
    position,    \* execution -> <<parameter, steps that were run>>
    value,       \* execution -> parameter -> its value so far
    lastIndex    \* the patterns with the g flag whose next test starts behind a match

pipesVars == <<handler, requests, state, position, value, lastIndex>>

PipesInit ==
    /\ handler \in Handlers
    /\ requests \in [Executions -> Requests]
    /\ state = [e \in Executions |-> "new"]
    /\ position = [e \in Executions |-> <<1, 0>>]
    /\ value = [e \in Executions |-> <<>>]
    /\ lastIndex = {}

-----------------------------------------------------------------------------
(* Values of JavaScript, and the steps.                                    *)

Undefined == [type |-> "undefined"]
String(word, spaces, upper, more) ==
    [type |-> "string", word |-> word, spaces |-> spaces, upper |-> upper, more |-> more]
Number(n) == [type |-> "number", n |-> n]
Boolean(b) == [type |-> "boolean", b |-> b]
Error(class) == [type |-> "error", error |-> class]

Length(v) == Words[v.word] + (IF v.spaces THEN 2 ELSE 0) + (IF v.more THEN 1 ELSE 0)
Empty(v) == v.type = "string" /\ Length(v) = 0

\* What a comparison makes of a value: a string with more than a numeral is NaN.
ToNumber(v) ==
    CASE v.type = "number" -> v.n
      [] v.type = "boolean" -> IF v.b THEN 1 ELSE 0
      [] v.type = "string" -> IF v.word \in DOMAIN Numerals /\ ~v.more THEN Numerals[v.word]
                              ELSE IF v.word = "" /\ ~v.more THEN 0 ELSE NaN
      [] OTHER -> NaN
Below(v, n) == IF ToNumber(v) = NaN THEN FALSE ELSE ToNumber(v) < n
Above(v, n) == IF ToNumber(v) = NaN THEN FALSE ELSE ToNumber(v) > n

\* parseInt and parseFloat stop at the first character that is no digit.
Parsed(v) ==
    CASE v.type = "number" -> v.n
      [] v.type = "string" -> IF v.word \in DOMAIN Numerals THEN Numerals[v.word] ELSE NaN
      [] OTHER -> NaN

ValidationError == Error("PipeStepValidationError")
ParsingError == Error("PipeStepParsingError")
TypeError == Error("TypeError")

Trim(v) == IF v.type = "string" THEN [v EXCEPT !.spaces = FALSE] ELSE v
LowerCase(v) == IF v.type = "string" THEN [v EXCEPT !.upper = FALSE] ELSE v
UpperCase(v) == IF v.type = "string" THEN [v EXCEPT !.upper = TRUE] ELSE v
NotEmpty(v) == IF v = Undefined \/ Empty(v) THEN ValidationError ELSE v

Min(v, n) == IF Below(v, n) THEN ValidationError ELSE v
Max(v, n) == IF Above(v, n) THEN ValidationError ELSE v
InRange(v, least, most) == IF Below(v, least) \/ Above(v, most) THEN ValidationError ELSE v

\* The length of undefined throws, that of a number is undefined and compares with nothing.
MinLength(v, n) ==
    IF v = Undefined THEN TypeError
    ELSE IF v.type = "string" /\ Length(v) < n THEN ValidationError ELSE v
MaxLength(v, n) ==
    IF v = Undefined THEN TypeError
    ELSE IF v.type = "string" /\ Length(v) > n THEN ValidationError ELSE v

ParseInt(v) == IF Parsed(v) = NaN THEN ParsingError ELSE Number(Parsed(v))
ParseFloat(v) == IF Parsed(v) = NaN THEN ParsingError ELSE Number(Parsed(v))
ParseBoolean(v) ==
    CASE v.type = "boolean" -> v
      [] v.type = "string" -> IF v.spaces \/ v.more \/ v.word \notin Yes \cup No THEN ParsingError
                              ELSE Boolean(v.word \in Yes)
      [] OTHER -> ParsingError

\* ValidateSchema.resolveSchema and execute: the class of the parameter, or none.
ValidateSchema(v, class) ==
    CASE class = "none" -> Error("PipeStepError")
      [] class # "none" /\ v.type # "object" -> ValidationError
      [] OTHER -> IF v.valid THEN [v EXCEPT !.instance = TRUE] ELSE ValidationError

\* A pattern is a word of letters from the first to the last character; no number is one.
Matches(v, pattern) == v.type = "string" /\ v.word = pattern.word /\ ~v.more /\ ~v.spaces
Passes(v, pattern) == Matches(v, pattern) /\ pattern \notin lastIndex
Regex(v, pattern) == IF Passes(v, pattern) THEN v ELSE ValidationError

\* The steps without a state.
Transform(step, v) ==
    CASE step.step = "Trim" -> Trim(v)
      [] step.step = "LowerCase" -> LowerCase(v)
      [] step.step = "UpperCase" -> UpperCase(v)
      [] step.step = "NotEmpty" -> NotEmpty(v)
      [] step.step = "Min" -> Min(v, step.value)
      [] step.step = "Max" -> Max(v, step.value)
      [] step.step = "Range" -> InRange(v, step.min, step.max)
      [] step.step = "MinLength" -> MinLength(v, step.value)
      [] step.step = "MaxLength" -> MaxLength(v, step.value)
      [] step.step = "ParseInt" -> ParseInt(v)
      [] step.step = "ParseFloat" -> ParseFloat(v)
      [] step.step = "ParseBoolean" -> ParseBoolean(v)
      [] step.step = "ValidateSchema" -> ValidateSchema(v, step.class)

Execute(step, v) == IF step.step = "Regex" THEN Regex(v, step.pattern) ELSE Transform(step, v)

-----------------------------------------------------------------------------
(* Generation and processing.                                              *)

IsDecorated(i) == handler.parameters[i] # Undecorated

\* The arguments reach up to the last decorated parameter, with holes.
LastDecorated ==
    LET decorated == {i \in DOMAIN handler.parameters : IsDecorated(i)} IN
    IF decorated = {} THEN 0 ELSE CHOOSE i \in decorated : \A j \in decorated : j <= i
HasHole == \E i \in 1 .. LastDecorated : ~IsDecorated(i)
HasParameterPipes == \E i \in 1 .. LastDecorated : IsDecorated(i) /\ handler.parameters[i].steps # <<>>

\* Not the code: for the mutants.
OwnStepsFirst(i) == handler.parameters[i].steps \o handler.classPipes \o handler.methodPipes

PipeStepsOf(i) == handler.classPipes \o handler.methodPipes \o handler.parameters[i].steps

Argument(e, i) == IF IsDecorated(i) THEN requests[e][handler.parameters[i].field] ELSE Undefined

\* A hole has no index to filter the steps of parameters by.
ReadArguments(e) ==
    /\ state[e] = "new"
    /\ value' = [value EXCEPT ![e] = [i \in 1 .. LastDecorated |-> Argument(e, i)]]
    /\ state' = [state EXCEPT ![e] = IF HasHole /\ HasParameterPipes THEN "TypeError" ELSE "piping"]
    /\ UNCHANGED <<handler, requests, position, lastIndex>>

Piping(e) == state[e] = "piping" /\ position[e][1] <= LastDecorated
Fails(e, error) == state' = [state EXCEPT ![e] = error] /\ UNCHANGED <<position, value>>

\* The value of a hole cannot be read.
ProcessHole(e) ==
    /\ Piping(e) /\ ~IsDecorated(position[e][1])
    /\ Fails(e, "TypeError")
    /\ UNCHANGED <<handler, requests, lastIndex>>

\* The test moves the pattern, or resets it.
Tested(step, v) ==
    IF step.step # "Regex" \/ ~step.pattern.global THEN lastIndex
    ELSE IF Passes(v, step.pattern) THEN lastIndex \cup {step.pattern} ELSE lastIndex \ {step.pattern}

ProcessStep(e) ==
    /\ Piping(e) /\ IsDecorated(position[e][1])
    /\ LET i == position[e][1]  n == position[e][2] + 1 IN
        /\ n <= Len(PipeStepsOf(i))
        /\ LET step == PipeStepsOf(i)[n]  v == value[e][i]  result == Execute(step, v) IN
            /\ lastIndex' = Tested(step, v)
            /\ IF result.type = "error" THEN Fails(e, result.error)
               ELSE /\ value' = [value EXCEPT ![e][i] = result]
                    /\ position' = [position EXCEPT ![e] = <<i, n>>]
                    /\ UNCHANGED state
    /\ UNCHANGED <<handler, requests>>

NextParameter(e) ==
    /\ Piping(e) /\ IsDecorated(position[e][1]) /\ position[e][2] = Len(PipeStepsOf(position[e][1]))
    /\ position' = [position EXCEPT ![e] = <<@[1] + 1, 0>>]
    /\ UNCHANGED <<handler, requests, state, value, lastIndex>>

InvokeHandler(e) ==
    /\ state[e] = "piping" /\ position[e][1] > LastDecorated
    /\ state' = [state EXCEPT ![e] = "invoked"]
    /\ UNCHANGED <<handler, requests, position, value, lastIndex>>

Run(e) == ReadArguments(e) \/ ProcessHole(e) \/ ProcessStep(e) \/ NextParameter(e) \/ InvokeHandler(e)
PipesNext == \E e \in Executions : Run(e)
PipesSpec == PipesInit /\ [][PipesNext]_pipesVars

-----------------------------------------------------------------------------
(* Properties.                                                             *)

\* What a step makes of a value that no step has refused; an expression lets
\* through what matches it, whatever its lastIndex is.
Accept(v, step) ==
    IF step.step # "Regex" THEN Transform(step, v)
    ELSE IF Matches(v, step.pattern) THEN v ELSE ValidationError
Apply(v, step) == IF v.type = "error" THEN v ELSE Accept(v, step)
ThroughSteps(steps, v) ==
    LET after[n \in 0 .. Len(steps)] == IF n = 0 THEN v ELSE Apply(after[n - 1], steps[n])
    IN after[Len(steps)]

\* A handler that is invoked gets for every parameter the value its own request
\* has under that parameter's field, accepted and converted by the steps of the
\* class, of the method and of the parameter in this order, whatever other
\* executions of the handler ran between two steps.
HandlerGetsItsArguments ==
    \A e \in Executions :
        state[e] = "invoked" => \A i \in 1 .. LastDecorated :
            LET p == handler.parameters[i] IN
            value[e][i] =
                ThroughSteps(p.steps, ThroughSteps(handler.methodPipes,
                    ThroughSteps(handler.classPipes, requests[e][p.field])))
=============================================================================

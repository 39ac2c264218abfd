---------------------------- MODULE QueryOperators ----------------------------
(***************************************************************************)
(* The vocabulary of the method names that DerivedQueries reads: operators *)
(* by the suffix that names them, with the number of arguments they take.  *)
(***************************************************************************)
EXTENDS Naturals, Sequences

Operator(name, suffix, arity) == [name |-> name, suffix |-> suffix, arity |-> arity]

\* A column without a suffix.
Equal == Operator("Equal", <<>>, 1)

OPERATORS == {
    Operator("IsNotNull", <<"Is", "Not", "Null">>, 0), Operator("IsNull", <<"Is", "Null">>, 0),
    Operator("GreaterThanEqual", <<"Greater", "Than", "Equal">>, 1),
    Operator("LessThanEqual", <<"Less", "Than", "Equal">>, 1),
    Operator("GreaterThan", <<"Greater", "Than">>, 1), Operator("LessThan", <<"Less", "Than">>, 1),
    Operator("Between", <<"Between">>, 2), Operator("In", <<"In">>, 1), Operator("Like", <<"Like">>, 1)}

Operators == OPERATORS \cup {Equal}

OrderBy == <<"Or", "der", "By">>
=============================================================================

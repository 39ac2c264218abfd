---------------------------- MODULE DerivedQueries ----------------------------
(***************************************************************************)
(* packages/data: repositories whose methods are derived from their names. *)
(* RepositoryGenerator finds the data source of each entity and returns a  *)
(* proxy; QueryMethodParser reads findByNameAndAgeLessThanOrderByName; the *)
(* SQL and the MongoDB engine execute what it read.                        *)
(*                                                                         *)
(* A name is a sequence of fragments between the cuts the parser can make: *)
(* the property `order` is <<"Or", "der">>. TypeORM is external: the rows  *)
(* a query selects stand for the query that is built. A value is a small   *)
(* number; the list x stands for x and x + 1, the pattern x for x or more. *)
(***************************************************************************)
EXTENDS Naturals, Sequences, FiniteSets, Selection, QueryOperators

CONSTANTS
    Null,
    Schemas,      \* sequences of columns
    Sources,      \* sequences of data sources [name, type, entities]
    Repositories, \* sequences of [target, entity]
    Queries,      \* what a programmer wants to ask for
    Malformed,    \* names that say nothing
    Inputs,       \* [args, page], the page Null for no PageRequest
    Rows

\* toPropertyTag writes the first letter of a path as a capital, and `Order` is
\* cut behind its Or: no tag starts with `der`.
ColumnTag == {t \in Seq(STRING) : t # <<>> /\ t[1] # "der"}
Column == [path : STRING, tag : ColumnTag, length : Nat]
Predicate == [path : STRING, operator : Operators]
OrderField == [path : STRING, direction : {"ASC", "DESC"}]
Query == [operation : {"findOne", "findMany", "count", "exists"},
          groups : Seq(Seq(Predicate) \ {<<>>}) \ {<<>>}, order : Seq(OrderField)]

\* The columns of an entity have paths of their own.
ASSUME QueriesAssumptions ==
    /\ Null \notin Nat
    /\ \A schema \in Schemas :
        /\ schema \in Seq(Column)
        /\ \A i, j \in DOMAIN schema : schema[i].path = schema[j].path => i = j
        /\ \A row \in Rows, i \in DOMAIN schema : row[schema[i].path] \in Nat \cup {Null}
    /\ Queries \subseteq Query
    /\ Malformed \subseteq [prefix : STRING, body : Seq(STRING)]
    /\ \A input \in Inputs : input.args \in Seq(Nat \cup {Null})

VARIABLES columns, dataSources, definitions, call

queryVars == <<columns, dataSources, definitions, call>>

NoCall == [status |-> "none"]

QueriesInit ==
    /\ columns \in Schemas
    /\ dataSources \in Sources
    /\ definitions = [status |-> "none"]
    /\ call = NoCall

-----------------------------------------------------------------------------
(* RepositoryGenerator.                                                    *)

HavingEntity(entity) == {i \in DOMAIN dataSources : entity \in dataSources[i].entities}
SourceOf(entity) == dataSources[CHOOSE i \in HavingEntity(entity) : \A j \in HavingEntity(entity) : i <= j]

Generate ==
    /\ definitions.status = "none"
    /\ definitions' =
        IF \E i \in DOMAIN Repositories : HavingEntity(Repositories[i].entity) = {}
        THEN [status |-> "failed"]
        ELSE [status |-> "generated",
              type |-> [i \in DOMAIN Repositories |-> SourceOf(Repositories[i].entity).type]]
    /\ UNCHANGED <<columns, dataSources, call>>

QueryPrefixes == {"findOneBy", "findBy", "countBy", "existsBy"}

\* The get trap of the proxy. Awaiting a repository probes for `then`.
RepositoryMembers == {"save", "find", "count", "exists", "remove"}
GetMember(property) ==
    CASE property.prefix \in RepositoryMembers /\ property.body = <<>> -> "member"
      [] property.prefix \in QueryPrefixes /\ property.body # <<>> -> "query"
      [] OTHER -> "undefined"

-----------------------------------------------------------------------------
(* QueryMethodParser.                                                      *)

OperationOf(prefix) ==
    CASE prefix = "findOneBy" -> "findOne" [] prefix = "findBy" -> "findMany"
      [] prefix = "countBy" -> "count" [] prefix = "existsBy" -> "exists"

\* Of the columns that read a segment, the first of those with the longest path.
LongestMatch(matches) ==
    columns[CHOOSE i \in matches : \A j \in matches :
        \/ columns[j].length < columns[i].length
        \/ columns[j].length = columns[i].length /\ i <= j]

ReadPredicate(segment) == {i \in DOMAIN columns : \E o \in Operators : segment = columns[i].tag \o o.suffix}

\* Not the code: for the mutants.
StartsWithOperator(segment) ==
    LET c == LongestMatch(ReadPredicate(segment)) IN
    [path |-> c.path,
     operator |-> CHOOSE o \in Operators : SubSeq(segment, 1, Len(c.tag \o o.suffix)) = c.tag \o o.suffix]

ParsePredicate(segment) ==
    LET c == LongestMatch(ReadPredicate(segment)) IN
    [path |-> c.path, operator |-> CHOOSE o \in Operators : segment = c.tag \o o.suffix]

Directions == {<<>>, <<"Asc">>, <<"Desc">>}
ReadOrder(segment) == {i \in DOMAIN columns : \E d \in Directions : segment = columns[i].tag \o d}
ParseOrder(segment) ==
    LET c == LongestMatch(ReadOrder(segment)) IN
    [path |-> c.path, direction |-> IF segment = c.tag \o <<"Desc">> THEN "DESC" ELSE "ASC"]

OrderBys(body) == {i \in 1 .. Len(body) - 2 : SubSeq(body, i, i + 2) = OrderBy}
FirstOrderBy(body) == CHOOSE i \in OrderBys(body) : \A j \in OrderBys(body) : i <= j
PredicateText(body) == IF OrderBys(body) = {} THEN body ELSE SubSeq(body, 1, FirstOrderBy(body) - 1)
OrderText(body) == IF OrderBys(body) = {} THEN <<>> ELSE SubSeq(body, FirstOrderBy(body) + 3, Len(body))

\* No column has an empty tag, so that none reads an empty segment.
GroupsOf(text) == LET ors == Split(text, "Or") IN [g \in DOMAIN ors |-> Split(ors[g], "And")]
OrderOf(text) == IF text = <<>> THEN <<>> ELSE Split(text, "And")
Readable(groups, order) ==
    /\ \A g \in DOMAIN groups : \A p \in DOMAIN groups[g] : ReadPredicate(groups[g][p]) # {}
    /\ \A i \in DOMAIN order : ReadOrder(order[i]) # {}

ParseError == [ok |-> FALSE]
Parse(method) ==
    LET at == OrderBys(method.body)
        groups == GroupsOf(PredicateText(method.body))
        order == OrderOf(OrderText(method.body)) IN
    IF \/ method.prefix \notin QueryPrefixes \/ method.body = <<>>
       \/ \E i, j \in at : i # j
       \/ at # {} /\ OrderText(method.body) = <<>>
       \/ PredicateText(method.body) = <<>>
       \/ ~Readable(groups, order)
    THEN ParseError
    ELSE [ok |-> TRUE, operation |-> OperationOf(method.prefix),
          groups |-> [g \in DOMAIN groups |-> [p \in DOMAIN groups[g] |-> ParsePredicate(groups[g][p])]],
          order |-> [i \in DOMAIN order |-> ParseOrder(order[i])]]

ExtractPageRequest(operation, page) ==
    page = Null \/ (page.size >= 1 /\ operation = "findMany")

-----------------------------------------------------------------------------
(* SQLQueryEngine and MongoQueryEngine.                                    *)

IsListed(v, x) == v \in {x, x + 1}
IsLike(v, x) == v >= x

\* A comparison with NULL is unknown, and a row is selected when it is true.
ToSql(operator, v, args) ==
    LET known == v # Null /\ \A i \in DOMAIN args : args[i] # Null IN
    CASE operator = "IsNotNull" -> v # Null
      [] operator = "IsNull" -> v = Null
      [] operator = "GreaterThanEqual" -> known /\ v >= args[1]
      [] operator = "LessThanEqual" -> known /\ v <= args[1]
      [] operator = "GreaterThan" -> known /\ v > args[1]
      [] operator = "LessThan" -> known /\ v < args[1]
      [] operator = "Between" -> known /\ args[1] <= v /\ v <= args[2]
      [] operator = "In" -> known /\ IsListed(v, args[1])
      [] operator = "Like" -> known /\ IsLike(v, args[1])
      [] operator = "Equal" -> known /\ v = args[1]

\* MongoDB compares values of one type only, and null with null.
ToMongoPredicate(operator, v, value, upperBound) ==
    LET numbers == v # Null /\ value # Null IN
    CASE operator = "IsNull" -> v = Null
      [] operator = "IsNotNull" -> v # Null
      [] operator = "GreaterThan" -> numbers /\ v > value
      [] operator = "GreaterThanEqual" -> v = value \/ (numbers /\ v >= value)
      [] operator = "LessThan" -> numbers /\ v < value
      [] operator = "LessThanEqual" -> v = value \/ (numbers /\ v <= value)
      [] operator = "Between" -> /\ v = value \/ (numbers /\ v >= value)
                                 /\ v = upperBound \/ (v # Null /\ upperBound # Null /\ v <= upperBound)
      [] operator = "In" -> value # Null /\ IsListed(v, value)
      [] operator = "Like" -> numbers /\ IsLike(v, value)
      [] operator = "Equal" -> v = value

\* Each predicate takes as many arguments as its operator has, after those of the
\* predicates before it: argIndex and nextArg.
PredicatePlaces(groups) == UNION {{<<g, p>> : p \in DOMAIN groups[g]} : g \in DOMAIN groups}
Taken(groups, places) == UNION {{<<at, k>> : k \in 1 .. groups[at[1]][at[2]].operator.arity} : at \in places}
Arity(groups) == Cardinality(Taken(groups, PredicatePlaces(groups)))
TakenBefore(groups, g, p) ==
    Cardinality(Taken(groups, {at \in PredicatePlaces(groups) : at[1] < g \/ (at[1] = g /\ at[2] < p)}))

WithArguments(groups, args) ==
    [g \in DOMAIN groups |-> [p \in DOMAIN groups[g] |->
        [path |-> groups[g][p].path, operator |-> groups[g][p].operator.name,
         args |-> SubSeq(args, TakenBefore(groups, g, p) + 1,
                         TakenBefore(groups, g, p) + groups[g][p].operator.arity)]]]

Nth(args, n) == IF n \in DOMAIN args THEN args[n] ELSE Null

ApplyPredicates(groups, args) ==
    LET bound == WithArguments(groups, args) IN
    {row \in Rows : \E g \in DOMAIN bound : \A p \in DOMAIN bound[g] :
        ToSql(bound[g][p].operator, row[bound[g][p].path], bound[g][p].args)}

BuildFilter(groups, args) ==
    LET bound == WithArguments(groups, args) IN
    {row \in Rows : \E g \in DOMAIN bound : \A p \in DOMAIN bound[g] :
        ToMongoPredicate(bound[g][p].operator, row[bound[g][p].path],
                         Nth(bound[g][p].args, 1), Nth(bound[g][p].args, 2))}

Selected(type, parsed, args) ==
    IF type = "sql" THEN ApplyPredicates(parsed.groups, args) ELSE BuildFilter(parsed.groups, args)

\* QueryEngine.execute knows the drivers of two families.
ExecuteQuery(type, parsed, args, page) ==
    IF \/ type \notin {"sql", "mongodb"}
       \/ ~parsed.ok
    THEN ParseError
    ELSE IF \/ ~ExtractPageRequest(parsed.operation, page)
            \/ parsed.order # <<>> /\ parsed.operation \in {"count", "exists"}
            \/ Len(args) # Arity(parsed.groups)
    THEN ParseError
    ELSE [ok |-> TRUE, operation |-> parsed.operation, order |-> parsed.order,
          rows |-> Selected(type, parsed, args),
          skip |-> IF page = Null THEN 0 ELSE page.page * page.size,
          take |-> IF page = Null THEN Null ELSE page.size]

-----------------------------------------------------------------------------
(* A method name says a query when it is written as the guide writes it.   *)

Paths == {columns[i].path : i \in DOMAIN columns}
Uses(query) == {query.groups[at[1]][at[2]].path : at \in PredicatePlaces(query.groups)}
               \cup {query.order[i].path : i \in DOMAIN query.order}

Tag(path) == columns[CHOOSE i \in DOMAIN columns : columns[i].path = path].tag
PrintPredicate(p) == Tag(p.path) \o p.operator.suffix
PrintOrder(o) == Tag(o.path) \o (IF o.direction = "DESC" THEN <<"Desc">> ELSE <<>>)
PrintGroups(groups) ==
    Join([g \in DOMAIN groups |-> Join([p \in DOMAIN groups[g] |-> PrintPredicate(groups[g][p])], "And")], "Or")
PrintOrders(order) ==
    IF order = <<>> THEN <<>> ELSE OrderBy \o Join([i \in DOMAIN order |-> PrintOrder(order[i])], "And")
PrintName(query) ==
    [prefix |-> CHOOSE p \in QueryPrefixes : OperationOf(p) = query.operation,
     body |-> PrintGroups(query.groups) \o PrintOrders(query.order)]

\* A call of a method of a repository: the name is read, then it is executed.
CallMethod(query, method) ==
    /\ definitions.status = "generated"
    /\ call = NoCall
    /\ GetMember(method) = "query"
    /\ call' = [status |-> "parsed", query |-> query, method |-> method, parsed |-> Parse(method)]
    /\ UNCHANGED <<columns, dataSources, definitions>>

ExecuteMethod(repository, args, page) ==
    /\ call.status = "parsed"
    /\ call' = [status |-> "executed", query |-> call.query, method |-> call.method, parsed |-> call.parsed,
                args |-> args, result |-> ExecuteQuery(definitions.type[repository], call.parsed, args, page)]
    /\ UNCHANGED <<columns, dataSources, definitions>>

QueriesNext ==
    \/ Generate
    \/ \E query \in {q \in Queries : Uses(q) \subseteq Paths} : CallMethod(query, PrintName(query))
    \/ \E method \in Malformed : CallMethod(Null, method)
    \/ \E repository \in DOMAIN Repositories, input \in Inputs : ExecuteMethod(repository, input.args, input.page)

QueriesSpec == QueriesInit /\ [][QueriesNext]_queryVars

-----------------------------------------------------------------------------
(* Properties.                                                             *)

\* Columns whose names hide neither a separator nor another column with an operator or a direction.
Tags == {columns[i].tag : i \in DOMAIN columns}
PlainColumns ==
    /\ \A i, j \in DOMAIN columns : columns[i].tag = columns[j].tag => i = j
    /\ \A t \in Tags : \A i \in DOMAIN t : t[i] \notin {"Or", "And"}
    /\ \A t, u \in Tags, o \in OPERATORS : t # u \o o.suffix
    /\ \A t, u \in Tags, d \in Directions \ {<<>>} : t # u \o d

\* The part of a query that its name says.
Said(query) == [ok |-> TRUE, operation |-> query.operation, groups |-> query.groups, order |-> query.order]

NamesAreRead ==
    /\ call.parsed.ok /\ ~(\E i \in DOMAIN call.method.body : call.method.body[i] = "Asc")
        => PrintName(call.parsed) = call.method
    /\ call.query # Null /\ PlainColumns => call.parsed = Said(call.query)

EnginesAgree ==
    call.result.ok /\ ~(\E i \in DOMAIN call.args : call.args[i] = Null) =>
        /\ ApplyPredicates(call.parsed.groups, call.args) = BuildFilter(call.parsed.groups, call.args)
        /\ call.query # Null /\ PlainColumns =>
            call.result.rows = ApplyPredicates(call.query.groups, call.args)

\* What the parser reads is what the name says, for every name it accepts, and
\* when no column can be taken for something else it reads every name that a
\* programmer writes for a query; both engines then select the same rows for
\* arguments that are not null, those the query asks for: each argument is used
\* by the predicate it was passed for. (QueryMethodParser, the query engines.)
QueriesMeanTheirNames ==
    /\ call.status # "none" => NamesAreRead
    /\ call.status = "executed" => EnginesAgree
=============================================================================

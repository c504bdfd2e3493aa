------------------------------ MODULE MCInputs ------------------------------
(***************************************************************************)
(* Inputs for the algorithms of MCData, for TLC, and two algorithms more, *)
(* each of which has an initial state for every `input', and no steps: the *)
(* filters of ODataFilter and the catalogs of SchemaSnapshot.              *)
(***************************************************************************)
EXTENDS MCData, TLC

\* the attributes that callers add to a transaction: a declared label and another
MCAttributes == [label : {"tenant"}, value : {0, 1}] \cup {[label |-> "other", value |-> 0]}

-----------------------------------------------------------------------------
(* Filters over a field x and a field y/z, of which a service supports x *)

Filter == INSTANCE ODataFilter WITH
    Fields <- {<<"x">>, <<"y", "z">>}, Numbers <- {0, 1, 2}, Supported <- {<<"x">>}

Named(name, property) == [node |-> "field", name |-> name, property |-> property]
X  == Named("x", <<>>)
YZ == Named("y", <<Named("z", <<>>)>>)
Bind(key) == [node |-> "bind", key |-> key]
NullOperand == [node |-> "value", value |-> Filter!Null]
ListOf(keys) == [node |-> "list", keys |-> keys]
Binary(op, l, r) == [node |-> op, left |-> l, right |-> r]
Call(method, l, r) == [node |-> "call", method |-> method, left |-> l, right |-> r]
Joined(op, nodes) == [node |-> op, operands |-> nodes]
Not(node) == [node |-> "not", inner |-> node]

\* two numbers, a text and a list of two; there is no fifth
Binds == LET One(value) == [list |-> FALSE, values |-> <<value>>]
         IN  <<One(Filter!Value("Real", 1)), One(Filter!Value("Text", 1)),
               [list |-> TRUE, values |-> <<Filter!Value("Real", 0), Filter!Value("Real", 1)>>],
               One(Filter!Value("Real", 2))>>

Leaves ==
    {Binary(op, X, Bind(b)) : op \in {"eq", "ne", "gt", "ge", "lt", "le"}, b \in {1, 4}}
    \cup {Binary("eq", YZ, Bind(1)), Binary("gt", YZ, Bind(4)), Binary("lt", Bind(1), X),
          Binary("eq", NullOperand, X), Binary("eq", Bind(5), X), Binary("ne", X, YZ),
          Binary("eqany", X, Bind(3)), Binary("in", X, ListOf(<<1, 4>>)), Binary("in", X, Bind(1)),
          Binary("contains", X, Bind(2)), Binary("substringof", Bind(2), YZ),
          Call("startswith", X, Bind(2)), Call("length", X, Bind(2))}
Filters ==
    LET Few == {l \in Leaves : l.node \in {"lt", "eqany"}}
        Trees == Leaves \cup {Not(a) : a \in Leaves}
                 \cup {Joined(op, <<a, b>>) : op \in {"and", "or"}, a, b \in Leaves}
                 \cup {Joined("and", <<Joined(op, <<a, b>>), Not(c), a>>) : op \in {"and", "or"}, a, b, c \in Few}
    IN  {[tree |-> <<t>>, binds |-> Binds] : t \in Trees} \cup {[tree |-> <<>>, binds |-> Binds]}

-----------------------------------------------------------------------------
(* Catalogs of a schema with a table t, which may refer to u or to x *)

Snapshot == INSTANCE SchemaSnapshot

IntegerType == [data |-> "integer", udt |-> "", udtSchema |-> "", length |-> "null",
                precision |-> "null", scale |-> "null", datetime |-> "null"]
Types == {IntegerType,
          [IntegerType EXCEPT !.data = "numeric", !.precision = "10"],
          [IntegerType EXCEPT !.data = "timestamp without time zone", !.datetime = "3"],
          [IntegerType EXCEPT !.data = "timestamp without time zone", !.datetime = "6"],
          [IntegerType EXCEPT !.data = "character varying", !.length = "10"]}
Column(n, type) == [attnum |-> n, type |-> type, nullable |-> "no", default |-> "null",
                    identity |-> "null", generated |-> "null"]
Constraint(contype, table, key) ==
    [contype |-> contype, key |-> <<1>>, deferrable |-> "no", expression |-> "e", onUpdate |-> "a", onDelete |-> "a",
     ref |-> [schema |-> "public", table |-> table, key |-> key]]

\* the columns of t in the order they were made, and made anew
Orders == {<<1, 2>>, <<3, 1>>}
PrimaryKeys == {<<>>, [p |-> Constraint("p", "", <<>>)]}
ForeignKeys == {<<>>} \cup {[f |-> Constraint("f", table, <<c>>)] : table \in {"u", "x"}, c \in {1, 2}}
Index(key, expressions) ==
    [i |-> [key |-> key, expressions |-> expressions, unique |-> "no", method |-> "btree",
            predicate |-> "null"]]
Indexes == {<<>>, Index(<<1>>, <<"">>), Index(<<0>>, <<"lower(a)">>), Index(<<0>>, <<"upper(a)">>),
            Index(<<0, 1>>, <<"lower(a)", "">>)}
\* of both columns, in both orders
Composites(order) == {Index(order, <<"", "">>), Index(<<order[2], order[1]>>, <<"", "">>)}

Catalog(order, primary, foreign, indexes, type) ==
    LET Of(numbers, t) == [a |-> Column(numbers[1], t), b |-> Column(numbers[2], IntegerType)]
        Other == [columns |-> Of(<<1, 2>>, IntegerType), indexes |-> <<>>, constraints |-> <<>>]
    IN  [public |-> [enums |-> [e |-> <<"v", "w">>], sequences |-> <<>>,
                     tables |-> [t |-> [columns |-> Of(order, type), indexes |-> indexes,
                                        constraints |-> primary @@ foreign],
                                 u |-> Other, x |-> Other]]]
Catalogs == {Catalog(o, p, f, i, IntegerType) : o \in Orders, p \in PrimaryKeys, f \in ForeignKeys, i \in Indexes}
            \cup {Catalog(o, <<>>, f, <<>>, type) : o \in Orders, f \in ForeignKeys, type \in Types}
            \cup UNION {{Catalog(o, <<>>, <<>>, i, IntegerType) : i \in Composites(o)} : o \in Orders}

\* rows of MySQL's statistics: a name may hold a dot
MysqlRow(name, ord, column) ==
    [schema |-> <<"s">>, table |-> <<"t">>, name |-> name, ord |-> ord, column |-> column,
     ref |-> column, unique |-> "yes"]
MysqlRows == SUBSET {MysqlRow(<<"i">>, 1, "a"), MysqlRow(<<"i">>, 2, "b"), MysqlRow(<<"PRIMARY">>, 1, "a"),
                     MysqlRow(<<"i", "j">>, 1, "b"), MysqlRow(<<"t", "j">>, 1, "b")}
MysqlTables == {<<<<"s">>, <<"t">>>>}

-----------------------------------------------------------------------------
(* Entries that match and set columns a and b, or c, which has no type *)

MCTypeByColumn == [a |-> "integer", b |-> "jsonb"]

MCUpdates ==
    LET Records(names, values) == UNION {[n -> values] : n \in names}
        Wheres == Records({{}, {"a"}, {"b"}, {"c"}}, {0, 1, Bulk!Null, Bulk!Undefined})
        Changes == Records({{}, {"b"}, {"a", "b"}}, {1, Bulk!Null, Bulk!Undefined})
        Every == [where : Wheres, data : Changes]
        Some == {e \in Every : DOMAIN e.where = {"a"} /\ e.data # <<>>}
        Lists == {<<>>} \cup {<<e>> : e \in Every} \cup (Every \X Some) \cup (Some \X Every)
                 \cup {<<e, e, e>> : e \in Some}
    IN  Lists \X [a : {0, 1}, b : {0, Bulk!Null}]

-----------------------------------------------------------------------------
(* Delays: Math.random() is a number of quarters *)

Optional(values) == {<<>>} \cup {<<v>> : v \in values}

\* a request's headers and retry, its options, and the jitter
MCRetries ==
    LET Header(form, value) == [form |-> form, value |-> value]
        Headers == {<<>>} \cup {<<Header(f, v)>> : f \in {"seconds", "date"}, v \in {-1, 0, 2, 90}}
                   \cup {<<Header("other", 0)>>, <<Header("seconds", -1), Header("seconds", 1)>>}
        Builders == {[kind |-> "constant", base |-> 500], [kind |-> "linear", base |-> 500],
                     [kind |-> "exponential", base |-> 500, multiplier |-> 3]}
    IN  Headers \X (1..4)
        \X [delay : Optional(Builders), maxDelay : Optional({0, 2001}), maxJitter : Optional({0, 7}),
            respectRetryAfter : Optional(BOOLEAN)]
        \X {0, 3}
MCPolls ==
    [initial : {-1, 0, 3, 10}, max : {-1, 3, 7, 40}, multiplier : {<<3, 2>>, <<1, 1>>, <<1, 2>>, <<0, 1>>},
     attempts : {0, 1, 4}, jitter : Optional({0, 5, 10, 11})] \X {0, 2, 3} \X {0, 3}
MCTries == (1..5) \X {0, 3} \X {0, 2, 20}
MCWaits == UNION {[1..(m + 2) -> {"truthy", "falsy", "throws", "rejects"}] \X {m} : m \in 0..2}

-----------------------------------------------------------------------------
(* Environments, topics and queues of the project p *)

MCEnvironments ==
    LET Every == [region : BOOLEAN, prefix : {0, 10, 11}, endpoint : {"unset", "url", "text"},
                keyId : BOOLEAN, secret : BOOLEAN, kmsKeyId : Optional({"k"}), owner : {"", "a"}]
    IN  Every \X {e \in Every : e.kmsKeyId = <<>> /\ e.owner = "a" /\ e.secret}

Name(app, separator, valid, n) == [app |-> app, separator |-> separator, valid |-> valid, length |-> n]
Short == Name("p", "-", TRUE, 9)
Queue(name, external) == [name |-> name, external |-> external, owner |-> "team"]
Created == {Queue(Short, FALSE), Queue(Name("p", "_", TRUE, 64), FALSE)}
QueueLists ==
    LET Names == {Name("p", separator, valid, n) : separator \in {"-", "_"}, valid \in BOOLEAN, n \in {9, 64, 65}}
                 \cup {Name("q", "-", TRUE, 9)}
        Every == {Queue(n, external) : n \in Names, external \in BOOLEAN}
    IN  {<<>>} \cup {<<q>> : q \in Every} \cup (Created \X Every)
Routings == [appEnv : {"development", "production"}, validate : BOOLEAN]
Resolutions ==
    [awsConfig : [prefix : {0, 9, 10}, owner : {"", " ", "a"}, kmsKeyId : {"k"}], isTest : BOOLEAN,
     update : {<<>>}, forceTags : Optional({FALSE}), preHandlers : {0}]

MCTopics ==
    LET Topic(name, external, queues, apps) ==
            [name |-> name, external |-> external, queues |-> queues, apps |-> apps, owner |-> "team"]
        Names == {Name("p", "-", TRUE, n) : n \in {9, 245, 246, 247}}
                 \cup {Name("p", "_", TRUE, 246), Name("q", "-", TRUE, 9), Name("p", "-", FALSE, 9)}
        Applications == {{}, {[name |-> "q", end |-> "-"]}, {[name |-> "p", end |-> "*"]}}
        Lists == {<<Topic(n, FALSE, q, a)>> : n \in Names, q \in QueueLists, a \in Applications}
                 \cup {<<Topic(n, TRUE, q, {})>> : n \in Names, q \in QueueLists}
                 \cup {<<Topic(n, FALSE, <<q>>, {}), Topic(Short, FALSE, <<q>>, {})>> : n \in Names, q \in Created}
    IN  Lists \X Routings \X {r \in Resolutions : r.awsConfig.owner = "" /\ r.forceTags = <<>>
                                                 /\ r.awsConfig.prefix # 9}
MCCommands == QueueLists \X {Short} \X Routings \X Resolutions

-----------------------------------------------------------------------------
(* The parts and the algorithms *)

MCInputsInit ==
    /\ \/ InputsInit
       \/ part = "filter" /\ input \in Filters
       \/ part = "snapshot" /\ input \in Catalogs \X Catalogs
       \/ part = "mysql" /\ input \in MysqlRows
    /\ PartsInit

InputsSpec == MCInputsInit /\ [][MCNext]_allVars

-----------------------------------------------------------------------------
(* Properties: the algorithms' own *)

\* A filter says of each row what was written, and what a service extracts from it loses
\* no row.
FiltersKeepMeaning ==
    part = "filter" => Filter!KeepsMeaning(input) /\ Filter!ExtractsWhatHolds(input)

\* Two snapshots are the same exactly when the databases are, and MySQL's keys are all there,
\* but for what SnapshotTellsApart and MysqlKeepsKeys leave open.
SnapshotsTellApart ==
    /\ part = "snapshot" => Snapshot!SnapshotTellsApart(input[1], input[2], {"public"}, {"x"})
    /\ part = "mysql" => Snapshot!MysqlKeepsKeys(MysqlTables, input)
=============================================================================

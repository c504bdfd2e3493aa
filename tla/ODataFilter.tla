----------------------------- MODULE ODataFilter -----------------------------
(***************************************************************************)
(* odata-mapper: the tree that @balena/odata-parser (external) makes of a  *)
(* $filter becomes a TransformedFilter, and services take from that the    *)
(* values, ranges and fields they know how to query.  A value has a type   *)
(* and a number; a text of number n contains, starts and ends with those   *)
(* of no greater number.                                                   *)
(***************************************************************************)
EXTENDS Integers, SequencesExt

CONSTANTS
    Fields,      \* the fields that rows have, by their paths
    Numbers,     \* the numbers of values
    Supported    \* the fields a service supports

Value(type, number) == [type |-> type, n |-> number]
Null == Value("Null", 0)
ToText(value) == Value("Text", value.n)

Error == [type |-> "error"]
ComparisonOperators == {"eq", "ne", "gt", "ge", "lt", "le"}
LogicalOperators == {"and", "or"}
StringFunctions == {"contains", "startswith", "endswith", "substringof", "tolower", "toupper"}

-----------------------------------------------------------------------------
(* Operands: a field has a name and a property or none, a bind is a key of *)
(* binds, a list is several binds; a value stands for itself               *)

RECURSIVE GetFieldPath(_)
GetFieldPath(field) ==
    <<field.name>> \o IF field.property = <<>> THEN <<>> ELSE GetFieldPath(field.property[1])

\* fault: the list of an `in' is taken for its first value
ExtractBindTupleValuesFirst(values) == IF values = <<>> THEN <<>> ELSE <<Head(values)>>

\* the values of the tuples that the parser keeps for `in'
ExtractBindTupleValues(values) == values

\* resolveBind: one value or several; none for a key that binds do not have
ResolveBind(binds, key) ==
    IF key \notin DOMAIN binds THEN [type |-> "error", values |-> <<>>]
    ELSE [type |-> IF binds[key].list THEN "list" ELSE "single", values |-> binds[key].values]

\* resolveBinds
ResolveBinds(binds, keys) ==
    LET resolved == [i \in DOMAIN keys |-> ResolveBind(binds, keys[i])]
    IN  IF \E i \in DOMAIN keys : resolved[i].type # "single" THEN Error
        ELSE [type |-> "values", values |-> [i \in DOMAIN keys |-> resolved[i].values[1]]]

\* resolveValue: a field's path is a text like any other
PathText == Value("Text", -1)
ResolveValue(operand, binds) ==
    CASE operand.node = "bind" ->
           LET resolved == ResolveBind(binds, operand.key)
           IN  IF resolved.type = "single" THEN [type |-> "value", value |-> resolved.values[1]] ELSE Error
      [] operand.node = "field" -> [type |-> "value", value |-> PathText]
      [] operand.node = "value" -> [type |-> "value", value |-> operand.value]
      [] OTHER -> Error

-----------------------------------------------------------------------------
(* filterTransformer *)

Comparison(field, operator, resolved) ==
    IF resolved = Error THEN Error
    ELSE [type |-> "comparison", field |-> GetFieldPath(field), operator |-> operator,
          value |-> resolved.value]

\* transformComparison: the operator stays when the field is on the right
TransformComparison(node, binds) ==
    IF node.left.node = "field" THEN Comparison(node.left, node.node, ResolveValue(node.right, binds))
    ELSE IF node.right.node = "field"
    THEN Comparison(node.right, node.node, ResolveValue(node.left, binds))
    ELSE Error

\* transformIn
TransformIn(node, binds) ==
    LET resolved ==
            CASE node.right.node = "list" -> ResolveBinds(binds, node.right.keys)
              [] node.right.node = "bind" ->
                   LET found == ResolveBind(binds, node.right.key)
                   IN  CASE found.type = "error" -> Error
                         [] found.type = "list" ->
                              [type |-> "values", values |-> ExtractBindTupleValues(found.values)]
                         [] OTHER -> [type |-> "values", values |-> found.values]
              [] OTHER -> Error
    IN  IF resolved = Error THEN Error
        ELSE [type |-> "in", field |-> GetFieldPath(node.left), values |-> resolved.values]

\* one field and one bind, in either order; the value is made a text
StringFunction(method, first, second, binds) ==
    LET Filter(field, key) ==
            LET resolved == ResolveBind(binds, key)
            IN  IF resolved.type = "error" THEN Error
                ELSE [type |-> "string-function", function |-> method, field |-> GetFieldPath(field),
                      value |-> ToText(resolved.values[1])]
    IN  CASE first.node = "field" /\ second.node = "bind" -> Filter(first, second.key)
          [] first.node = "bind" /\ second.node = "field" -> Filter(second, first.key)
          [] OTHER -> Error

\* transformStringFunction, transformCallFunction
TransformStringFunction(node, binds) == StringFunction(node.node, node.left, node.right, binds)
TransformCallFunction(node, binds) ==
    IF node.method \in StringFunctions THEN StringFunction(node.method, node.left, node.right, binds)
    ELSE Error

RECURSIVE TransformFilterNode(_, _)

\* transformLogical: one operand that is not supported refuses the filter
TransformLogical(node, binds) ==
    LET filters == [i \in DOMAIN node.operands |-> TransformFilterNode(node.operands[i], binds)]
    IN  IF \E i \in DOMAIN filters : filters[i].type = "error" THEN Error
        ELSE [type |-> "logical", operator |-> node.node, filters |-> filters]

\* transformNot
TransformNot(node, binds) ==
    LET inner == TransformFilterNode(node.inner, binds)
    IN  IF inner.type = "error" THEN Error ELSE [type |-> "not", filter |-> inner]

TransformFilterNode(node, binds) ==
    CASE node.node \in ComparisonOperators -> TransformComparison(node, binds)
      [] node.node \in {"in", "eqany"} ->
           IF node.left.node = "field" THEN TransformIn(node, binds) ELSE Error
      [] node.node \in StringFunctions -> TransformStringFunction(node, binds)
      [] node.node = "call" -> TransformCallFunction(node, binds)
      [] node.node \in LogicalOperators ->
           IF Len(node.operands) >= 2 THEN TransformLogical(node, binds) ELSE Error
      [] node.node = "not" -> TransformNot(node, binds)
      [] OTHER -> Error

\* parseAndTransformFilter: an empty filter is refused like one that does not parse
ParseAndTransformFilter(parsed) ==
    IF parsed.tree = <<>> THEN Error ELSE TransformFilterNode(parsed.tree[1], parsed.binds)

-----------------------------------------------------------------------------
(* filterExtractor *)

RECURSIVE FlattenFilters(_)
FlattenFilters(filter) ==
    CASE filter.type = "logical" -> FlattenSeq([i \in DOMAIN filter.filters |-> FlattenFilters(filter.filters[i])])
      [] filter.type = "not"     -> FlattenFilters(filter.filter)
      [] OTHER                   -> <<filter>>

GetFiltersForField(filter, field) == SelectSeq(FlattenFilters(filter), LAMBDA f : f.field = field)
Comparisons(filter, field, operators) ==
    SelectSeq(GetFiltersForField(filter, field), LAMBDA f : f.type = "comparison" /\ f.operator \in operators)

First(s) == IF s = <<>> THEN <<>> ELSE <<Head(s)>>
Last1(s) == IF s = <<>> THEN <<>> ELSE <<Last(s)>>
ValuesOf(comparisons) == [i \in DOMAIN comparisons |-> comparisons[i].value]

ExtractEqualityValues(filter, field) == ValuesOf(Comparisons(filter, field, {"eq"}))
ExtractEqualityValue(filter, field) == First(ExtractEqualityValues(filter, field))
ExtractComparison(filter, field, operator) == First(Comparisons(filter, field, {operator}))
ExtractStringFunction(filter, field, function) ==
    First(SelectSeq(GetFiltersForField(filter, field),
                    LAMBDA f : f.type = "string-function" /\ f.function = function))

\* The first `in' of the field; a sequence of its values, if there is one
ExtractInValues(filter, field) ==
    LET ins == First(SelectSeq(GetFiltersForField(filter, field), LAMBDA f : f.type = "in"))
    IN  [i \in DOMAIN ins |-> ins[i].values]

ExtractFieldValues(filter, field) ==
    LET ins == ExtractInValues(filter, field)
        eqs == ExtractEqualityValues(filter, field)
    IN  IF ins # <<>> THEN ins ELSE IF eqs # <<>> THEN <<eqs>> ELSE <<>>

\* the last bound of each kind stands, with its operator
ExtractRange(filter, field) ==
    [min |-> Last1(Comparisons(filter, field, {"gt", "ge"})),
     max |-> Last1(Comparisons(filter, field, {"lt", "le"}))]

\* refused where a bound that stands is not inclusive
ExtractInclusiveRange(filter, field) ==
    LET range == ExtractRange(filter, field)
        Inclusive(bounds, operator) == bounds = <<>> \/ bounds[1].operator = operator
    IN  IF Inclusive(range.min, "ge") /\ Inclusive(range.max, "le")
        THEN [type |-> "range", range |-> range] ELSE Error

\* as the set of the names
GetFilteredFieldNames(filter) == {f.field : f \in ToSet(FlattenFilters(filter))}
HasFieldFilter(filter, field) == GetFiltersForField(filter, field) # <<>>
FindUnsupportedField(filter) == GetFilteredFieldNames(filter) \ Supported

RECURSIVE Collect(_, _)
Collect(filter, operator) ==
    IF filter.type = "logical" /\ filter.operator = operator
    THEN FlattenSeq([i \in DOMAIN filter.filters |-> Collect(filter.filters[i], operator)])
    ELSE <<filter>>
CollectAndFilters(filter) == Collect(filter, "and")
CollectOrFilters(filter) == Collect(filter, "or")

\* createFilterMap
CreateFilterMap(filter) ==
    [field \in GetFilteredFieldNames(filter) |-> GetFiltersForField(filter, field)]

\* extractAllFieldValues
ExtractAllFieldValues(filter) ==
    LET map == CreateFilterMap(filter)
        Values(f) == IF f.type = "in" THEN f.values ELSE <<f.value>>
        All(field) == FlattenSeq([i \in DOMAIN map[field] |-> Values(map[field][i])])
    IN  [field \in {g \in DOMAIN map : All(g) # <<>>} |-> All(field)]

-----------------------------------------------------------------------------
(* What a filter says of a row, as it was written and as it was transformed *)

Rows == [Fields -> {Value("Real", n) : n \in Numbers} \cup {Null}]

\* null is ordered with nothing, and a text only contains a text
Compares(operator, a, b) ==
    CASE operator = "eq" -> a = b
      [] operator = "ne" -> a # b
      [] OTHER -> /\ a.type = b.type /\ a # Null
                  /\ CASE operator = "gt" -> a.n > b.n
                       [] operator = "ge" -> a.n >= b.n
                       [] operator = "lt" -> a.n < b.n
                       [] OTHER -> a.n <= b.n
HasText(value, text) == value # Null /\ value.n >= text.n

RECURSIVE Means(_, _, _), Says(_, _)
Means(node, binds, row) ==
    LET Eval(o) == CASE o.node = "field" -> row[GetFieldPath(o)]
                     [] o.node = "bind"  -> binds[o.key].values[1]
                     [] OTHER            -> o.value
        Listed == IF node.right.node = "list" THEN {binds[k].values[1] : k \in ToSet(node.right.keys)}
                  ELSE ToSet(binds[node.right.key].values)
    IN  CASE node.node \in ComparisonOperators -> Compares(node.node, Eval(node.left), Eval(node.right))
          [] node.node \in {"in", "eqany"} -> Eval(node.left) \in Listed
          [] node.node \in StringFunctions \/ node.node = "call" ->
               LET method == IF node.node = "call" THEN node.method ELSE node.node
               IN  IF method = "substringof" THEN HasText(Eval(node.right), Eval(node.left))
                   ELSE HasText(Eval(node.left), Eval(node.right))
          [] node.node = "and" -> \A i \in DOMAIN node.operands : Means(node.operands[i], binds, row)
          [] node.node = "or"  -> \E i \in DOMAIN node.operands : Means(node.operands[i], binds, row)
          [] OTHER -> ~Means(node.inner, binds, row)

Says(filter, row) ==
    CASE filter.type = "comparison" -> Compares(filter.operator, row[filter.field], filter.value)
      [] filter.type = "in" -> row[filter.field] \in ToSet(filter.values)
      [] filter.type = "string-function" -> HasText(row[filter.field], filter.value)
      [] filter.type = "not" -> ~Says(filter.filter, row)
      [] filter.type = "logical" /\ filter.operator = "and" ->
           \A i \in DOMAIN filter.filters : Says(filter.filters[i], row)
      [] OTHER -> \E i \in DOMAIN filter.filters : Says(filter.filters[i], row)

\* The field is where the transformation looks for it.  A field on the wrong side of
\* an operator with a direction is taken as if it were on the other, and a second field
\* is taken for a text.
RECURSIVE Upright(_)
Upright(node) ==
    CASE node.node \in LogicalOperators -> \A i \in DOMAIN node.operands : Upright(node.operands[i])
      [] node.node = "not" -> Upright(node.inner)
      [] node.node \in {"eq", "ne"} -> {node.left.node, node.right.node} # {"field"}
      [] node.node \in ComparisonOperators -> node.left.node = "field" /\ node.right.node # "field"
      [] node.node \in StringFunctions \/ node.node = "call" ->
           LET method == IF node.node = "call" THEN node.method ELSE node.node
           IN  (IF method = "substringof" THEN node.right ELSE node.left).node = "field"
      [] OTHER -> TRUE

-----------------------------------------------------------------------------
(* Properties, of a parsed filter *)

\* A filter that is accepted says of every row what was written, down to the bounds of
\* its lists and whatever the order of its operands, if it is upright.
KeepsMeaning(parsed) ==
    LET filter == ParseAndTransformFilter(parsed)
    IN  filter.type # "error" /\ Upright(parsed.tree[1]) =>
            \A row \in Rows : Means(parsed.tree[1], parsed.binds, row) = Says(filter, row)

\* What a service extracts from a filter of conditions that all must hold is true of each
\* row the filter admits, so the query it builds loses none; and a filter all of whose
\* fields are supported reads no other.
ExtractsWhatHolds(parsed) ==
    LET filter == ParseAndTransformFilter(parsed)
        Narrow(field, row) ==
            LET range == ExtractRange(filter, field)
                strict == ExtractInclusiveRange(filter, field)
                listed == ExtractFieldValues(filter, field)
            IN  /\ listed # <<>> => row[field] \in ToSet(listed[1])
                /\ \A b \in ToSet(range.min) : row[field].n >= b.value.n
                /\ \A b \in ToSet(range.max) : row[field].n <= b.value.n
                /\ strict # Error => \A b \in ToSet(strict.range.min \o strict.range.max) : Says(b, row)
                /\ \A v \in ToSet(ExtractEqualityValue(filter, field)) : row[field] = v
    IN  filter.type # "error" =>
          /\ CollectAndFilters(filter) = FlattenFilters(filter) =>
                \A row \in Rows : Says(filter, row) => \A field \in Fields : Narrow(field, row)
          /\ FindUnsupportedField(filter) = {} =>
                \A row, other \in Rows :
                    (\A field \in Supported : row[field] = other[field]) => Says(filter, row) = Says(filter, other)
          /\ DOMAIN ExtractAllFieldValues(filter) \subseteq {f \in Fields : HasFieldFilter(filter, f)}
=============================================================================

----------------------------- MODULE BulkUpdate -----------------------------
(***************************************************************************)
(* drizzle-utils' drizzleFullBulkUpdate and prisma-utils'                  *)
(* prismaBulkUpdate: one statement that joins a table with a list of       *)
(* VALUES made of entries [where, data], which are functions from columns  *)
(* to values.  The database, and its UPDATE ... FROM, are external.        *)
(***************************************************************************)
EXTENDS Integers, Sequences, FiniteSets

CONSTANTS
    UpdateColumns,        \* the names that an entry may use
    TypeByColumn,         \* the types of the columns; no others have one
    EntriesLimit, BindParametersLimit

Null == -1        \* SQL's NULL
JsonNull == -2    \* null of a json column
Undefined == -3   \* a property without a value

\* records of some of the columns, and the entries of an update of a row
IsRecord(r) == DOMAIN r \subseteq UpdateColumns /\ r \in [DOMAIN r -> Int]
IsUpdate(entries, row) ==
    /\ entries \in Seq({entries[i] : i \in DOMAIN entries})
    /\ \A i \in DOMAIN entries : IsRecord(entries[i].where) /\ IsRecord(entries[i].data)
    /\ IsRecord(row) /\ DOMAIN TypeByColumn \subseteq DOMAIN row

Refused == [type |-> "refused"]

\* fault: a column that is not to be touched is set to NULL
DefinedColumnNamesAll(record) == DOMAIN record
\* definedColumnNames: what is undefined is left as it is
DefinedColumnNames(record) == {c \in DOMAIN record : record[c] # Undefined}

Json(column) == TypeByColumn[column] \in {"json", "jsonb"}

\* toSqlCastValue: null of a json column is stringified like any value
ToSqlCastValue(value, column) == IF Json(column) /\ value = Null THEN JsonNull ELSE value

\* renderTypedValue: null is NULL of any type
RenderTypedValue(value, column) == value

Render(client, value, column) ==
    IF client = "drizzle" THEN ToSqlCastValue(value, column) ELSE RenderTypedValue(value, column)

-----------------------------------------------------------------------------

\* the entries have the columns of the first, each with a value; names are those that
\* each entry is to set
Same(entries, where, data, names) ==
    \A i \in DOMAIN entries :
        /\ Cardinality(DOMAIN entries[i].where) = Cardinality(where)
        /\ \A c \in where : c \in DOMAIN entries[i].where /\ entries[i].where[c] # Undefined
        /\ Cardinality(names[i]) = Cardinality(data)
        /\ \A c \in data : c \in DOMAIN entries[i].data /\ entries[i].data[c] # Undefined

\* prepareSqlValuesExpressions: a row of VALUES for each entry
Statement(entries, where, data, client) ==
    [type |-> "update", where |-> where, data |-> data,
     values |-> [i \in DOMAIN entries |->
                    [where |-> [c \in where |-> Render(client, entries[i].where[c], c)],
                     data  |-> [c \in data |-> Render(client, entries[i].data[c], c)]]]]

\* drizzleFullBulkUpdate: the database refuses a column that is named twice
DrizzleFullBulkUpdate(entries) ==
    LET where == DOMAIN entries[1].where
        data == DOMAIN entries[1].data
        names == [i \in DOMAIN entries |-> DOMAIN entries[i].data]
    IN  IF \/ entries = <<>>
           \/ ~(where \cup data \subseteq DOMAIN TypeByColumn)
           \/ where = {} \/ data = {}
           \/ ~Same(entries, where, data, names)
           \/ where \cap data # {}
        THEN Refused ELSE Statement(entries, where, data, "drizzle")

\* prismaBulkUpdate, resolveColumns
PrismaBulkUpdate(entries) ==
    LET where == DOMAIN entries[1].where
        data == DefinedColumnNames(entries[1].data)
        names == [i \in DOMAIN entries |-> DefinedColumnNames(entries[i].data)]
    IN  IF \/ entries = <<>> \/ Len(entries) > EntriesLimit
           \/ ~(where \cup data \subseteq DOMAIN TypeByColumn)
           \/ where = {} \/ data = {}
           \/ \E c \in where : entries[1].where[c] = Undefined
           \/ where \cap data # {}
           \/ Len(entries) * (Cardinality(where) + Cardinality(data)) > BindParametersLimit
           \/ ~Same(entries, where, data, names)
        THEN Refused ELSE Statement(entries, where, data, "prisma")

-----------------------------------------------------------------------------
(* The database: a table is a set of rows, which have an id of their own *)

\* NULL equals nothing
Matches(row, where) == \A c \in DOMAIN where : where[c] # Null /\ row[c] = where[c]

\* UPDATE ... FROM (VALUES ...) WHERE: a row that matches several takes any of them
Outcomes(row, statement) ==
    LET matching == {v \in {statement.values[i] : i \in DOMAIN statement.values} : Matches(row, v.where)}
        Updated(v) == [c \in DOMAIN row |-> IF c \in statement.data THEN v.data[c] ELSE row[c]]
    IN  IF matching = {} THEN {row} ELSE {Updated(v) : v \in matching}

-----------------------------------------------------------------------------
(* Properties, of a list of entries and a row *)

\* What an update of its own per entry makes of a row
UpdateBy(row, entry) ==
    LET Set(c) == c \in DOMAIN entry.data /\ entry.data[c] # Undefined
    IN  IF Matches(row, entry.where)
        THEN [c \in DOMAIN row |-> IF Set(c) THEN entry.data[c] ELSE row[c]] ELSE row
OneByOne(row, entries) ==
    LET upTo[i \in 0..Len(entries)] ==
            IF i = 0 THEN row ELSE UpdateBy(upTo[i - 1], entries[i])
    IN  upTo[Len(entries)]

\* Entries that can be one statement: the same columns to match and to set, which names
\* are, in each, none of them both, all of them known
WellFormed(entries, names) ==
    \E where, data \in (SUBSET DOMAIN TypeByColumn) \ {{}} :
        /\ where \cap data = {} /\ entries # <<>>
        /\ \A i \in DOMAIN entries :
              /\ DOMAIN entries[i].where = where
              /\ \A c \in where : entries[i].where[c] # Undefined
              /\ names[i] = data
              /\ \A c \in data : entries[i].data[c] # Undefined

\* What a bulk update makes of a row is what its entries would make of it one by one,
\* and when two of them match the same rows, what one of them would.
Applies(row, entries, statement) ==
    LET Distinct == \A i, j \in DOMAIN entries : entries[i].where = entries[j].where => i = j
    IN  IF Distinct THEN Outcomes(row, statement) = {OneByOne(row, entries)}
        ELSE Outcomes(row, statement) \subseteq
                {row} \cup {OneByOne(row, <<entries[i]>>) : i \in DOMAIN entries}

\* Entries without a NULL for a json column
Faithful(entries) ==
    \A i \in DOMAIN entries : \A r \in {entries[i].where, entries[i].data} :
        \A c \in DOMAIN r : r[c] = Null => ~Json(c)

\* A bulk update does to every row what its entries would do one by one when no two
\* match the same rows, and otherwise what one of them would; and only entries that
\* cannot be one statement, or are too many for it, are refused.  drizzle's makes a
\* JSON null of the NULL for a json column, where a plain update does not.
BulkUpdatesApply(entries, row) ==
    LET given == [i \in DOMAIN entries |-> {c \in DOMAIN entries[i].data : entries[i].data[c] # Undefined}]
        named == [i \in DOMAIN entries |-> DOMAIN entries[i].data]
        prisma == PrismaBulkUpdate(entries)
        drizzle == DrizzleFullBulkUpdate(entries)
    IN  /\ prisma = Refused <=>
              \/ ~WellFormed(entries, given)
              \/ Len(entries) > EntriesLimit
              \/ Len(entries) * Cardinality(DOMAIN entries[1].where \cup given[1]) > BindParametersLimit
        /\ prisma # Refused => Applies(row, entries, prisma)
        /\ drizzle = Refused <=> ~WellFormed(entries, named)
        /\ drizzle # Refused /\ Faithful(entries) => Applies(row, entries, drizzle)
=============================================================================

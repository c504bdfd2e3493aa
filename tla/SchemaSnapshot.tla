--------------------------- MODULE SchemaSnapshot ---------------------------
(***************************************************************************)
(* drizzle-utils: snapshotSchema reads a database's catalog (external) and *)
(* diffSchemaSnapshots compares two snapshots; an empty difference is the  *)
(* go-ahead for markMigrationsApplied (MigrationBaseline).  A catalog has  *)
(* schemas of tables, whose columns are numbered in the order they were    *)
(* made; the constraints and indexes of PostgreSQL refer to the numbers.   *)
(* (The names of PostgreSQL's schemas and tables are taken to hold no dot, *)
(* as the code does where it joins them by one.)                           *)
(***************************************************************************)
EXTENDS Naturals, SequencesExt, Functions, FiniteSetsExt

-----------------------------------------------------------------------------
(* The values that snapshots are made of, and diffSchemaSnapshots *)

Plain(value) == [kind |-> "plain", value |-> value]
Null == Plain("null")
List(items) == [kind |-> "list", items |-> items]
Object(fields) == [kind |-> "object", fields |-> fields]

Difference(path, kind) == [path |-> path, kind |-> kind]

RECURSIVE DiffValue(_, _, _)

\* diffObjects, of the fields
DiffObjects(before, after, path) ==
    UNION {IF key \notin DOMAIN before THEN {Difference(Append(path, key), "added")}
           ELSE IF key \notin DOMAIN after THEN {Difference(Append(path, key), "removed")}
           ELSE DiffValue(before[key], after[key], Append(path, key)) :
               key \in DOMAIN before \cup DOMAIN after}

\* diffValue, and diffArrays: a list differs as a whole
DiffValue(before, after, path) ==
    IF before = after THEN {}
    ELSE IF before.kind = "object" /\ after.kind = "object"
    THEN DiffObjects(before.fields, after.fields, path)
    ELSE {Difference(path, "changed")}

DiffSchemaSnapshots(before, after) == DiffValue(before, after, <<>>)

-----------------------------------------------------------------------------
(* Types of PostgreSQL: the parts of the text that stands for a row of     *)
(* information_schema.columns                                              *)

NoType == <<>>

BuildPgUserDefinedType(row) ==
    IF row.data \notin {"USER-DEFINED", "ARRAY"} \/ row.udt = "" THEN NoType
    ELSE IF row.udtSchema \in {"", "pg_catalog"} THEN <<row.udt>> ELSE <<row.udtSchema, row.udt>>

BuildPgCharType(row) ==
    IF row.length = "null" \/ row.data \notin {"character varying", "character", "bit", "bit varying"}
    THEN NoType ELSE <<row.data, row.length>>

BuildPgNumericType(row) ==
    IF row.data # "numeric" \/ row.precision = "null" THEN NoType
    ELSE IF row.scale # "null" THEN <<row.data, row.precision, row.scale>> ELSE <<row.data, row.precision>>

\* the types that begin with timestamp, time or interval
BuildPgDatetimeType(row) ==
    IF \/ row.datetime = "null"
       \/ row.data \notin {"interval"} \cup {"timestamp with time zone", "timestamp without time zone",
                                           "time with time zone", "time without time zone"}
    THEN NoType ELSE <<row.data, row.datetime>>

\* buildPgType: the first that applies
BuildPgType(row) ==
    Head(SelectSeq(<<BuildPgUserDefinedType(row), BuildPgCharType(row), BuildPgNumericType(row),
                     BuildPgDatetimeType(row), <<row.data>>>>, LAMBDA type : type # NoType))

-----------------------------------------------------------------------------
(* PostgreSQL and CockroachDB *)

\* loadPgTables
LoadPgTables(contents, excluded) == DOMAIN contents.tables \ excluded

\* loadPgAttMap: the names of the columns by number, of the tables that are captured
LoadPgAttMap(catalog, schemas, excluded) ==
    [key \in UNION {{<<s, t>> : t \in LoadPgTables(catalog[s], excluded)} : s \in schemas} |->
        LET columns == catalog[key[1]].tables[key[2]].columns
        IN  [n \in {columns[c].attnum : c \in DOMAIN columns} |->
                CHOOSE c \in DOMAIN columns : columns[c].attnum = n]]

\* Numbers arrive as a list of pieces, which commas separate, of what spaces do: one number
\* for each piece of an array, and all in one piece of the text of an int2vector
IntArray(numbers) == [i \in DOMAIN numbers |-> <<numbers[i]>>]
Int2Vector(numbers) == <<numbers>>

\* parsePgIntArray: a piece of several numbers is no number, and is left out
ParsePgIntArray(pieces) == FlattenSeq(SelectSeq(pieces, LAMBDA piece : Len(piece) = 1))

NameOf(attMap, schema, table, attnum) ==
    IF attnum \in DOMAIN attMap[<<schema, table>>] THEN attMap[<<schema, table>>][attnum] ELSE "attnum"

\* fault: the numbers themselves
ResolvePgColumnsNumbered(attMap, schema, table, attnums) == ParsePgIntArray(attnums)

\* resolvePgColumns: no names for a table that is not captured
ResolvePgColumns(attMap, schema, table, attnums) ==
    LET arr == ParsePgIntArray(attnums)
    IN  IF <<schema, table>> \notin DOMAIN attMap THEN <<>>
        ELSE [i \in DOMAIN arr |-> NameOf(attMap, schema, table, arr[i])]

\* buildPgColumn, parsePgIdentity
BuildPgColumn(column) ==
    Object([type |-> List(BuildPgType(column.type)), nullable |-> Plain(column.nullable),
            default |-> Plain(column.default), identity |-> Plain(column.identity),
            generated |-> Plain(column.generated)])

\* applyPgConstraintRow: a foreign key or one of the others
ApplyPgConstraintRow(attMap, schema, table, row) ==
    LET columns == List(ResolvePgColumns(attMap, schema, table, IntArray(row.key)))
    IN  CASE row.contype = "p" -> Object([columns |-> columns])
          [] row.contype = "u" -> Object([columns |-> columns, deferrable |-> Plain(row.deferrable)])
          [] row.contype = "c" -> Object([expression |-> Plain(row.expression)])
          [] row.contype = "f" ->
               Object([columns |-> columns, referencedSchema |-> Plain(row.ref.schema),
                       referencedTable |-> Plain(row.ref.table),
                       referencedColumns |-> List(ResolvePgColumns(attMap, row.ref.schema, row.ref.table,
                                                                   IntArray(row.ref.key))),
                       onUpdate |-> Plain(row.onUpdate), onDelete |-> Plain(row.onDelete)])

\* loadPgConstraints: those of a type, by name
LoadPgConstraints(attMap, schema, table, constraints, contype) ==
    Object([name \in {c \in DOMAIN constraints : constraints[c].contype = contype} |->
               ApplyPgConstraintRow(attMap, schema, table, constraints[name])])

\* the primary key, of which a table has one at most, has its name inside
PrimaryKey(attMap, schema, table, constraints) ==
    LET keys == {c \in DOMAIN constraints : constraints[c].contype = "p"}
    IN  IF keys = {} THEN Null
        ELSE LET name == CHOOSE c \in keys : TRUE
             IN  Object([name |-> Plain(name), key |-> ApplyPgConstraintRow(attMap, schema, table, constraints[name])])

\* loadPgIndexes: an expression stands for itself; an index of several columns has none,
\* since indkey is an int2vector
LoadPgIndexes(attMap, schema, table, indexes) ==
    LET Columns(row) ==
            LET indkey == ParsePgIntArray(Int2Vector(row.key))
            IN  [i \in DOMAIN indkey |-> IF indkey[i] = 0 THEN row.expressions[i]
                                         ELSE NameOf(attMap, schema, table, indkey[i])]
    IN  Object([name \in DOMAIN indexes |->
                   LET row == indexes[name]
                   IN  Object([columns |-> List(Columns(row)), unique |-> Plain(row.unique),
                               method |-> Plain(row.method), predicate |-> Plain(row.predicate)])])

\* loadPgColumns and the rest of one table
TableOf(attMap, schema, table, row) ==
    Object([columns |-> Object([c \in DOMAIN row.columns |-> BuildPgColumn(row.columns[c])]),
            primaryKey |-> PrimaryKey(attMap, schema, table, row.constraints),
            uniqueConstraints |-> LoadPgConstraints(attMap, schema, table, row.constraints, "u"),
            foreignKeys |-> LoadPgConstraints(attMap, schema, table, row.constraints, "f"),
            checkConstraints |-> LoadPgConstraints(attMap, schema, table, row.constraints, "c"),
            indexes |-> LoadPgIndexes(attMap, schema, table, row.indexes)])

\* loadPgEnums: the values in their order
LoadPgEnums(contents) == Object([e \in DOMAIN contents.enums |-> List(contents.enums[e])])

\* loadPgSequences
LoadPgSequences(contents) == Object([s \in DOMAIN contents.sequences |-> List(contents.sequences[s])])

\* snapshotPostgres
SnapshotPostgres(catalog, schemas, excluded) ==
    LET attMap == LoadPgAttMap(catalog, schemas, excluded)
        Tables(s) == [t \in LoadPgTables(catalog[s], excluded) |->
                         TableOf(attMap, s, t, catalog[s].tables[t])]
    IN  Object([s \in schemas |-> Object([tables |-> Object(Tables(s)), enums |-> LoadPgEnums(catalog[s]),
                                          sequences |-> LoadPgSequences(catalog[s])])])

-----------------------------------------------------------------------------
(* MySQL: one row for each column of an index or foreign key.  A name is   *)
(* the sequence of the parts between its dots.                             *)

\* splitKey3: the schema is all that comes before the last two parts
SplitKey3(key) == <<SubSeq(key, 1, Len(key) - 2), <<key[Len(key) - 1]>>, <<key[Len(key)]>>>>

\* the rows of one key, in the order of their numbers
Columns(rows, column) ==
    LET sorted == SetToSortSeq(rows, LAMBDA a, b : a.ord < b.ord)
    IN  [i \in DOMAIN sorted |-> sorted[i][column]]

\* accumulateMysqlIndexRow
AccumulateMysqlIndexRows(rows) ==
    [key \in {r.schema \o r.table \o r.name : r \in rows} |->
        LET own == {r \in rows : r.schema \o r.table \o r.name = key}
        IN  [unique |-> \E r \in own : r.unique = "yes", columns |-> Columns(own, "column")]]

\* loadMysqlIndexesAndKeys and applyMysqlIndexAggregate, as the set of the indexes
\* that tables get: PRIMARY becomes the primary key, and a unique one both
LoadMysqlIndexesAndKeys(tables, rows) ==
    LET accum == AccumulateMysqlIndexRows(rows)
        Of(key) ==
            LET split == SplitKey3(key)
                Entry(kind) == [table |-> <<split[1], split[2]>>, name |-> split[3], kind |-> kind,
                                columns |-> accum[key].columns]
            IN  IF <<split[1], split[2]>> \notin tables THEN {}
                ELSE IF split[3] = <<"PRIMARY">> THEN {Entry("primary")}
                ELSE {Entry("index")} \cup IF accum[key].unique THEN {Entry("unique")} ELSE {}
    IN  UNION {Of(key) : key \in DOMAIN accum}

\* loadMysqlForeignKeys and accumulateMysqlFkRow: the names are kept beside the key
LoadMysqlForeignKeys(tables, rows) ==
    {[table |-> <<r.schema, r.table>>, name |-> r.name,
      columns |-> Columns({o \in rows : <<o.schema, o.table, o.name>> = <<r.schema, r.table, r.name>>}, "column"),
      refColumns |-> Columns({o \in rows : <<o.schema, o.table, o.name>> = <<r.schema, r.table, r.name>>}, "ref")] :
        r \in {o \in rows : <<o.schema, o.table>> \in tables}}

-----------------------------------------------------------------------------
(* Properties *)

\* What a catalog says, its columns by name wherever they are numbered, with or
\* without the keys of the indexes that have several
Logical(catalog, schemas, excluded, composite) ==
    LET Name(s, t, n) == LET columns == catalog[s].tables[t].columns
                         IN  CHOOSE c \in DOMAIN columns : columns[c].attnum = n
        Names(s, t, key) == [i \in DOMAIN key |-> IF key[i] = 0 THEN "expression" ELSE Name(s, t, key[i])]
        Constraint(s, t, c) ==
            <<c.contype, Names(s, t, c.key), c.deferrable, c.expression, c.onUpdate, c.onDelete,
              c.ref.schema, c.ref.table, IF c.contype = "f" THEN Names(c.ref.schema, c.ref.table, c.ref.key) ELSE <<>>>>
        KeyOf(s, t, i) == IF Len(i.key) > 1 /\ ~composite THEN {} ELSE {<<Names(s, t, i.key), i.expressions>>}
        Index(s, t, i) == <<KeyOf(s, t, i), i.unique, i.method, i.predicate>>
    IN  [s \in schemas |->
            <<[t \in DOMAIN catalog[s].tables \ excluded |->
                  LET table == catalog[s].tables[t]
                  IN  <<[c \in DOMAIN table.columns |-> [table.columns[c] EXCEPT !.attnum = 0]],
                        [c \in DOMAIN table.constraints |-> Constraint(s, t, table.constraints[c])],
                        [i \in DOMAIN table.indexes |-> Index(s, t, table.indexes[i])]>>],
              catalog[s].enums, catalog[s].sequences>>]

\* Databases that are the same, however their columns are numbered, have the same snapshot,
\* and the same snapshot means the same database, with two exceptions that are left open:
\* keys that refer to different columns of a table that is not captured, and the columns
\* of an index that has several, which the code drops.  The difference in the other order
\* has the same paths, with what was added removed.
SnapshotTellsApart(catalog, other, schemas, excluded) ==
    LET before == SnapshotPostgres(catalog, schemas, excluded)
        after == SnapshotPostgres(other, schemas, excluded)
        Captured(c) == \A s \in schemas : \A t \in DOMAIN c[s].tables \ excluded :
                          \A k \in Range(c[s].tables[t].constraints) :
                              k.contype = "f" => k.ref.schema \in schemas /\ k.ref.table \notin excluded
        Flip(d) == [d EXCEPT !.kind = CASE @ = "added" -> "removed" [] @ = "removed" -> "added" [] OTHER -> @]
        Same(composite) ==
            Logical(catalog, schemas, excluded, composite) = Logical(other, schemas, excluded, composite)
        differences == DiffSchemaSnapshots(before, after)
    IN  /\ Same(TRUE) => differences = {}
        /\ differences = {} /\ Captured(catalog) /\ Captured(other) => Same(FALSE)
        /\ DiffSchemaSnapshots(after, before) = {Flip(d) : d \in differences}

\* Every index and foreign key of a captured table is in the snapshot with all its columns
\* in order.  Nothing is claimed of an index with a dot in its name, which the code loses.
MysqlKeepsKeys(tables, rows) ==
    \A r \in rows :
        LET own == {o \in rows : o.schema = r.schema /\ o.table = r.table /\ o.name = r.name}
            found == {e \in LoadMysqlIndexesAndKeys(tables, rows) :
                         e.table = <<r.schema, r.table>> /\ e.name = r.name}
        IN  <<r.schema, r.table>> \in tables =>
              /\ Len(r.name) = 1 => found # {} /\ \A e \in found : e.columns = Columns(own, "column")
              /\ \E f \in LoadMysqlForeignKeys(tables, rows) :
                    f.name = r.name /\ Len(f.columns) = Cardinality(own)
=============================================================================

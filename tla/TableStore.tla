----------------------------- MODULE TableStore -----------------------------
(***************************************************************************)
(* The tables of the week8 engine: their CSV files (storage/storage.c),    *)
(* the registry of in-memory indexes over them (index/table_index.c) and   *)
(* the statements that use both (execution/executor.c).  The server runs   *)
(* one statement at a time (LockManager under serial_all), so there is one *)
(* open statement; the process may stop between the append and the         *)
(* registration.  No id is stored: the id of a row is the number of lines  *)
(* up to it that are not blank.  The code counts them in an int, the model *)
(* in a natural number: a table of more rows than an int can count, where  *)
(* the code's next_id overflows, is outside it.                            *)
(*                                                                         *)
(* An INSERT is [table, columns, values], a SELECT [table, columns, where] *)
(* with no columns for the star and where empty or <<column, value>>.      *)
(***************************************************************************)
EXTENDS Schema, FiniteSets

CONSTANTS Inserts,    \* INSERT statements of the clients
          Selects,    \* SELECT statements of the clients
          OldFiles    \* the data files the program may start with

ASSUME TableStoreAssumption ==
  /\ Inserts \subseteq [table   : Text,
                        columns : Seq(Text) \ {<<>>},
                        values  : Seq(Text) \ {<<>>}]
  /\ Selects \subseteq [table   : Text,
                        columns : Seq(Text),
                        where   : {<<>>} \cup (Text \X Text)]
  /\ \A old \in OldFiles : old \in [DOMAIN old -> Text]

VARIABLES files,    \* the data file of each storage name
          registry, \* the index of each: loaded, tree, next_id
          pc, stmt, \* the open INSERT: where it is; its table, row, id, offset
          answer,   \* what the last statement told its client
          acked     \* history: storage name, id and row of every "INSERT 1"

storeVars == <<files, registry, pc, stmt, answer, acked>>

NoStmt == [table |-> <<>>]

\* The id of a row as snprintf's %d shows it.
Numeral(id) ==
  LET shown[n \in 0 .. id] ==
        IF n < 10 THEN <<Digits[n + 1]>>
        ELSE Append(shown[n \div 10], Digits[(n % 10) + 1])
  IN  shown[id]
-----------------------------------------------------------------------------
\* The lines of a data file that its readers count: the header and the
\* blank lines left out.
CountLine(counted, line) == IF line.text = <<>> THEN counted ELSE Append(counted, line)

DataLines(f) ==
  With(LinesFrom(f, 0), LAMBDA lines :
    Through(CountLine, <<>>, SubSeq(lines, 2, Len(lines))))

\* A registry entry that is new, or was invalidated.
Unloaded == [loaded |-> FALSE, tree |-> <<>>, next_id |-> 1]

\* The index that rebuild_row builds: the n-th line has id n.
Rebuilt(f) ==
  With(DataLines(f), LAMBDA lines :
    [loaded  |-> TRUE,
     tree    |-> [i \in DOMAIN lines |-> lines[i].offset],
     next_id |-> Len(lines) + 1])

\* The index of t after ensure_loaded; what that needs; how it fails.
ensure_loaded(t) == IF registry[t].loaded THEN registry[t] ELSE Rebuilt(files[t])
CanLoad(t) ==
  \/ registry[t].loaded
  \/ \A line \in Range(DataLines(files[t])) : csv_parse_line(line.text).ok
Load(t)    == registry' = [registry EXCEPT ![t] = ensure_loaded(t)]
LoadFails(t) == ~registry[t].loaded /\ registry' = [registry EXCEPT ![t] = Unloaded]

\* What a reader makes of a line: the fields, when there are n of them.
FieldsOf(line, n) ==
  With(csv_parse_line(line.text), LAMBDA parsed :
    IF parsed.ok /\ Len(parsed.fields) = n THEN parsed ELSE Bad)

\* schema_find_column, for a column that is there: the first of that name.
ColumnIndex(schema, c) == Min({i \in DOMAIN schema.columns : schema.columns[i] = c})
-----------------------------------------------------------------------------
(***************************************************************************)
(* The abstract view: the rows of a file by column, a line that gives no   *)
(* row being damaged; a name means the table whose schema it loads.        *)
(***************************************************************************)
StoredRow(line, columns) ==
  With(FieldsOf(line, Len(columns)), LAMBDA parsed :
    IF ~parsed.ok THEN <<>>
    ELSE [c \in Range(columns) |->
            parsed.fields[CHOOSE i \in DOMAIN columns : columns[i] = c]])

Names   == {st.table : st \in Inserts \cup Selects}
TableOf == [n \in {m \in Names : Declared(m).ok} |-> Declared(n).storage_name]
Columns == [t \in Range(TableOf) |->
              Declared(CHOOSE n \in DOMAIN TableOf : TableOf[n] = t).columns]
StoredRows ==
  [t \in Range(TableOf) |->
     IF t \notin DOMAIN files THEN <<>>
     ELSE With(DataLines(files[t]), LAMBDA lines :
            [i \in DOMAIN lines |-> StoredRow(lines[i], Columns[t])])]

Table == INSTANCE AppendOnlyTable
           WITH rows <- StoredRows, Id <- IdColumn, Number <- parse_int_strict
-----------------------------------------------------------------------------
Init ==
  /\ files \in OldFiles
  /\ registry = [t \in DOMAIN files |-> Unloaded]
  /\ pc = "idle" /\ stmt = NoStmt
  /\ answer = Table!NoAnswer
  /\ acked = {}

\* As many values as columns, each column known and not id, no newline.
validate_insert_columns(st, schema) ==
  /\ Len(st.columns) = Len(st.values)
  /\ \A i \in DOMAIN st.columns :
       /\ st.columns[i] # IdColumn
       /\ st.columns[i] \in Range(schema.columns)
       /\ Range(st.values[i]) \cap Newline = {}

\* The row in the order of the schema, empty where nothing was given.
build_insert_row(st, schema) ==
  [i \in DOMAIN schema.columns |->
     IF /\ schema.columns[i] \in Range(st.columns)
        /\ i = ColumnIndex(schema, schema.columns[i])
     THEN st.values[CHOOSE j \in DOMAIN st.columns : st.columns[j] = schema.columns[i]]
     ELSE <<>>]

\* execute_insert up to the append.  A column named twice is found only when
\* the index has been loaded.
PrepareInsert(st) ==
  /\ pc = "idle"
  /\ \E schema \in load_schema(st.table, files) :
       LET t == schema.storage_name
       IN  /\ validate_insert_columns(st, schema)
           /\ CanLoad(t) /\ Load(t)
           /\ IsInjective(st.columns)
           /\ stmt' = [table |-> st.table, storage_name |-> t,
                       row |-> build_insert_row(st, schema),
                       id |-> registry'[t].next_id, offset |-> 0]
  /\ pc' = "append"
  /\ UNCHANGED <<files, answer, acked>>

\* A row that is glued to the one before; the body of a mutant.
Separator_None(f) == <<>>

\* The newline that append_row_csv writes first when the file lacks one.
Separator(f) == IF f # <<>> /\ Last(f) # LF THEN <<LF>> ELSE <<>>

\* The offset of the row taken before that newline; the body of a mutant.
AppendRow_OffsetFirst ==
  LET t == stmt.storage_name
  IN  /\ pc = "append"
      /\ files' = [files EXCEPT ![t] = @ \o Separator(@) \o RowText(stmt.row)]
      /\ stmt' = [stmt EXCEPT !.offset = Len(files[t])]
      /\ pc' = "register"
      /\ answer' = Table!Stored
      /\ UNCHANGED <<registry, acked>>

\* append_row_csv: the missing newline of the last row, then the row.
AppendRow ==
  LET t     == stmt.storage_name
      start == files[t] \o Separator(files[t])
  IN  /\ pc = "append"
      /\ files' = [files EXCEPT ![t] = start \o RowText(stmt.row)]
      /\ stmt' = [stmt EXCEPT !.offset = Len(start)]
      /\ pc' = "register"
      /\ answer' = Table!Stored
      /\ UNCHANGED <<registry, acked>>

\* append_row_csv fails before it writes of the row: open, seek, memory.  The
\* newline may have been written.
AppendFails ==
  LET t == stmt.storage_name
  IN  /\ pc = "append"
      /\ \/ UNCHANGED files
         \/ files' = [files EXCEPT ![t] = @ \o Separator(@)]
      /\ pc' = "idle" /\ stmt' = NoStmt
      /\ answer' = Table!Failed
      /\ UNCHANGED <<registry, acked>>

\* table_index_register_row: bptree_insert refuses a key that is there.
RegisterRow ==
  LET t     == stmt.storage_name
      index == ensure_loaded(t)
  IN  /\ pc = "register"
      /\ CanLoad(t)
      /\ stmt.id \notin DOMAIN index.tree
      /\ registry' = [registry EXCEPT ![t] =
                        [index EXCEPT
                           !.tree    = [id \in DOMAIN @ \cup {stmt.id} |->
                                          IF id = stmt.id THEN stmt.offset ELSE @[id]],
                           !.next_id = IF stmt.id >= @ THEN stmt.id + 1 ELSE @]]
      /\ acked' = acked \cup
                   {[storage_name |-> t, id |-> stmt.id,
                     row |-> [i \in DOMAIN stmt.row |-> Kept(stmt.row[i])]]}
      /\ pc' = "idle" /\ stmt' = NoStmt
      /\ answer' = Table!Inserted
      /\ UNCHANGED files

\* The name in the statement instead of the storage name is invalidated.
RegisterFails_ByTableName ==
  /\ pc = "register"
  /\ registry' = [t \in DOMAIN registry |->
                    IF t = stmt.table THEN Unloaded ELSE registry[t]]
  /\ pc' = "idle" /\ stmt' = NoStmt
  /\ answer' = Table!Failed
  /\ UNCHANGED <<files, acked>>

\* The registration fails; the row is in the file, the index is dropped.
RegisterFails ==
  /\ pc = "register"
  /\ registry' = [registry EXCEPT ![stmt.storage_name] = Unloaded]
  /\ pc' = "idle" /\ stmt' = NoStmt
  /\ answer' = Table!Failed
  /\ UNCHANGED <<files, acked>>
-----------------------------------------------------------------------------
\* build_select_indexes: the places of the columns shown, 0 standing for id
\* (the code's -1).  The array has a place for each column of the schema; a
\* list that is longer because it names id or a column twice stays within what
\* calloc really gives as long as it has no more than six columns.
build_select_indexes(st, schema) ==
  IF st.columns = <<>> THEN [i \in DOMAIN schema.columns |-> i]
  ELSE [i \in DOMAIN st.columns |->
          IF st.columns[i] = IdColumn THEN 0 ELSE ColumnIndex(schema, st.columns[i])]

\* A SELECT that build_select_indexes and resolve_where_index let pass.
CanSelect(st, schema) ==
  /\ Range(st.columns) \subseteq Range(schema.columns) \cup {IdColumn}
  /\ st.where # <<>> => st.where[1] \in Range(schema.columns) \cup {IdColumn}

\* select_row_buffer_push: the columns shown of the row that has this id.
Shown(st, schema, id, fields) ==
  LET indexes == build_select_indexes(st, schema)
  IN  [i \in DOMAIN indexes |-> IF indexes[i] = 0 THEN Numeral(id) ELSE fields[indexes[i]]]

\* read_row_at_offset_csv, and the check of the number of fields.
RowAt(f, offset, n) ==
  With(LinesFrom(f, offset), LAMBDA lines :
    IF lines = <<>> \/ lines[1].text = <<>> THEN Bad ELSE FieldsOf(lines[1], n))

ById(st) == st.where # <<>> /\ st.where[1] = IdColumn

\* The rows that a lookup of id in tree leads to: one, or none.
Lookup(f, tree, id, n) ==
  IF id \in DOMAIN tree THEN <<[id |-> id, read |-> RowAt(f, tree[id], n)]>> ELSE <<>>

\* The table of an answer.
ShownRows(st, schema, rows) ==
  [i \in DOMAIN rows |-> Shown(st, schema, rows[i].id, rows[i].read.fields)]

\* execute_index_select: the row at the offset the tree has for the id.
SelectById(st) ==
  /\ pc = "idle" /\ ById(st)
  /\ parse_int_strict(st.where[2]).ok
  /\ \E schema \in load_schema(st.table, files) :
       /\ CanSelect(st, schema)
       /\ CanLoad(schema.storage_name) /\ Load(schema.storage_name)
       /\ \E rows \in {Lookup(files[schema.storage_name],
                              registry'[schema.storage_name].tree,
                              parse_int_strict(st.where[2]).value, Len(schema.columns))} :
            /\ \A i \in DOMAIN rows : rows[i].read.ok
            /\ answer' = Table!Found(st, ShownRows(st, schema, rows))
  /\ UNCHANGED <<files, pc, stmt, acked>>

row_matches_where(st, schema, fields) ==
  st.where = <<>> \/ fields[ColumnIndex(schema, st.where[1])] = st.where[2]

\* Every line of the file, numbered.
Scanned(f, n) ==
  With(DataLines(f), LAMBDA lines :
    [i \in DOMAIN lines |-> [id |-> i, read |-> FieldsOf(lines[i], n)]])

\* The rows that match, in the order of the file.
ShowRow(st, schema, shown, row) ==
  IF row_matches_where(st, schema, row.read.fields) THEN Append(shown, row) ELSE shown

Matching(st, schema, rows) ==
  Through(LAMBDA shown, row : ShowRow(st, schema, shown, row), <<>>, rows)

\* execute_select without WHERE id: every line is read, those that match are
\* shown.
SelectScan(st) ==
  /\ pc = "idle" /\ ~ById(st)
  /\ \E schema \in load_schema(st.table, files) :
       /\ CanSelect(st, schema)
       /\ \E rows \in {Scanned(files[schema.storage_name], Len(schema.columns))} :
            /\ \A i \in DOMAIN rows : rows[i].read.ok
            /\ answer' = Table!Found(st, ShownRows(st, schema, Matching(st, schema, rows)))
  /\ UNCHANGED <<files, registry, pc, stmt, acked>>

\* An INSERT before its append, or a SELECT, fails: refused by the schema or
\* a column check, file not readable, memory; the index may have been loaded.
StatementFails(t) ==
  /\ pc = "idle"
  /\ \/ UNCHANGED registry
     \/ LoadFails(t)
     \/ CanLoad(t) /\ Load(t)
  /\ answer' = Table!Failed
  /\ UNCHANGED <<files, pc, stmt, acked>>

\* execution_runtime_reset drops the whole registry.
Reset ==
  /\ pc = "idle"
  /\ registry' = [t \in DOMAIN registry |-> Unloaded]
  /\ answer' = Table!NoAnswer
  /\ UNCHANGED <<files, pc, stmt, acked>>

\* The process stops, in the middle of an INSERT or not, and starts again.
Crash ==
  /\ registry' = [t \in DOMAIN registry |-> Unloaded]
  /\ pc' = "idle" /\ stmt' = NoStmt
  /\ answer' = Table!NoAnswer
  /\ UNCHANGED <<files, acked>>

Next ==
  \/ \E st \in Inserts : PrepareInsert(st)
  \/ AppendRow \/ AppendFails
  \/ RegisterRow \/ RegisterFails
  \/ \E st \in Selects : SelectById(st) \/ SelectScan(st)
  \/ \E t \in DOMAIN registry : StatementFails(t)
  \/ Reset \/ Crash

Spec == Init /\ [][Next]_storeVars

(***************************************************************************)
(* Two failures that append_row_csv does not recover from.  fclose is      *)
(* where a short row reaches the disk, and its result is not looked at:    *)
(* when that flush fails nothing is written, and the INSERT goes on.  When *)
(* memory ends at a later field, the fields before it are written; the     *)
(* INSERT fails, and the index is not invalidated.                         *)
(***************************************************************************)
AppendUnflushed ==
  LET t == stmt.storage_name
  IN  /\ pc = "append"
      /\ stmt' = [stmt EXCEPT !.offset = Len(files[t] \o Separator(files[t]))]
      /\ pc' = "register"
      /\ UNCHANGED <<files, registry, answer, acked>>

AppendBreaksOff ==
  LET t == stmt.storage_name
  IN  /\ pc = "append"
      /\ \E n \in 1 .. Len(stmt.row) - 1 :
           files' = [files EXCEPT ![t] = @ \o Separator(@) \o RowText(SubSeq(stmt.row, 1, n))]
      /\ pc' = "idle" /\ stmt' = NoStmt
      /\ answer' = Table!Failed
      /\ UNCHANGED <<registry, acked>>

FaultSpec == Init /\ [][Next \/ AppendUnflushed \/ AppendBreaksOff]_storeVars
-----------------------------------------------------------------------------
\* The shape of the variables.
TypeOK ==
  /\ DOMAIN registry = DOMAIN files
  /\ \A t \in DOMAIN registry :
       /\ registry[t].loaded \in BOOLEAN
       /\ registry[t].next_id \in Nat \ {0}
       /\ DOMAIN registry[t].tree = 1 .. registry[t].next_id - 1
  /\ pc \in {"idle", "append", "register"}
  /\ pc = "idle" <=> stmt = NoStmt
  /\ answer.kind \in {"none", "stored", "failed", "inserted", "found"}

\* One fgets reads any row that the clients may have stored; without it rows
\* are told apart wrongly (TableLongRow.cfg).
RowsFit ==
  \A st \in Inserts :
    LET schema == Declared(st.table)
    IN  schema.ok /\ validate_insert_columns(st, schema)
          => Len(RowText(build_insert_row(st, schema))) <= LineMax

\* No table has two columns of one name, which load_schema does not check; the
\* columns of a row would not be told apart by name.
DistinctColumns == \A n \in Names : Declared(n).ok => IsInjective(Declared(n).columns)

\* A file as it was before the row of the open INSERT.
Settled(t) ==
  IF pc = "register" /\ stmt.storage_name = t
  THEN SubSeq(files[t], 1, stmt.offset) ELSE files[t]

(***************************************************************************)
(* A cached index is what a rebuild of its file would give, so that        *)
(* invalidating it, resetting it or restarting the process is unobservable *)
(* (table_index.c: register_row against ensure_loaded), under whichever    *)
(* name of the table the statements came; between append and register it   *)
(* is a rebuild of the file without the new row.                           *)
(***************************************************************************)
IndexAgrees ==
  \A t \in DOMAIN registry :
    registry[t].loaded => registry[t] = Rebuilt(Settled(t))

(***************************************************************************)
(* The two ways a SELECT finds the row of an id, through the index and by  *)
(* counting lines (executor.c), lead to the same row.                      *)
(***************************************************************************)
OneRowPerId ==
  \A t \in DOMAIN Columns \cap DOMAIN files :
    LET lines == DataLines(files[t])
        tree  == registry[t].tree
        n     == Len(Columns[t])
    IN  registry[t].loaded =>
          \A id \in DOMAIN tree :
            id \in DOMAIN lines /\ RowAt(files[t], tree[id], n) = FieldsOf(lines[id], n)

(***************************************************************************)
(* A row whose INSERT was answered "INSERT 1" is in its file, under the id *)
(* the INSERT gave it, for ever (append_row_csv, register_row).            *)
(***************************************************************************)
AckedRowsDurable ==
  \A ack \in acked :
    LET lines == DataLines(files[ack.storage_name])
    IN  /\ ack.id \in DOMAIN lines
        /\ csv_parse_line(lines[ack.id].text) = [ok |-> TRUE, fields |-> ack.row]

(***************************************************************************)
(* Tables are append-only lists of rows whose answers are true: what       *)
(* executor.c, table_index.c, schema.c and storage.c promise together.     *)
(***************************************************************************)
RefinesTable == Table!Spec
=============================================================================

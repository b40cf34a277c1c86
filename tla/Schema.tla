------------------------------- MODULE Schema -------------------------------
(***************************************************************************)
(* How a statement's table name becomes a table (storage/schema.c): the    *)
(* meta file is found by its own name or by the name it declares, and      *)
(* checked against the header of the data file.  The schema directory is   *)
(* not changed while the program runs.                                     *)
(***************************************************************************)
EXTENDS CsvCodec

CONSTANT Metas       \* the .meta entries of the schema directory, as readdir
                     \* returns them

\* The lines of a meta file: key=value, or text without an equals sign.
Keys      == {"table", "columns", "other", "none"}
EntryKind == {"file", "directory", "unreadable"}

ASSUME SchemaAssumption ==
  /\ Metas \in Seq([name : Text, kind : EntryKind, lines : Seq([key : Keys, value : Text])])
  /\ \A i, j \in DOMAIN Metas : Metas[i].name = Metas[j].name => i = j

IdColumn == <<"i", "d">>

\* The lines of a meta file that have a key; the value of the last of them.
Having(meta, key)    == {j \in DOMAIN meta.lines : meta.lines[j].key = key}
LastValue(meta, key) == meta.lines[Max(Having(meta, key))].value

file_declares_table(meta, name) ==
  \E j \in Having(meta, "table") : meta.lines[j].value = name

(***************************************************************************)
(* find_schema_path: the file with the name of the table, or else the      *)
(* first entry that declares the table.  An entry that is no regular file  *)
(* or cannot be opened ends the search.                                    *)
(***************************************************************************)
find_schema_path(name) ==
  LET direct == {i \in DOMAIN Metas : Metas[i].name = name}
      stops  == {i \in DOMAIN Metas : \/ Metas[i].kind # "file"
                                      \/ file_declares_table(Metas[i], name)}
  IN  IF direct # {} THEN direct
      ELSE IF stops = {} THEN {} ELSE {Min(stops)}

\* validate_csv_header: the first line of the data file is the column list.
validate_csv_header(f, columns) ==
  With(LinesFrom(f, 0), LAMBDA lines :
    /\ lines # <<>>
    /\ csv_parse_line(lines[1].text) = [ok |-> TRUE, fields |-> columns])

(***************************************************************************)
(* load_schema, up to the header: of a key that comes twice the last value *)
(* counts, a line without an equals sign fails.  A directory opened by its *)
(* own name reads as an empty file.                                        *)
(***************************************************************************)
ReadMeta(meta, name) ==
  LET columns == csv_parse_line(LastValue(meta, "columns"))
  IN  IF /\ meta.kind = "file"
         /\ Having(meta, "none") = {}
         /\ Having(meta, "table") # {} /\ Having(meta, "columns") # {}
         /\ \A j \in Having(meta, "columns") : csv_parse_line(meta.lines[j].value).ok
         /\ IdColumn \notin Range(columns.fields)
         /\ name \in {LastValue(meta, "table"), meta.name}
      THEN [ok |-> TRUE, storage_name |-> meta.name, columns |-> columns.fields]
      ELSE Bad

\* What the schema directory says of a table name.
Declared(name) ==
  LET found == find_schema_path(name)
  IN  IF found = {} THEN Bad ELSE ReadMeta(Metas[CHOOSE i \in found : TRUE], name)

\* load_schema when the data files are files: the schema of the table name, as
\* a set that is empty when there is none or the data file does not fit it.
load_schema(name, files) ==
  {schema \in {Declared(name)} :
     /\ schema.ok
     /\ schema.storage_name \in DOMAIN files
     /\ validate_csv_header(files[schema.storage_name], schema.columns)}
=============================================================================

---------------------------- MODULE MCTableStore ----------------------------
(***************************************************************************)
(* TableStore for TLC.  The schema directory is like the repository's: s   *)
(* (student.meta) declares another name, u, with the columns n and k; p    *)
(* (product.meta) declares its own, with the column n; and there are       *)
(* entries no table can be loaded from: one that reserves id, one that is  *)
(* a directory.                                                            *)
(***************************************************************************)
EXTENDS TableStore

CONSTANT MaxRows    \* bound on the rows of all files together

ASSUME MaxRowsAssumption == MaxRows \in Nat \ {0}

\* State constraint: no INSERT goes on once the files have MaxRows rows.
FewRows ==
  pc = "append" =>
    MapThenSumSet(LAMBDA t : Len(DataLines(files[t])), DOMAIN files) < MaxRows

MCChar == STRING \ {End}

Line(key, value) == [key |-> key, value |-> value]

MCMetas ==
  <<[name |-> <<"q">>, kind |-> "file",
     lines |-> <<Line("table", <<"q">>), Line("columns", <<"n", ",", "i", "d">>)>>],
    [name |-> <<"s">>, kind |-> "file",
     lines |-> <<Line("table", <<"q">>), Line("other", <<>>), Line("table", <<"u">>),
                 Line("columns", <<"n", ",", "k">>)>>],
    [name |-> <<"p">>, kind |-> "file",
     lines |-> <<Line("table", <<"p">>), Line("columns", <<"n">>)>>],
    [name |-> <<"x">>, kind |-> "directory", lines |-> <<>>]>>

s == <<"s">>
u == <<"u">>
p == <<"p">>
n == <<"n">>
k == <<"k">>

\* Headers as in the repository: with blanks, and without a final newline.
HeaderS == <<"n", ",", " ", "k">>
HeaderP == <<" ", "n">>

TwoFiles(dataS, dataP) == (s :> HeaderS \o dataS @@ p :> HeaderP \o dataP)

GoodFiles == {TwoFiles(<<>>, <<>>),
              TwoFiles(<<LF, "a", ",", "b", LF, CR, LF>>, <<>>)}

\* Somebody else has damaged s: a row of one field; a quote left open.
AnyFiles == GoodFiles \cup {TwoFiles(<<LF, "a", ",", "b", LF, "c">>, <<>>),
                            TwoFiles(<<LF, "\"", ",">>, <<>>)}

Insert(table, columns, values) == [table |-> table, columns |-> columns, values |-> values]
Select(table, columns, where)  == [table |-> table, columns |-> columns, where |-> where]

\* Stored: a quote and a comma, by columns in another order; one value with a
\* blank before it.  Refused: a newline, id, a column twice, too few values.
MCInserts ==
  {Insert(u, <<k, n>>, <<<<"a">>, <<"\"", ",">>>>),
   Insert(s, <<n>>, <<<<" ", "a">>>>),
   Insert(p, <<n>>, <<<<>>>>),
   Insert(s, <<k>>, <<<<"a", LF>>>>),
   Insert(s, <<IdColumn>>, <<<<"1">>>>),
   Insert(u, <<n, n>>, <<<<"a">>, <<"b">>>>),
   Insert(s, <<n, k>>, <<<<"a">>>>),
   Insert(<<"q">>, <<n>>, <<<<"a">>>>)}

MCSelects ==
  {Select(s, <<>>, <<>>),
   Select(u, <<IdColumn, k, n>>, <<n, <<"a">>>>),
   Select(s, <<k>>, <<IdColumn, <<"2">>>>),
   Select(u, <<n, IdColumn>>, <<IdColumn, <<" ", "0", "1">>>>),
   Select(s, <<n>>, <<IdColumn, <<"1", "a">>>>),
   Select(s, <<>>, <<IdColumn, <<"-", "1">>>>),
   Select(p, <<>>, <<IdColumn, <<"1">>>>),
   Select(p, <<k>>, <<>>),
   Select(<<"x">>, <<>>, <<>>),
   Select(<<"y">>, <<>>, <<>>)}

\* A row of more than LineMax characters, and a short one.
LongInserts == {Insert(p, <<n>>, <<<<"a", "a", "a", "a", "a", "a", "a", "a", "b">>>>),
                Insert(p, <<n>>, <<<<"c">>>>)}

ASSUME OthersFit == (Inserts # LongInserts => RowsFit) /\ DistinctColumns
=============================================================================

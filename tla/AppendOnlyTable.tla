--------------------------- MODULE AppendOnlyTable ---------------------------
(***************************************************************************)
(* What the tables promise their clients: each is a list of rows that only *)
(* grows, the internal id of a row being its place in that list for ever,  *)
(* and answers tell the truth about the list.  A row gives every column    *)
(* a value.  A statement may fail; an INSERT that failed may nevertheless  *)
(* have stored its row.                                                    *)
(***************************************************************************)
EXTENDS Naturals, Sequences, SequencesExt

CONSTANTS TableOf,      \* the table that each name a statement may use means
          Columns,      \* the columns of each table, in their order
          Id,           \* the name of the internal id in a statement
          Inserts,      \* the INSERT statements of the clients
          Selects,      \* the SELECT statements of the clients
          Kept(_),      \* what a value given to an INSERT reads as later
          Number(_),    \* the integer a value stands for, if any
          Numeral(_)    \* an id as it is shown

VARIABLES rows, answer

tableVars == <<rows, answer>>

Damaged == <<>>         \* a row of the list that cannot be read

NoAnswer == [kind |-> "none"]       \* nobody has been answered yet
Stored   == [kind |-> "stored"]     \* a row is stored, its client waits
Failed   == [kind |-> "failed"]
Inserted == [kind |-> "inserted"]
Found(st, lines) == [kind |-> "found", asked |-> st, lines |-> lines]

Init == DOMAIN rows = DOMAIN Columns /\ answer = NoAnswer
-----------------------------------------------------------------------------
\* The statement gives some columns of its table one value each.
Acceptable(st) ==
  /\ st.table \in DOMAIN TableOf
  /\ Len(st.columns) = Len(st.values)
  /\ IsInjective(st.columns)
  /\ Range(st.columns) \subseteq Range(Columns[TableOf[st.table]])

\* The row it stands for: a column it does not name is empty.
NewRow(st) ==
  [c \in Range(Columns[TableOf[st.table]]) |->
     IF c \in Range(st.columns)
     THEN Kept(st.values[CHOOSE i \in DOMAIN st.columns : st.columns[i] = c])
     ELSE <<>>]

\* The row is on disk; its client has not been answered.
Store(st) ==
  /\ Acceptable(st)
  /\ answer' = Stored
  /\ rows' = [rows EXCEPT ![TableOf[st.table]] = Append(@, NewRow(st))]

\* INSERT 1 is said of the row just stored, and of no other.
Confirm ==
  /\ answer = Stored
  /\ answer' = Inserted
  /\ UNCHANGED rows

Fail == answer' = Failed /\ UNCHANGED rows

\* The process stops or its caches are dropped: the rows stay.
Restart == answer' = NoAnswer /\ UNCHANGED rows
-----------------------------------------------------------------------------
\* The columns a SELECT shows; no list stands for the star.
ListOf(st) ==
  IF st.columns = <<>> THEN Columns[TableOf[st.table]] ELSE st.columns

\* Row i of the list s may be one that the condition of st asks for.
Meets(s, i, st) ==
  \/ st.where = <<>>
  \/ /\ st.where # <<>> /\ st.where[1] = Id
     /\ i = Number(st.where[2]).value
  \/ /\ st.where # <<>> /\ st.where[1] # Id
     /\ s[i] # Damaged => s[i][st.where[1]] = st.where[2]

Hits(s, st) == {i \in DOMAIN s : Meets(s, i, st)}

\* hits are the members of S from the least to the greatest.
InOrder(hits, S) ==
  /\ Range(hits) = S
  /\ \A i, j \in DOMAIN hits : i < j => hits[i] < hits[j]

\* The statement asks its table for columns it has.
Answerable(st) ==
  /\ st.table \in DOMAIN TableOf
  /\ Range(ListOf(st)) \subseteq Range(Columns[TableOf[st.table]]) \cup {Id}
  /\ st.where # <<>> => st.where[1] \in Range(Columns[TableOf[st.table]]) \cup {Id}
  /\ st.where # <<>> /\ st.where[1] = Id => Number(st.where[2]).ok

\* The columns asked for of these rows of the list s.
Result(s, st, hits) ==
  LET list == ListOf(st)
  IN  [h \in DOMAIN hits |->
         [j \in DOMAIN list |-> IF list[j] = Id THEN Numeral(hits[h])
                                                ELSE s[hits[h]][list[j]]]]

\* A SELECT is answered, with the rows that meet its condition in their order,
\* when every row it may be about can be read.
Query(st) ==
  /\ answer'.kind = "found" /\ answer'.asked = st
  /\ Answerable(st)
  /\ \E s \in {rows[TableOf[st.table]]} :
       /\ \A i \in Hits(s, st) : s[i] # Damaged
       /\ \E n \in 0 .. Len(s) : \E hits \in [1 .. n -> Hits(s, st)] :
            /\ InOrder(hits, Hits(s, st))
            /\ answer' = Found(st, Result(s, st, hits))
  /\ UNCHANGED rows

Next ==
  \/ \E st \in Inserts : Store(st)
  \/ Confirm \/ Fail \/ Restart
  \/ \E st \in Selects : Query(st)

Spec == Init /\ [][Next]_tableVars
=============================================================================

------------------------------ MODULE CsvCodec ------------------------------
(***************************************************************************)
(* How the week8 engine writes a row as text and reads it back             *)
(* (storage/storage.c, common/util.c).  A text is a sequence of            *)
(* characters, a data file is a text, and an offset is the number of       *)
(* characters before a place in it.  Every operator is pure.               *)
(***************************************************************************)
EXTENDS Integers, Sequences, SequencesExt

CONSTANTS LineMax,   \* characters that one fgets returns at most: 4095
          IntMax,    \* INT_MAX
          Char       \* the characters a string may hold

Quote   == "\""
Comma   == ","
LF      == "\n"
CR      == "\r"
Newline == {LF, CR}
Blanks  == {" ", "\t"}
Space   == Blanks \cup Newline          \* isspace
Digits  == <<"0", "1", "2", "3", "4", "5", "6", "7", "8", "9">>
Bad     == [ok |-> FALSE]               \* a function that reports failure
End     == "end"                        \* the NUL at the end of a string
Text    == Seq(Char)

ASSUME CsvAssumption ==
  /\ LineMax \in Nat \ {0} /\ IntMax \in Nat
  /\ {Quote, Comma} \cup Space \subseteq Char /\ End \notin Char

\* op(x).  TLC evaluates the argument of an operator at each of its uses when
\* it evaluates an action, and a bound variable once.
With(x, op(_)) == CHOOSE v \in {op(y) : y \in {x}} : TRUE

\* step applied to the characters of text from left to right, starting from
\* base: FoldLeft, in a form that TLC evaluates in linear time.
Through(step(_, _), base, text) ==
  With(text, LAMBDA t :
    LET after[i \in 0 .. Len(t)] ==
          IF i = 0 THEN base ELSE With(after[i - 1], LAMBDA s : step(s, t[i]))
    IN  after[Len(t)])

\* The text t without the characters of first at its start, of last at its end.
Between(t, first, last) ==
  LET from == {i \in DOMAIN t : t[i] \notin first}
      to   == {i \in DOMAIN t : t[i] \notin last}
  IN  IF from = {} \/ to = {} THEN <<>> ELSE SubSeq(t, Min(from), Max(to))

trim_whitespace(t)    == Between(t, Space, Space)
strip_line_endings(t) == Between(t, {}, Newline)

(***************************************************************************)
(* parse_int_strict: blanks, a sign and digits, as strtol reads them, and  *)
(* nothing after them; a number that an int can hold.                      *)
(***************************************************************************)
parse_int_strict(t) ==
  LET body     == Between(t, Space, {})
      signed   == body # <<>> /\ Head(body) \in {"+", "-"}
      digits   == IF signed THEN Tail(body) ELSE body
      value    == Through(LAMBDA n, c : 10 * n + (CHOOSE d \in 0 .. 9 : Digits[d + 1] = c),
                          0, digits)
      negative == signed /\ Head(body) = "-"
  IN  IF /\ digits # <<>>
         /\ \A i \in DOMAIN digits : digits[i] \in Range(Digits)
         /\ value <= IF negative THEN IntMax + 1 ELSE IntMax
      THEN [ok |-> TRUE, value |-> IF negative THEN -value ELSE value]
      ELSE Bad
-----------------------------------------------------------------------------
NeedsQuotes(v) ==
  v = <<>> \/ \E i \in DOMAIN v : v[i] \in {Quote, Comma} \cup Newline

\* Quotes written as they are; the body of a mutant.
csv_escape_field_Single(v) ==
  IF NeedsQuotes(v) THEN <<Quote>> \o v \o <<Quote>> ELSE v

\* In quotes when it must be, every quote in it doubled.
csv_escape_field(v) ==
  IF NeedsQuotes(v)
  THEN <<Quote>>
         \o FlattenSeq([i \in DOMAIN v |-> IF v[i] = Quote THEN <<Quote, Quote>>
                                                           ELSE <<v[i]>>])
         \o <<Quote>>
  ELSE v

\* What append_row_csv writes of a row.
RowText(row) ==
  FlattenSeq([i \in DOMAIN row |->
                (IF i > 1 THEN <<Comma>> ELSE <<>>) \o csv_escape_field(row[i])])
-----------------------------------------------------------------------------
(***************************************************************************)
(* csv_parse_line, one character at a time.  The mode "quote" stands for   *)
(* the look at cursor[1]: a quote in a quoted field is the first of two,   *)
(* or the end of the field.  Only a field that was not quoted is trimmed.  *)
(***************************************************************************)
Keep(s, c)    == [s EXCEPT !.buffer = Append(@, c)]
Enter(s, m)   == [s EXCEPT !.mode = m]
Push(s, text) == [mode |-> "plain", buffer |-> <<>>, fields |-> Append(s.fields, text)]

Outside(s, c) ==
  CASE c \in {Comma, End}               -> Push(s, trim_whitespace(s.buffer))
    [] c = Quote /\ s.buffer = <<>>     -> Enter(s, "quoted")
    [] c \in Newline                    -> s
    [] OTHER                            -> Keep(s, c)

Inside(s, c) ==
  CASE c = Quote -> Enter(s, "quote")
    [] c = End   -> Enter(s, "bad")
    [] OTHER     -> Keep(s, c)

Closed(s, c) ==
  CASE c \in {Comma, End} -> Push(s, s.buffer)
    [] c \in Blanks       -> Enter(Keep(s, c), "closed")
    [] OTHER              -> Enter(s, "bad")

ParseStep(s, c) ==
  CASE s.mode = "plain"  -> Outside(s, c)
    [] s.mode = "quoted" -> Inside(s, c)
    [] s.mode = "quote"  -> IF c = Quote THEN Enter(Keep(s, c), "quoted") ELSE Closed(s, c)
    [] s.mode = "closed" -> Closed(s, c)
    [] s.mode = "bad"    -> s

csv_parse_line(line) ==
  With(Through(ParseStep, [mode |-> "plain", buffer |-> <<>>, fields |-> <<>>],
               Append(line, End)),
       LAMBDA end : IF end.mode = "bad" THEN Bad
                    ELSE [ok |-> TRUE, fields |-> end.fields])
-----------------------------------------------------------------------------
(***************************************************************************)
(* What successive calls of fgets(line, LineMax + 1) return of the file f  *)
(* from an offset on, each text with the offset it was read at.            *)
(***************************************************************************)
Cut(s) == [lines  |-> Append(s.lines, [offset |-> s.offset, text |-> s.text]),
           offset |-> s.offset + Len(s.text),
           text   |-> <<>>]

Read(s, c) ==
  LET t == [s EXCEPT !.text = Append(@, c)]
  IN  IF c = LF \/ Len(t.text) = LineMax THEN Cut(t) ELSE t

fgets_lines(f, offset) ==
  With(Through(Read, [lines |-> <<>>, offset |-> offset, text |-> <<>>],
               SubSeq(f, offset + 1, Len(f))),
       LAMBDA end : IF end.text = <<>> THEN end.lines ELSE Cut(end).lines)

\* The same with their line endings stripped.
LinesFrom(f, offset) ==
  With(fgets_lines(f, offset), LAMBDA lines :
    [i \in DOMAIN lines |-> [lines[i] EXCEPT !.text = strip_line_endings(@)]])

(***************************************************************************)
(* What a stored value is when it is read again: one that was not quoted   *)
(* loses the white space around it.                                        *)
(***************************************************************************)
Kept(v) == IF NeedsQuotes(v) THEN v ELSE trim_whitespace(v)
=============================================================================

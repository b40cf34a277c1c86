--------------------------- MODULE HttpQueryProofs ---------------------------
(***************************************************************************)
(* The reading of one SQL text, the receive loop, and then the handler     *)
(* built on both, for every set of words, chunk size, limit, route, method *)
(* and set of streams and bodies.                                          *)
(*                                                                         *)
(* Of a text it is shown that the lock always fits the statement and that  *)
(* only one whole statement is executed: the place of the parser, the scan *)
(* for the lock and the count of semicolons agree (SqlInv).                *)
(*                                                                         *)
(* What the receive loop knows while it reads is that the probe of what it *)
(* has so far said nothing yet; with the bounds on the buffer that is      *)
(* inductive.  The loops of http_protocol.c over digits and header lines   *)
(* are recursive functions; that they have a value for every input is an   *)
(* induction over the set of the numbers of rounds for which they do.      *)
(*                                                                         *)
(* A handler is one receive loop and one reading of a text, in turn: every *)
(* step of it is a step of one of the two or leaves both alone, so what is *)
(* proved of each by itself holds of the handler.                          *)
(*                                                                         *)
(* What the loops over digits and header lines compute is compared with    *)
(* the head as the protocol describes it by induction over the rounds; on  *)
(* that rests what the handler knows at each stage, and so what a client   *)
(* may conclude from its answer.                                           *)
(***************************************************************************)
EXTENDS HttpQuery, WellFoundedInduction, TLAPS
-----------------------------------------------------------------------------
(* One SQL text, from the lexer to the result.                             *)

Places ==
  {"start", "error", "semicolon", "end", "done",
   "into", "into_table", "columns", "column", "after_column",
   "values", "value_list", "value", "after_value",
   "select", "field", "after_field", "from", "from_table", "after_table",
   "condition", "equals", "compared"}

\* The parser has a statement begun and not yet ended.
Inside == Places \ {"start", "error", "end", "done"}

ParserType == [at : Places, type : {"none", "insert", "select"}]

TypeOK ==
  /\ parser \in ParserType
  /\ lex \in {"between", "word", "opened", "string", "escaped", "quote", "error"}
  /\ semicolons \in 0 .. 2
  /\ result \in {"reading", "lex_error", "parse_error", "none", "insert", "select"}

\* The statement the parser is in and the lock agree; as long as neither the
\* parser nor the lexer has anything, the scan has skipped everything.
ScanAgrees ==
  /\ parser.type = "insert" => scan = "write"
  /\ parser.type = "select" => scan = "read"
  /\ parser.at = "start" => parser.type = "none" /\ lex # "word"
  /\ parser.at = "start" /\ lex = "between" => scan = "noise"

\* The semicolon that ends the statement is the first.
SemicolonsAgree ==
  /\ parser.at \in Inside \cup {"start"} => semicolons = 0
  /\ parser.at = "end" => semicolons = 1

\* While the text is read the parser has not seen its end; afterwards the
\* result is what the parser says.
ResultAgrees ==
  /\ result = "reading" => parser.at # "done"
  /\ result \in {"insert", "select"} => /\ result = parser.type
                                        /\ WholeTextIsStatement

SqlInv == TypeOK /\ ScanAgrees /\ SemicolonsAgree /\ ResultAgrees
-----------------------------------------------------------------------------
Tokens == [type : {"string", "end", "number", "identifier"} \cup Symbols,
           text : {Upper[w] : w \in Words} \cup Words \cup {""}]

\* The part of the parser after INSERT goes on only inside the statement, on a
\* token that is not a semicolon.
LEMMA InsertStep ==
  ASSUME NEW at, NEW tok
  PROVE  \/ parse_insert(at, tok) = "error"
         \/ /\ parse_insert(at, tok) \in Inside
            /\ at \in Inside
            /\ tok.type # ";"
<1>1. CASE at \in {"into", "into_table", "columns", "column"}
  BY <1>1 DEF parse_insert, keyword, identifier, value, Inside, Places
<1>2. CASE at \in {"after_column", "values", "value_list"}
  BY <1>2 DEF parse_insert, keyword, identifier, value, Inside, Places
<1>3. CASE at \in {"value", "after_value"}
  BY <1>3 DEF parse_insert, keyword, identifier, value, Inside, Places
<1>4. CASE at \notin {"into", "into_table", "columns", "column", "after_column",
                      "values", "value_list", "value", "after_value"}
  BY <1>4 DEF parse_insert
<1> QED
  BY <1>1, <1>2, <1>3, <1>4

\* q may follow ps on the token tok: a statement that is begun keeps its type,
\* only a semicolon ends it, and only the end of the text comes after.
MayFollow(ps, tok, q) ==
  /\ q \in ParserType
  /\ q.at # "start"
  /\ ps.at # "start" => q.type = ps.type
  /\ ps.at = "start" => \/ q.at = "error" /\ q.type = ps.type
                        \/ keyword(tok, "INSERT") /\ q.type = "insert" /\ q.at = "into"
                        \/ keyword(tok, "SELECT") /\ q.type = "select" /\ q.at = "select"
  /\ q.at \in Inside => ps.at \in Inside \cup {"start"} /\ tok.type # ";"
  /\ q.at = "end" => ps.at \in Inside /\ tok.type = ";"
  /\ q.at = "done" => ps.at = "end" /\ tok.type = "end"

\* parse_statement takes one token.
LEMMA ParserStep ==
  ASSUME NEW ps \in ParserType, NEW tok \in Tokens
  PROVE  MayFollow(ps, tok, parse_statement(ps, tok))
<1> DEFINE q == parse_statement(ps, tok)
<1>1. CASE ps.at = "start" /\ keyword(tok, "INSERT")
  <2>1. q = [at |-> "into", type |-> "insert"]
    BY <1>1 DEF parse_statement
  <2> QED
    BY <1>1, <2>1 DEF MayFollow, ParserType, Places, Inside, keyword
<1>2. CASE ps.at = "start" /\ ~keyword(tok, "INSERT") /\ keyword(tok, "SELECT")
  <2>1. q = [at |-> "select", type |-> "select"]
    BY <1>2 DEF parse_statement
  <2> QED
    BY <1>2, <2>1 DEF MayFollow, ParserType, Places, Inside, keyword
<1>3. CASE ps.at = "start" /\ ~keyword(tok, "INSERT") /\ ~keyword(tok, "SELECT")
  <2>1. q = [ps EXCEPT !.at = "error"]
    BY <1>3 DEF parse_statement
  <2> QED
    BY <1>3, <2>1 DEF MayFollow, ParserType, Places, Inside
<1>4. CASE ps.at # "start" /\ AtEnd(ps.at, tok)
  <2>1. q = [ps EXCEPT !.at = StatementEnd(ps.at, tok)]
    BY <1>4 DEF parse_statement
  <2> QED
    BY <1>4, <2>1 DEF MayFollow, AtEnd, StatementEnd, ParserType, Places, Inside
<1>5. CASE ps.at # "start" /\ ~AtEnd(ps.at, tok) /\ ps.type = "insert"
  <2>1. q = [ps EXCEPT !.at = parse_insert(ps.at, tok)]
    BY <1>5 DEF parse_statement
  <2>2. /\ parse_insert(ps.at, tok) \in Places \ {"start", "end", "done"}
        /\ parse_insert(ps.at, tok) \in Inside => ps.at \in Inside /\ tok.type # ";"
    BY InsertStep DEF Inside, Places
  <2> QED
    BY <1>5, <2>1, <2>2 DEF MayFollow, ParserType, Inside
<1>6. CASE ps.at # "start" /\ ~AtEnd(ps.at, tok) /\ ps.type # "insert"
  <2>1. q = [ps EXCEPT !.at = parse_select(ps.at, tok)]
    BY <1>6 DEF parse_statement
  <2>2. /\ parse_select(ps.at, tok) \in Places \ {"start", "end", "done"}
        /\ parse_select(ps.at, tok) \in Inside => ps.at \in Inside /\ tok.type # ";"
    BY <1>6 DEF parse_select, Places, Inside, keyword, identifier, value, ParserType
  <2> QED
    BY <1>6, <2>1, <2>2 DEF MayFollow, ParserType, Inside
<1> QED
  BY <1>1, <1>2, <1>3, <1>4, <1>5, <1>6

\* The tokens the lexer passes on are tokens.
LEMMA TokensAre ==
  /\ Literal \in Tokens /\ ~keyword(Literal, "INSERT") /\ ~keyword(Literal, "SELECT")
  /\ End \in Tokens /\ ~keyword(End, "INSERT") /\ ~keyword(End, "SELECT")
  /\ \A p \in Symbols : Token(p, "") \in Tokens /\ Token(p, "").type = p
  /\ \A p \in Words : lex_word(p) \in Tokens /\ lex_word(p).type \in {"number", "identifier"}
BY DEF Tokens, Literal, End, Token, keyword, lex_word, Symbols

\* Before any piece: the scan, the lexer and the parser have read nothing.
LEMMA InitInv == Init => SqlInv
BY DEF Init, SqlInv, TypeOK, ScanAgrees, SemicolonsAgree, ResultAgrees,
       WholeTextIsStatement, ParserType, Places, Inside

\* A literal that closes never begins a statement and never ends one.
LEMMA ClosedFacts ==
  ASSUME SqlInv, result = "reading"
  PROVE  /\ Closed \in ParserType
         /\ Closed.type = parser.type
         /\ Closed.at = "start" => Closed = parser /\ lex # "quote"
         /\ Closed.at \in Inside \cup {"start"} => semicolons = 0
         /\ Closed.at = "end" => semicolons = 1
         /\ Closed.at # "done"
<1>1. CASE lex # "quote"
  BY <1>1 DEF Closed, SqlInv, TypeOK, SemicolonsAgree, ResultAgrees
<1>2. CASE lex = "quote"
  <2>1. Closed = parse_statement(parser, Literal)
    BY <1>2 DEF Closed
  <2>2. Literal.type = "string"
    BY DEF Literal, Token
  <2>3. parser \in ParserType /\ Literal \in Tokens
    BY TokensAre DEF SqlInv, TypeOK
  <2> QED
    BY <2>1, <2>2, <2>3, TokensAre, ParserStep DEF MayFollow, SqlInv, SemicolonsAgree
<1> QED
  BY <1>1, <1>2

\* Once the scan has its word it reads no further.
LEMMA ScanKept ==
  ASSUME NEW p, scan \in {"read", "write"}
  PROVE  skip_leading_sql_noise(p) = scan
BY DEF skip_leading_sql_noise

\* The first word, where only noise was before it, gives both readers the same.
LEMMA FirstWord ==
  ASSUME NEW p \in Words, scan = "noise"
  PROVE  /\ keyword(lex_word(p), "INSERT") => skip_leading_sql_noise(p) = "write"
         /\ keyword(lex_word(p), "SELECT") => skip_leading_sql_noise(p) = "read"
<1>1. skip_leading_sql_noise(p) = FirstPiece(p)
  BY DEF skip_leading_sql_noise
<1>2. p \notin Marks
  BY SqlFrontEndAssumption
<1>3. FirstPiece(p) = IF Letters[p] = "SELECT" THEN "read" ELSE "write"
  BY <1>2 DEF FirstPiece, Marks, Space
<1>4. \A k \in {"INSERT", "SELECT"} : keyword(lex_word(p), k) => Upper[p] = k
  BY DEF keyword, lex_word, Token
<1> QED
  BY <1>1, <1>3, <1>4, SqlFrontEndAssumption

\* What ReadOutside passes to the parser, for the four kinds of pieces.
LEMMA PassedFacts ==
  ASSUME NEW p \in Pieces, SqlInv, result = "reading", ReadOutside(p)
  PROVE  /\ Passed(p) \in ParserType
         /\ Passed(p).at # "done"
         /\ Passed(p).at = "start" => p \notin Words \cup Symbols /\ Closed.at = "start"
         /\ Passed(p).at \in Inside \cup {"start"} => semicolons = 0 /\ p # ";"
         /\ Passed(p).at = "end" => \/ semicolons = 0 /\ p = ";"
                                    \/ semicolons = 1 /\ p # ";"
         /\ \/ Passed(p).type = parser.type
            \/ /\ p \in Words /\ Closed.at = "start"
               /\ \/ Passed(p).type = "insert" /\ keyword(lex_word(p), "INSERT")
                  \/ Passed(p).type = "select" /\ keyword(lex_word(p), "SELECT")
<1>0. Words \cap Symbols = {} /\ ";" \notin Words /\ ";" \in Symbols
  BY SqlFrontEndAssumption DEF Marks, Symbols
<1>1. CASE p \in Words
  <2>1. Passed(p) = parse_statement(Closed, lex_word(p))
    BY <1>1, <1>0 DEF Passed
  <2>2. lex_word(p) \in Tokens /\ lex_word(p).type \in {"number", "identifier"}
    BY <1>1, TokensAre
  <2>3. p # ";" /\ lex_word(p).type # ";" /\ lex_word(p).type # "end"
    BY <1>1, <1>0, <2>2
  <2>4. MayFollow(Closed, lex_word(p), Passed(p))
    BY <2>1, <2>2, ClosedFacts, ParserStep
  <2> QED
    BY <1>1, <2>2, <2>3, <2>4, ClosedFacts DEF MayFollow
<1>2. CASE p \in Symbols
  <2>1. Passed(p) = parse_statement(Closed, Token(p, ""))
    BY <1>2, <1>0 DEF Passed
  <2>2. Token(p, "") \in Tokens /\ Token(p, "").type = p
    BY <1>2, TokensAre
  <2>3. p # "end" /\ ~keyword(Token(p, ""), "INSERT") /\ ~keyword(Token(p, ""), "SELECT")
    BY <1>2, <2>2 DEF keyword, Symbols
  <2>4. MayFollow(Closed, Token(p, ""), Passed(p))
    BY <2>1, <2>2, ClosedFacts, ParserStep
  <2> QED
    BY <1>2, <2>2, <2>3, <2>4, ClosedFacts DEF MayFollow
<1>3. CASE p \notin Words \cup Symbols
  <2>1. Passed(p) = Closed
    BY <1>3 DEF Passed
  <2> QED
    BY <1>3, <1>0, <2>1, ClosedFacts
<1> QED
  BY <1>1, <1>2, <1>3

\* The next piece inside a literal: only the scan and the lexer move.
LEMMA InLiteralKeepsInv ==
  ASSUME NEW p \in Pieces, SqlInv, Read(p), ReadInLiteral(p)
  PROVE  SqlInv'
<1>1. lex' \in {"string", "escaped", "quote"}
  BY DEF ReadInLiteral, lex_string
<1>2. UNCHANGED <<parser, semicolons, result>> /\ result = "reading"
  BY DEF Read, ReadInLiteral
<1>3. scan' = skip_leading_sql_noise(p)
  BY DEF Read
<1>4. ScanAgrees'
  BY <1>1, <1>2, <1>3, ScanKept DEF SqlInv, ScanAgrees
<1>5. TypeOK' /\ SemicolonsAgree' /\ ResultAgrees'
  BY <1>1, <1>2 DEF SqlInv, TypeOK, SemicolonsAgree, ResultAgrees
<1> QED
  BY <1>4, <1>5 DEF SqlInv

\* After a lexical error only the scan moves.
LEMMA AfterErrorKeepsInv ==
  ASSUME NEW p \in Pieces, SqlInv, Read(p), ReadAfterError(p)
  PROVE  SqlInv'
<1>1. UNCHANGED <<lex, parser, semicolons, result>> /\ result = "reading" /\ lex = "error"
  BY DEF Read, ReadAfterError
<1>2. scan' = skip_leading_sql_noise(p)
  BY DEF Read
<1>3. ScanAgrees'
  BY <1>1, <1>2, ScanKept DEF SqlInv, ScanAgrees
<1>4. TypeOK' /\ SemicolonsAgree' /\ ResultAgrees'
  BY <1>1 DEF SqlInv, TypeOK, SemicolonsAgree, ResultAgrees
<1> QED
  BY <1>3, <1>4 DEF SqlInv

\* A piece outside literals: all three readers move.
LEMMA OutsideKeepsInv ==
  ASSUME NEW p \in Pieces, SqlInv, Read(p), ReadOutside(p)
  PROVE  SqlInv'
<1>1. /\ result = "reading" /\ result' = "reading"
      /\ scan' = skip_leading_sql_noise(p)
      /\ parser' = Passed(p)
      /\ lex' = lex_sql(p)
  BY DEF Read, ReadOutside
<1>2. lex' \in {"between", "word", "opened", "error"}
  BY <1>1 DEF lex_sql
<1>3. /\ semicolons' \in 0 .. 2
      /\ p # ";" => semicolons' = semicolons
      /\ p = ";" /\ semicolons = 0 => semicolons' = 1
  <2>1. semicolons' = IF p = ";" /\ semicolons < 2 THEN semicolons + 1 ELSE semicolons
    BY DEF ReadOutside
  <2>2. semicolons \in 0 .. 2
    BY DEF SqlInv, TypeOK
  <2>3. CASE p = ";"
    <3>1. semicolons' = IF semicolons < 2 THEN semicolons + 1 ELSE semicolons
      BY <2>1, <2>3
    <3>2. semicolons' \in 0 .. 2 /\ (semicolons = 0 => semicolons' = 1)
      BY <2>2, <3>1
    <3> QED
      BY <2>3, <3>2
  <2>4. CASE p # ";"
    BY <2>1, <2>2, <2>4
  <2> QED
    BY <2>3, <2>4
<1>4. TypeOK' /\ SemicolonsAgree'
  <2>1. parser' \in ParserType
    BY <1>1, PassedFacts
  <2>2. TypeOK'
    BY <1>1, <1>2, <1>3, <2>1 DEF TypeOK
  <2>3. parser'.at \in Inside \cup {"start"} => semicolons' = 0
    BY <1>1, <1>3, PassedFacts
  <2>4. parser'.at = "end" => semicolons' = 1
    BY <1>1, <1>3, PassedFacts
  <2> QED
    BY <2>2, <2>3, <2>4 DEF SemicolonsAgree
<1>5. ResultAgrees'
  BY <1>1, PassedFacts DEF SqlInv, ResultAgrees
<1>6. Closed.at = "start" => Closed = parser /\ lex = "between" /\ scan = "noise"
  BY <1>1, ClosedFacts DEF SqlInv, TypeOK, ScanAgrees, ReadOutside, InLiteral
<1>7. CASE parser'.type = parser.type
  <2>1. /\ parser'.type = "insert" => scan' = "write"
        /\ parser'.type = "select" => scan' = "read"
    <3>1. scan \in {"read", "write"} => scan' = scan
      BY <1>1, ScanKept
    <3> QED
      BY <1>7, <3>1 DEF SqlInv, ScanAgrees
  <2>2. ASSUME parser'.at = "start"
        PROVE  /\ parser'.type = "none"
               /\ lex' # "word"
               /\ lex' = "between" => scan' = "noise"
    <3>1. p \notin Words \cup Symbols /\ parser.at = "start" /\ scan = "noise"
      BY <1>1, <1>6, <2>2, PassedFacts
    <3>2. p \in Space \/ lex' # "between"
      BY <1>1, <3>1 DEF lex_sql
    <3>3. lex' # "word"
      BY <1>1, <3>1 DEF lex_sql
    <3>4. p \in Space => scan' = "noise"
      BY <1>1, <3>1 DEF skip_leading_sql_noise, FirstPiece, Space
    <3> QED
      BY <1>7, <3>1, <3>2, <3>3, <3>4 DEF SqlInv, ScanAgrees
  <2> QED
    BY <1>4, <1>5, <2>1, <2>2 DEF SqlInv, ScanAgrees
<1>8. CASE parser'.type # parser.type
  <2>1. /\ p \in Words /\ scan = "noise"
        /\ \/ parser'.type = "insert" /\ keyword(lex_word(p), "INSERT")
           \/ parser'.type = "select" /\ keyword(lex_word(p), "SELECT")
    BY <1>1, <1>6, <1>8, PassedFacts
  <2>2. parser'.at # "start"
    BY <1>1, <2>1, PassedFacts
  <2>3. ScanAgrees'
    BY <1>1, <2>1, <2>2, FirstWord DEF ScanAgrees
  <2> QED
    BY <1>4, <1>5, <2>3 DEF SqlInv
<1> QED
  BY <1>7, <1>8

\* A failed allocation loses the text, whoever meets it.
LEMMA OutOfMemoryKeepsInv ==
  ASSUME SqlInv, OutOfMemory
  PROVE  SqlInv'
<1>1. CASE lex' = "error" /\ UNCHANGED <<parser, scan, semicolons, result>>
  BY <1>1 DEF SqlInv, TypeOK, ScanAgrees, SemicolonsAgree, ResultAgrees, OutOfMemory
<1>2. CASE parser' = [parser EXCEPT !.at = "error"] /\ UNCHANGED <<lex, scan, semicolons, result>>
  BY <1>2 DEF SqlInv, TypeOK, ScanAgrees, SemicolonsAgree, ResultAgrees, OutOfMemory,
              ParserType, Places, Inside
<1> QED
  BY <1>1, <1>2 DEF OutOfMemory

\* A literal the text ends in never begins a statement and never ends one, so
\* a parser that waits for the end has no literal open.
LEMMA LastFacts ==
  ASSUME SqlInv, result = "reading"
  PROVE  /\ LastPassed \in ParserType
         /\ LastPassed.type = parser.type
         /\ LastPassed.at \in Inside \cup {"start"} => semicolons = 0
         /\ LastPassed.at = "end" => /\ semicolons = 1
                                     /\ lex \notin {"quote", "opened", "escaped"}
<1>1. CASE lex \notin {"quote", "opened", "escaped"}
  BY <1>1 DEF LastPassed, SqlInv, TypeOK, SemicolonsAgree
<1>2. CASE lex \in {"quote", "opened", "escaped"}
  <2>1. LastPassed = parse_statement(parser, Literal)
    BY <1>2 DEF LastPassed
  <2>2. Literal.type = "string"
    BY DEF Literal, Token
  <2>3. parser \in ParserType /\ Literal \in Tokens
    BY TokensAre DEF SqlInv, TypeOK
  <2> QED
    BY <2>1, <2>2, <2>3, TokensAre, ParserStep DEF MayFollow, SqlInv, SemicolonsAgree
<1> QED
  BY <1>1, <1>2

\* The end of the text: the result is the parser's, and it is a statement only
\* where the parser was waiting for the end.
LEMMA FinishKeepsInv ==
  ASSUME SqlInv, Finish
  PROVE  SqlInv'
<1>1. result = "reading" /\ UNCHANGED <<scan, lex, semicolons>>
  BY DEF Finish
<1>2. CASE lex \in {"error", "string"}
  <2>1. result' = "lex_error" /\ UNCHANGED parser
    BY <1>2 DEF Finish
  <2> QED
    BY <1>1, <2>1 DEF SqlInv, TypeOK, ScanAgrees, SemicolonsAgree, ResultAgrees
<1>3. CASE lex \notin {"error", "string"}
  <2>1. /\ parser' = parse_statement(LastPassed, End)
        /\ result' = IF parser'.at = "done" THEN parser'.type ELSE "parse_error"
    BY <1>3 DEF Finish
  <2>2. MayFollow(LastPassed, End, parser')
    BY <1>1, <2>1, LastFacts, TokensAre, ParserStep
  <2>3. End.type = "end"
    BY DEF End, Token
  <2>4. parser' \in ParserType /\ parser'.at # "start" /\ parser'.type = parser.type
    BY <1>1, <2>2, LastFacts, TokensAre DEF MayFollow
  <2>5. TypeOK'
    BY <1>1, <2>1, <2>4 DEF SqlInv, TypeOK, ParserType
  <2>6. ScanAgrees'
    BY <1>1, <2>4 DEF SqlInv, ScanAgrees
  <2>7. SemicolonsAgree'
    BY <1>1, <2>2, <2>3, <2>4, LastFacts DEF MayFollow, SemicolonsAgree
  <2>8. ASSUME result' \in {"insert", "select"}
        PROVE  result' = parser'.type /\ WholeTextIsStatement'
    <3>1. parser'.at = "done" /\ result' = parser'.type
      BY <2>1, <2>8
    <3>2. LastPassed.at = "end"
      BY <2>2, <3>1 DEF MayFollow
    <3>3. semicolons' = 1 /\ lex' \notin {"quote", "opened", "escaped", "string"}
      BY <1>1, <1>3, <3>2, LastFacts
    <3> QED
      BY <3>1, <3>3 DEF WholeTextIsStatement
  <2>9. result' # "reading"
    BY <2>1, <2>4 DEF ParserType
  <2> QED
    BY <2>5, <2>6, <2>7, <2>8, <2>9 DEF SqlInv, ResultAgrees
<1> QED
  BY <1>2, <1>3

\* The next text begins where the first did.
LEMMA NextTextKeepsInv ==
  ASSUME NextText
  PROVE  SqlInv'
BY DEF NextText, SqlInv, TypeOK, ScanAgrees, SemicolonsAgree, ResultAgrees,
       WholeTextIsStatement, ParserType, Places, Inside

\* Every step keeps the invariant.
LEMMA NextKeepsInv == SqlInv /\ [Next]_sqlVars => SqlInv'
<1> SUFFICES ASSUME SqlInv, [Next]_sqlVars
             PROVE  SqlInv'
  OBVIOUS
<1>1. ASSUME NEW p \in Pieces, Read(p)
      PROVE  SqlInv'
  BY <1>1, InLiteralKeepsInv, OutsideKeepsInv, AfterErrorKeepsInv DEF Read
<1>2. CASE UNCHANGED sqlVars
  BY <1>2 DEF sqlVars, SqlInv, TypeOK, ScanAgrees, SemicolonsAgree, ResultAgrees,
              WholeTextIsStatement
<1> QED
  BY <1>1, <1>2, OutOfMemoryKeepsInv, FinishKeepsInv, NextTextKeepsInv DEF Next

\* The readers stay in step.
LEMMA SqlInvariant == Spec => []SqlInv
BY InitInv, NextKeepsInv, PTL DEF Spec
-----------------------------------------------------------------------------
\* For every set of words and texts of every length: concurrency_lock_mode_from_
\* sql gives an INSERT the write lock and a SELECT the shared one, although it
\* reads the text by other rules than lex_sql and parse_statement.
THEOREM LockAlwaysFits == Spec => []LockFitsStatement
<1>1. SqlInv => LockFitsStatement
  BY DEF SqlInv, ScanAgrees, ResultAgrees, LockFitsStatement, concurrency_lock_mode_from_sql
<1> QED
  BY <1>1, SqlInvariant, PTL

\* For every set of words and texts of every length: what parse_statement lets
\* through is one statement with one semicolon and no literal left open, in
\* spite of the end check of lex_string.
THEOREM OnlyWholeStatements == Spec => []WholeTextIsStatement
<1>1. SqlInv => WholeTextIsStatement
  BY DEF SqlInv, ResultAgrees, WholeTextIsStatement
<1> QED
  BY <1>1, SqlInvariant, PTL

-----------------------------------------------------------------------------
(* The loops over digits and header lines.                                 *)

\* A set of natural numbers with 0 and the successors of all in it has them all.
LEMMA SetInduction ==
  ASSUME NEW T \in SUBSET Nat, 0 \in T, \A n \in T : n + 1 \in T
  PROVE  T = Nat
<1>. SUFFICES ASSUME Nat \ T # {} PROVE FALSE
  OBVIOUS
<1>1. PICK x \in Nat \ T : \A y \in Nat \ T : ~(<<y, x>> \in OpToRel(<, Nat))
  BY NatLessThanWellFounded, WFMin
<1>2. \A y \in Nat \ T : ~(y < x)
  BY <1>1 DEF OpToRel
<1>3. x # 0 /\ x - 1 \in Nat /\ x - 1 < x /\ x = (x - 1) + 1
  OBVIOUS
<1>4. x - 1 \in T
  BY <1>2, <1>3
<1>. QED
  BY <1>3, <1>4

\* f holds what a loop of so many rounds has after each of them.
IsLoop(f, first, step, rounds) ==
  f[0] = first /\ \A n \in 1 .. rounds : f[n] = step[n][f[n - 1]]

\* A loop of any number of rounds, each a step, has a value after every round.
LEMMA Iteration ==
  ASSUME NEW S, NEW first \in S, NEW rounds \in Nat, NEW step \in [Nat -> [S -> S]]
  PROVE  \E f \in [0 .. rounds -> S] : IsLoop(f, first, step, rounds)
<1>. DEFINE Runs(f, m) == f[0] = first /\ \A n \in 1 .. m : f[n] = step[n][f[n - 1]]
            T == {m \in Nat : \E f \in [0 .. m -> S] : Runs(f, m)}
<1>1. 0 \in T
  <2>1. [n \in 0 .. 0 |-> first] \in [0 .. 0 -> S] /\ Runs([n \in 0 .. 0 |-> first], 0)
    OBVIOUS
  <2>. QED
    BY <2>1
<1>2. ASSUME NEW m \in Nat, NEW f \in [0 .. m -> S], Runs(f, m)
      PROVE  \E g \in [0 .. m + 1 -> S] : Runs(g, m + 1)
  <2>. DEFINE next == step[m + 1][f[m]]
              g    == [n \in 0 .. m + 1 |-> IF n <= m THEN f[n] ELSE next]
  <2>1. next \in S
    OBVIOUS
  <2>2. g \in [0 .. m + 1 -> S]
    BY <2>1
  <2>3. g[0] = first /\ g[m + 1] = step[m + 1][g[m]]
    BY <1>2
  <2>4. ASSUME NEW n \in 1 .. m PROVE g[n] = step[n][g[n - 1]]
    <3>1. n \in 0 .. m + 1 /\ n - 1 \in 0 .. m + 1 /\ n <= m /\ n - 1 <= m
      OBVIOUS
    <3>. QED
      BY <1>2, <3>1
  <2>. HIDE DEF g
  <2>5. Runs(g, m + 1)
    <3>1. \A n \in 1 .. m + 1 : n \in 1 .. m \/ n = m + 1
      OBVIOUS
    <3>. QED
      BY <2>3, <2>4, <3>1
  <2>. QED
    BY <2>2, <2>5
<1>. HIDE DEF Runs
<1>3. ASSUME NEW m \in T PROVE m + 1 \in T
  <2>1. m \in Nat /\ \E f \in [0 .. m -> S] : Runs(f, m)
    OBVIOUS
  <2>2. m + 1 \in Nat /\ \E g \in [0 .. m + 1 -> S] : Runs(g, m + 1)
    BY <1>2, <2>1
  <2>. QED
    BY <2>2
<1>4. T = Nat
  <2>. HIDE DEF T
  <2>1. T \in SUBSET Nat
    BY DEF T
  <2>. QED
    BY <1>1, <1>3, <2>1, SetInduction
<1>. QED
  BY <1>4 DEF Runs, IsLoop

\* What is known of a number while its digits are read.
NumberType(limit) == [ok : BOOLEAN, value : 0 .. limit]
Digits == Seq(0 .. NotDigit)

\* The test before the multiplication tells exactly whether the sum is too large.
LEMMA OverflowTest ==
  ASSUME NEW limit \in Nat, NEW so_far \in Nat, NEW digit \in Nat
  PROVE  so_far > (limit - digit) \div 10 <=> 10 * so_far + digit > limit
OBVIOUS

\* A digit is read without leaving the limit.
LEMMA ReadDigitType ==
  ASSUME NEW limit \in Nat, NEW number \in NumberType(limit), NEW digit \in 0 .. NotDigit
  PROVE  ReadDigit(number, digit, limit) \in NumberType(limit)
<1>1. digit \in Nat /\ number.value \in Nat
  BY DEF NumberType, NotDigit
<1>2. CASE ~number.ok \/ digit = NotDigit \/ number.value > (limit - digit) \div 10
  BY <1>2 DEF ReadDigit, NumberType
<1>3. CASE ~(~number.ok \/ digit = NotDigit \/ number.value > (limit - digit) \div 10)
  <2>1. 10 * number.value + digit \in 0 .. limit
    BY <1>1, <1>3, OverflowTest
  <2>. QED
    BY <1>3, <2>1 DEF ReadDigit, NumberType
<1>. QED
  BY <1>2, <1>3

\* The loop over the digits of a number.
LEMMA NumberLoop ==
  ASSUME NEW limit \in Nat, NEW digits \in Digits
  PROVE  LET number == NumberAfter(digits, limit)
         IN  number = [n \in 0 .. Len(digits) |->
                         IF n = 0 THEN [ok |-> digits # <<>>, value |-> 0]
                         ELSE ReadDigit(number[n - 1], digits[n], limit)]
<1>. DEFINE S     == NumberType(limit)
            first == [ok |-> digits # <<>>, value |-> 0]
            step  == [n \in Nat |-> [v \in S |->
                       IF n \in 1 .. Len(digits) THEN ReadDigit(v, digits[n], limit) ELSE v]]
<1>1. Len(digits) \in Nat /\ \A n \in 1 .. Len(digits) : digits[n] \in 0 .. NotDigit
  BY DEF Digits, NotDigit
<1>2. first \in S
  BY DEF NumberType
<1>3. step \in [Nat -> [S -> S]]
  BY <1>1, ReadDigitType
<1>4. PICK f \in [0 .. Len(digits) -> S] : IsLoop(f, first, step, Len(digits))
  <2>. HIDE DEF S, first, step
  <2>1. Len(digits) \in Nat
    BY <1>1
  <2>. QED
    BY <1>2, <1>3, <2>1, Iteration
<1>5. ASSUME NEW n \in 1 .. Len(digits) PROVE f[n] = ReadDigit(f[n - 1], digits[n], limit)
  <2>1. n \in Nat /\ f[n - 1] \in S
    BY <1>1, <1>4
  <2>2. f[n] = step[n][f[n - 1]]
    BY <1>4 DEF IsLoop
  <2>. HIDE DEF S
  <2>. QED
    BY <2>1, <2>2
<1>6. f = [n \in 0 .. Len(digits) |-> IF n = 0 THEN first ELSE ReadDigit(f[n - 1], digits[n], limit)]
  BY <1>1, <1>4, <1>5 DEF IsLoop
<1>. QED
  BY <1>6 DEF NumberAfter

\* What is read of a number never exceeds the limit.
LEMMA NumberTyped ==
  ASSUME NEW limit \in Nat, NEW digits \in Digits
  PROVE  /\ \A n \in 0 .. Len(digits) : NumberAfter(digits, limit)[n] \in NumberType(limit)
         /\ ReadNumber(digits, limit) \in NumberType(limit)
<1>. DEFINE number == NumberAfter(digits, limit)
            T      == {m \in Nat : m <= Len(digits) => number[m] \in NumberType(limit)}
<1>1. Len(digits) \in Nat /\ \A n \in 1 .. Len(digits) : digits[n] \in 0 .. NotDigit
  BY DEF Digits, NotDigit
<1>2. \A n \in 0 .. Len(digits) :
        number[n] = IF n = 0 THEN [ok |-> digits # <<>>, value |-> 0]
                    ELSE ReadDigit(number[n - 1], digits[n], limit)
  BY NumberLoop
<1>. HIDE DEF number
<1>3. 0 \in T
  <2>1. number[0] = [ok |-> digits # <<>>, value |-> 0] /\ 0 \in 0 .. limit
    BY <1>1, <1>2
  <2>2. number[0] \in NumberType(limit)
    BY <2>1 DEF NumberType
  <2>. QED
    BY <2>2
<1>4. ASSUME NEW m \in T PROVE m + 1 \in T
  <2>1. m \in Nat /\ m + 1 \in Nat
    OBVIOUS
  <2>. SUFFICES ASSUME m + 1 <= Len(digits) PROVE number[m + 1] \in NumberType(limit)
    BY <2>1
  <2>2. m <= Len(digits) /\ m + 1 \in 1 .. Len(digits) /\ m + 1 # 0 /\ (m + 1) - 1 = m
    BY <1>1, <2>1
  <2>3. number[m] \in NumberType(limit) /\ digits[m + 1] \in 0 .. NotDigit
    BY <1>1, <2>2
  <2>4. number[m + 1] = ReadDigit(number[m], digits[m + 1], limit)
    BY <1>2, <2>1, <2>2
  <2>. QED
    BY <2>3, <2>4, ReadDigitType
<1>5. T = Nat
  BY <1>3, <1>4, SetInduction
<1>6. \A n \in 0 .. Len(digits) : number[n] \in NumberType(limit)
  BY <1>1, <1>5
<1>. QED
  BY <1>1, <1>6 DEF ReadNumber, number

Texts       == STRING \cup {""}
HeaderType  == [name : STRING, digits : Digits, text : STRING]
RequestType ==
  [ok : BOOLEAN, saw : SUBSET STRING, content_length : 0 .. SizeMax, content_type : Texts,
   debug_sleep_ms : Digits]

\* The request before the first header line.
LEMMA NoHeadersType == NoHeaders \in RequestType
<1>1. 0 \in 0 .. SizeMax
  BY HttpReceiveAssumption
<1>2. <<>> \in Digits
  BY DEF Digits
<1>3. {} \in SUBSET STRING
  OBVIOUS
<1>4. "" \in Texts
  BY DEF Texts
<1>. QED
  BY <1>1, <1>2, <1>3, <1>4 DEF NoHeaders, RequestType

\* A header line leaves a request that fits its fields.
LEMMA ParseHeaderType ==
  ASSUME NEW read \in RequestType, NEW header \in HeaderType
  PROVE  http_parse_header(read, header) \in RequestType
<1>. DEFINE length == http_parse_content_length(header.digits)
<1>1. header.digits \in Digits /\ header.name \in STRING /\ header.text \in Texts
  BY DEF HeaderType, Texts
<1>2. length \in NumberType(SizeMax)
  BY <1>1, NumberTyped, HttpReceiveAssumption DEF http_parse_content_length
<1>3. length.value \in 0 .. SizeMax
  BY <1>2 DEF NumberType
<1>. HIDE DEF length
<1>4. [read EXCEPT !.ok = FALSE] \in RequestType
  BY DEF RequestType
<1>. DEFINE seen == [read EXCEPT !.saw = @ \cup {header.name}]
<1>5. seen \in RequestType
  BY <1>1 DEF RequestType
<1>. HIDE DEF seen
<1>6. /\ [seen EXCEPT !.content_length = length.value] \in RequestType
      /\ [seen EXCEPT !.content_type = header.text] \in RequestType
      /\ [seen EXCEPT !.debug_sleep_ms = header.digits] \in RequestType
  BY <1>1, <1>3, <1>5 DEF RequestType
<1>7. http_parse_header(read, header) \in
        {read, [read EXCEPT !.ok = FALSE], [seen EXCEPT !.content_length = length.value],
         [seen EXCEPT !.content_type = header.text], [seen EXCEPT !.debug_sleep_ms = header.digits]}
  BY DEF http_parse_header, length, seen
<1>. QED
  BY <1>4, <1>6, <1>7

\* The loop over the header lines.
LEMMA HeadersLoop ==
  ASSUME NEW headers \in Seq(HeaderType)
  PROVE  LET read == RequestAfter(headers)
         IN  read = [n \in 0 .. Len(headers) |->
                          IF n = 0 THEN NoHeaders ELSE http_parse_header(read[n - 1], headers[n])]
<1>. DEFINE S    == RequestType
            step == [n \in Nat |-> [v \in S |->
                      IF n \in 1 .. Len(headers) THEN http_parse_header(v, headers[n]) ELSE v]]
<1>1. Len(headers) \in Nat /\ \A n \in 1 .. Len(headers) : headers[n] \in HeaderType
  OBVIOUS
<1>2. NoHeaders \in S
  BY NoHeadersType
<1>3. step \in [Nat -> [S -> S]]
  BY <1>1, ParseHeaderType
<1>4. PICK f \in [0 .. Len(headers) -> S] : IsLoop(f, NoHeaders, step, Len(headers))
  <2>. HIDE DEF S, step
  <2>1. Len(headers) \in Nat
    BY <1>1
  <2>. QED
    BY <1>2, <1>3, <2>1, Iteration
<1>5. ASSUME NEW n \in 1 .. Len(headers) PROVE f[n] = http_parse_header(f[n - 1], headers[n])
  <2>1. n \in Nat /\ f[n - 1] \in S
    BY <1>1, <1>4
  <2>2. f[n] = step[n][f[n - 1]]
    BY <1>4 DEF IsLoop
  <2>. HIDE DEF S
  <2>. QED
    BY <2>1, <2>2
<1>6. f = [n \in 0 .. Len(headers) |-> IF n = 0 THEN NoHeaders ELSE http_parse_header(f[n - 1], headers[n])]
  BY <1>1, <1>4, <1>5 DEF IsLoop
<1>. QED
  BY <1>6 DEF RequestAfter

\* The request keeps its type through all the rounds.
LEMMA RequestTyped ==
  ASSUME NEW headers \in Seq(HeaderType)
  PROVE  \A n \in 0 .. Len(headers) : RequestAfter(headers)[n] \in RequestType
<1>. DEFINE read == RequestAfter(headers)
            T       == {m \in Nat : m <= Len(headers) => read[m] \in RequestType}
<1>1. Len(headers) \in Nat /\ \A n \in 1 .. Len(headers) : headers[n] \in HeaderType
  OBVIOUS
<1>2. \A n \in 0 .. Len(headers) :
        read[n] = IF n = 0 THEN NoHeaders ELSE http_parse_header(read[n - 1], headers[n])
  BY HeadersLoop
<1>. HIDE DEF read
<1>3. 0 \in T
  <2>1. read[0] = NoHeaders
    BY <1>1, <1>2
  <2>. QED
    BY <2>1, NoHeadersType
<1>4. ASSUME NEW m \in T PROVE m + 1 \in T
  <2>1. m \in Nat /\ m + 1 \in Nat
    OBVIOUS
  <2>. SUFFICES ASSUME m + 1 <= Len(headers) PROVE read[m + 1] \in RequestType
    BY <2>1
  <2>2. m <= Len(headers) /\ m + 1 \in 1 .. Len(headers) /\ m + 1 # 0 /\ (m + 1) - 1 = m
    BY <1>1, <2>1
  <2>3. read[m] \in RequestType /\ headers[m + 1] \in HeaderType
    BY <1>1, <2>2
  <2>4. read[m + 1] = http_parse_header(read[m], headers[m + 1])
    BY <1>2, <2>1, <2>2
  <2>. QED
    BY <2>3, <2>4, ParseHeaderType
<1>5. T = Nat
  BY <1>3, <1>4, SetInduction
<1>. QED
  BY <1>1, <1>5 DEF read

\* What a head declares fits a size_t, for every stream.
LEMMA HeadTyped ==
  ASSUME NEW s \in Streams
  PROVE  /\ s.headers \in Seq(HeaderType)
         /\ http_parse_headers(s.headers) \in RequestType
         /\ http_parse_head(s).ok \in BOOLEAN
         /\ http_parse_head(s).content_length \in 0 .. SizeMax
         /\ http_parse_head(s).content_type = http_parse_headers(s.headers).content_type
         /\ http_parse_head(s).content_length = http_parse_headers(s.headers).content_length
         /\ http_parse_head(s).ok <=>
              http_parse_headers(s.headers).ok /\ http_parse_request_line(s.line)
<1>1. s.headers \in Seq(HeaderType)
  BY HttpReceiveAssumption DEF HeaderType, Digits
<1>2. Len(s.headers) \in 0 .. Len(s.headers)
  BY <1>1
<1>3. http_parse_headers(s.headers) \in RequestType
  BY <1>1, <1>2, RequestTyped DEF http_parse_headers
<1>. QED
  BY <1>1, <1>3 DEF http_parse_head, RequestType
-----------------------------------------------------------------------------
(* The receive loop.                                                       *)

\* The bounds of buffer and stream.
Bounds ==
  /\ buffer_length <= buffer_capacity
  /\ buffer_capacity <= MaxBytes
  /\ buffer_length <= stream.sent

\* Nothing was decided by what has come so far.
Undecided == buffer_length = 0 \/ http_request_probe(stream, buffer_length) = "reading"

ReceiveInv ==
  /\ ReceiveTypeOK
  /\ Bounds
  /\ receive = "reading" => Undecided
  /\ SegmentationBlind

\* The numbers the receive loop compares are natural numbers.
LEMMA StreamNumbers ==
  ASSUME ReceiveTypeOK
  PROVE  /\ stream.head \in Nat /\ stream.sent \in Nat
         /\ RequestLength(stream) \in Nat
         /\ Chunk \in Nat /\ MaxBytes \in Nat /\ SizeMax \in Nat
         /\ 1 <= Chunk /\ Chunk <= MaxBytes
<1>1. stream \in Streams
  BY DEF ReceiveTypeOK
<1>2. http_parse_head(stream).content_length \in 0 .. SizeMax
  BY <1>1, HeadTyped
<1>3. SizeMax \in Nat /\ stream.head \in Nat /\ stream.sent \in Nat
  BY <1>1, HttpReceiveAssumption
<1>4. RequestLength(stream) \in Nat
  BY <1>2, <1>3 DEF RequestLength
<1>. QED
  BY <1>3, <1>4, HttpReceiveAssumption

\* http_grow_buffer stays within the limit, never shrinks the buffer, and
\* refuses only when the limit is full.
LEMMA GrownFits ==
  ASSUME ReceiveTypeOK, Bounds
  PROVE  /\ Grown \in Nat /\ Grown <= MaxBytes /\ buffer_capacity <= Grown
         /\ Grown <= buffer_length => buffer_length = MaxBytes
<1>1. Chunk \in Nat /\ MaxBytes \in Nat /\ 1 <= Chunk /\ Chunk <= MaxBytes
  BY HttpReceiveAssumption
<1>2. buffer_length \in Nat /\ buffer_capacity \in Nat
  BY DEF ReceiveTypeOK
<1>3. CASE buffer_capacity = 0
  BY <1>1, <1>2, <1>3 DEF Grown, Bounds
<1>4. CASE buffer_capacity # 0
  <2>1. MaxBytes \div 2 \in Nat /\ 2 * (MaxBytes \div 2) <= MaxBytes
    BY <1>1
  <2>. QED
    BY <1>1, <1>2, <1>4, <2>1 DEF Grown, Bounds
<1>. QED
  BY <1>3, <1>4

\* An end that the probe declares is the end of the whole stream.
LEMMA ProbeAgrees ==
  ASSUME ReceiveTypeOK,
         NEW length \in Nat, length >= 1, length <= MaxBytes, length <= stream.sent,
         http_request_probe(stream, length) # "reading"
  PROVE  /\ http_request_probe(stream, length) = WholeReading(stream)
         /\ http_request_probe(stream, length) \in Ends
<1>1. stream.head \in Nat /\ stream.sent \in Nat /\ RequestLength(stream) \in Nat /\ MaxBytes \in Nat
  BY StreamNumbers
<1>2. stream.head > 0 /\ stream.head <= length
  BY <1>1 DEF http_request_probe
<1>3. stream.head <= stream.sent /\ stream.head <= MaxBytes
  BY <1>1, <1>2
<1>4. ~(length > MaxBytes) /\ ~(length < stream.head) /\ stream.head # 0
  BY <1>1, <1>2
<1>5. CASE ~http_parse_head(stream).ok \/ RequestLength(stream) > SizeMax
  BY <1>2, <1>3, <1>4, <1>5 DEF http_request_probe, WholeReading, Ends
<1>6. CASE /\ ~(~http_parse_head(stream).ok \/ RequestLength(stream) > SizeMax)
           /\ RequestLength(stream) > MaxBytes
  BY <1>2, <1>3, <1>4, <1>6 DEF http_request_probe, WholeReading, Ends
<1>7. CASE /\ ~(~http_parse_head(stream).ok \/ RequestLength(stream) > SizeMax)
           /\ ~(RequestLength(stream) > MaxBytes)
  <2>1. length >= RequestLength(stream)
    BY <1>4, <1>7 DEF http_request_probe
  <2>2. RequestLength(stream) <= stream.sent
    BY <1>1, <2>1
  <2>. QED
    BY <1>2, <1>3, <1>4, <1>7, <2>1, <2>2 DEF http_request_probe, WholeReading, Ends
<1>. QED
  BY <1>5, <1>6, <1>7

\* Where the whole buffer decides nothing, nothing is left to decide it.
LEMMA UndecidedAtEnd ==
  ASSUME ReceiveTypeOK, Bounds, Undecided
  PROVE  /\ buffer_length = MaxBytes => WholeReading(stream) = "payload_too_large"
         /\ buffer_length = stream.sent /\ buffer_length < MaxBytes =>
              WholeReading(stream) = IF buffer_length = 0 THEN "silent" ELSE "incomplete_request"
<1>1. /\ stream.head \in Nat /\ stream.sent \in Nat /\ RequestLength(stream) \in Nat
      /\ MaxBytes \in Nat /\ 1 <= MaxBytes
  BY StreamNumbers
<1>2. buffer_length \in Nat /\ buffer_length <= MaxBytes /\ buffer_length <= stream.sent
  BY <1>1 DEF ReceiveTypeOK, Bounds
<1>3. CASE buffer_length = 0
  <2>1. buffer_length # MaxBytes
    BY <1>1, <1>3
  <2>2. buffer_length = stream.sent => ~(stream.head > 0 /\ stream.head <= stream.sent) /\ ~(stream.sent >= MaxBytes)
    BY <1>1, <1>3
  <2>. QED
    BY <1>3, <2>1, <2>2 DEF WholeReading
<1>4. CASE buffer_length # 0
  <2>1. http_request_probe(stream, buffer_length) = "reading"
    BY <1>4 DEF Undecided
  <2>2. ~(buffer_length > MaxBytes)
    BY <1>1, <1>2
  <2>3. \/ stream.head = 0 \/ buffer_length < stream.head
        \/ /\ http_parse_head(stream).ok /\ ~(RequestLength(stream) > SizeMax)
           /\ ~(RequestLength(stream) > MaxBytes)
           /\ ~(buffer_length >= RequestLength(stream))
    BY <2>1, <2>2 DEF http_request_probe
  <2>4. ASSUME buffer_length = MaxBytes
        PROVE  WholeReading(stream) = "payload_too_large"
    <3>1. ~(stream.head > 0 /\ stream.head <= stream.sent /\ stream.head <= MaxBytes)
      BY <1>1, <1>2, <2>3, <2>4
    <3>2. stream.sent >= MaxBytes
      BY <1>1, <1>2, <2>4
    <3>. QED
      BY <3>1, <3>2 DEF WholeReading
  <2>5. ASSUME buffer_length = stream.sent, buffer_length < MaxBytes
        PROVE  WholeReading(stream) = "incomplete_request"
    <3>1. ~(stream.sent >= MaxBytes) /\ stream.sent # 0
      BY <1>1, <1>4, <2>5
    <3>2. CASE stream.head > 0 /\ stream.head <= stream.sent /\ stream.head <= MaxBytes
      <4>1. /\ http_parse_head(stream).ok /\ ~(RequestLength(stream) > SizeMax)
            /\ ~(RequestLength(stream) > MaxBytes)
            /\ ~(RequestLength(stream) <= stream.sent)
        BY <1>1, <1>2, <2>3, <2>5, <3>2
      <4>. QED
        BY <3>2, <4>1 DEF WholeReading
    <3>3. CASE ~(stream.head > 0 /\ stream.head <= stream.sent /\ stream.head <= MaxBytes)
      BY <3>1, <3>3 DEF WholeReading
    <3>. QED
      BY <3>2, <3>3
  <2>. QED
    BY <1>4, <2>4, <2>5
<1>. QED
  BY <1>3, <1>4

\* The handler starts with an empty buffer.
LEMMA ReceiveStarts == ReceiveInit => ReceiveInv
<1>. SUFFICES ASSUME ReceiveInit PROVE ReceiveInv
  OBVIOUS
<1>1. ReceiveTypeOK
  BY DEF ReceiveInit, ReceiveTypeOK
<1>2. Bounds
  BY <1>1, StreamNumbers DEF ReceiveInit, Bounds
<1>. QED
  BY <1>1, <1>2 DEF ReceiveInit, ReceiveInv, Undecided, SegmentationBlind, Ends, Faults

\* One round of the receive loop, or a step of somebody else.
LEMMA ReceiveKeeps == ReceiveInv /\ [Receive]_receiveVars => ReceiveInv'
<1>. SUFFICES ASSUME ReceiveInv, [Receive]_receiveVars PROVE ReceiveInv'
  OBVIOUS
<1>0. ReceiveTypeOK /\ Bounds /\ SegmentationBlind
  BY DEF ReceiveInv
<1>1. /\ stream.sent \in Nat /\ MaxBytes \in Nat
      /\ buffer_length \in Nat /\ buffer_capacity \in Nat
  BY <1>0, StreamNumbers DEF ReceiveTypeOK
<1>2. /\ Grown \in Nat /\ Grown <= MaxBytes /\ buffer_capacity <= Grown
      /\ Grown <= buffer_length => buffer_length = MaxBytes
  BY <1>0, GrownFits
<1>3. CASE GrowRefused
  <2>1. receive = "reading" /\ Undecided /\ buffer_length = MaxBytes
    BY <1>2, <1>3 DEF GrowRefused, ReceiveInv
  <2>2. receive' = "payload_too_large" /\ UNCHANGED <<stream, buffer_length, buffer_capacity>>
    BY <1>1, <1>3, <2>1 DEF GrowRefused
  <2>3. WholeReading(stream) = "payload_too_large"
    BY <1>0, <2>1, UndecidedAtEnd
  <2>4. (SegmentationBlind)'
    BY <2>2, <2>3 DEF SegmentationBlind, WholeReading, RequestLength
  <2>. QED
    BY <1>0, <2>2, <2>4 DEF ReceiveInv, ReceiveTypeOK, Bounds, Ends
<1>4. CASE RecvSome
  <2>1. PICK n \in 1 .. (stream.sent - buffer_length) : Recv(n)
    BY <1>4 DEF RecvSome
  <2>2. /\ stream' = stream /\ buffer_capacity' = Grown
        /\ buffer_length' = buffer_length + n
        /\ n <= Grown - buffer_length
        /\ receive' = http_request_probe(stream, buffer_length')
    BY <2>1 DEF Recv, http_grow_buffer
  <2>3. /\ buffer_length' \in Nat /\ buffer_length' >= 1
        /\ buffer_length' <= Grown /\ buffer_length' <= MaxBytes /\ buffer_length' <= stream.sent
    BY <1>1, <1>2, <2>2
  <2>4. (Bounds)'
    BY <1>2, <2>2, <2>3 DEF Bounds
  <2>5. CASE receive' = "reading"
    <3>1. (Undecided)'
      BY <2>2, <2>5 DEF Undecided, http_request_probe, RequestLength
    <3>. QED
      BY <1>0, <1>2, <2>2, <2>3, <2>4, <2>5, <3>1
      DEF ReceiveInv, ReceiveTypeOK, SegmentationBlind, Ends, Faults
  <2>6. CASE receive' # "reading"
    <3>1. receive' = WholeReading(stream) /\ receive' \in Ends
      BY <1>0, <2>2, <2>3, <2>6, ProbeAgrees
    <3>2. (SegmentationBlind)'
      BY <2>2, <3>1 DEF SegmentationBlind, WholeReading, RequestLength
    <3>. QED
      BY <1>0, <1>2, <2>2, <2>3, <2>4, <2>6, <3>1, <3>2 DEF ReceiveInv, ReceiveTypeOK
  <2>. QED
    BY <2>5, <2>6
<1>5. CASE RecvEnd
  <2>1. /\ receive = "reading" /\ Undecided /\ buffer_length < Grown
        /\ buffer_length = stream.sent /\ buffer_capacity' = Grown
        /\ receive' = (IF buffer_length = 0 THEN "silent" ELSE "incomplete_request")
        /\ UNCHANGED <<stream, buffer_length>>
    BY <1>1, <1>2, <1>5 DEF RecvEnd, http_grow_buffer, ReceiveInv
  <2>2. receive' = WholeReading(stream)
    <3>1. buffer_length < MaxBytes
      BY <1>1, <1>2, <2>1
    <3>. QED
      BY <1>0, <2>1, <3>1, UndecidedAtEnd
  <2>3. (Bounds)'
    BY <1>0, <1>1, <1>2, <2>1 DEF Bounds
  <2>4. (SegmentationBlind)'
    BY <2>1, <2>2 DEF SegmentationBlind, WholeReading, RequestLength
  <2>. QED
    BY <1>0, <1>2, <2>1, <2>3, <2>4 DEF ReceiveInv, ReceiveTypeOK, Ends
<1>6. CASE GrowFails
  BY <1>0, <1>6 DEF GrowFails, ReceiveInv, ReceiveTypeOK, Bounds, SegmentationBlind, Ends, Faults
<1>7. CASE RecvInterrupted
  <2>1. /\ receive = "reading" /\ Undecided /\ buffer_capacity' = Grown
        /\ UNCHANGED <<stream, buffer_length, receive>>
    BY <1>7 DEF RecvInterrupted, http_grow_buffer, ReceiveInv
  <2>2. (Bounds)'
    BY <1>0, <1>1, <1>2, <2>1 DEF Bounds
  <2>3. (Undecided)'
    BY <2>1 DEF Undecided, http_request_probe, RequestLength
  <2>. QED
    BY <1>0, <1>2, <2>1, <2>2, <2>3 DEF ReceiveInv, ReceiveTypeOK, SegmentationBlind, Ends
<1>8. CASE RecvFails
  <2>1. receive' = "read_failed" /\ buffer_capacity' = Grown /\ UNCHANGED <<stream, buffer_length>>
    BY <1>8 DEF RecvFails, http_grow_buffer
  <2>2. (Bounds)'
    BY <1>0, <1>1, <1>2, <2>1 DEF Bounds
  <2>. QED
    BY <1>0, <1>2, <2>1, <2>2 DEF ReceiveInv, ReceiveTypeOK, SegmentationBlind, Ends, Faults
<1>9. CASE UNCHANGED receiveVars
  <2>1. UNCHANGED <<stream, buffer_length, buffer_capacity, receive>>
    BY <1>9 DEF receiveVars
  <2>2. (Undecided)' = Undecided
    BY <2>1 DEF Undecided, http_request_probe, RequestLength
  <2>3. (SegmentationBlind)'
    BY <1>0, <2>1 DEF SegmentationBlind, WholeReading, RequestLength
  <2>. QED
    BY <1>0, <2>1, <2>2, <2>3 DEF ReceiveInv, ReceiveTypeOK, Bounds
<1>. QED
  BY <1>3, <1>4, <1>5, <1>6, <1>7, <1>8, <1>9 DEF Receive, ReceiveOn, ReceiveFault

\* Whatever the pieces, the chunk size and the limit, the receive loop of
\* http_server_handle_client ends as one reading of the whole stream does.
THEOREM PiecesDoNotShow == ReceiveSpec => []SegmentationBlind
<1>1. ReceiveInv => SegmentationBlind
  BY DEF ReceiveInv
<1>. QED
  BY <1>1, ReceiveStarts, ReceiveKeeps, PTL DEF ReceiveSpec

\* The buffer of http_grow_buffer holds what was received and stays within
\* max_request_bytes, for every chunk size and limit.
THEOREM BufferAlwaysFits == ReceiveSpec => []BufferFits
<1>1. ReceiveInv => BufferFits
  BY DEF ReceiveInv, Bounds, BufferFits
<1>. QED
  BY <1>1, ReceiveStarts, ReceiveKeeps, PTL DEF ReceiveSpec
-----------------------------------------------------------------------------
(* A head: what the loops of http_protocol.c make of it.                   *)

\* The sum of the digits, place by place.
LEMMA DecimalLoop ==
  ASSUME NEW digits \in Digits
  PROVE  LET read == DecimalAfter(digits)
         IN  read = [n \in 0 .. Len(digits) |-> IF n = 0 THEN 0 ELSE 10 * read[n - 1] + digits[n]]
<1>. DEFINE step == [n \in Nat |-> [v \in Nat |->
                      IF n \in 1 .. Len(digits) THEN 10 * v + digits[n] ELSE v]]
<1>1. Len(digits) \in Nat /\ \A n \in 1 .. Len(digits) : digits[n] \in Nat
  BY DEF Digits, NotDigit
<1>2. step \in [Nat -> [Nat -> Nat]]
  BY <1>1
<1>3. PICK f \in [0 .. Len(digits) -> Nat] : IsLoop(f, 0, step, Len(digits))
  <2>. HIDE DEF step
  <2>1. Len(digits) \in Nat /\ 0 \in Nat
    BY <1>1
  <2>. QED
    BY <1>2, <2>1, Iteration
<1>4. ASSUME NEW n \in 1 .. Len(digits) PROVE f[n] = 10 * f[n - 1] + digits[n]
  <2>1. n \in Nat /\ n - 1 \in 0 .. Len(digits) /\ digits[n] \in Nat
    BY <1>1
  <2>2. f[n] = step[n][f[n - 1]]
    BY <1>3 DEF IsLoop
  <2>3. f[n - 1] \in Nat
    <3>. HIDE DEF step
    <3>. QED
      BY <1>3, <2>1
  <2>. QED
    BY <2>1, <2>2, <2>3
<1>5. f = [n \in 0 .. Len(digits) |-> IF n = 0 THEN 0 ELSE 10 * f[n - 1] + digits[n]]
  BY <1>1, <1>3, <1>4 DEF IsLoop
<1>. QED
  BY <1>5 DEF DecimalAfter

\* What is known of a number after m digits is what they stand for.
ReadSoFar(digits, limit, m) ==
  LET number == NumberAfter(digits, limit)[m]
      read   == DecimalAfter(digits)[m]
  IN /\ read \in Nat
     /\ number.ok <=> digits # <<>> /\ (\A d \in 1 .. m : digits[d] # NotDigit) /\ read <= limit
     /\ number.ok => number.value = read

\* One digit more.
LEMMA ReadOneMore ==
  ASSUME NEW limit \in Nat, NEW digits \in Digits, NEW m \in Nat, m + 1 <= Len(digits),
         ReadSoFar(digits, limit, m)
  PROVE  ReadSoFar(digits, limit, m + 1)
<1>. DEFINE number == NumberAfter(digits, limit)
            read   == DecimalAfter(digits)
            digit  == digits[m + 1]
<1>1. m \in 0 .. Len(digits) /\ m + 1 \in 0 .. Len(digits) /\ m + 1 # 0 /\ (m + 1) - 1 = m
  BY DEF Digits
<1>2. digit \in 0 .. NotDigit /\ digit \in Nat
  BY <1>1 DEF Digits, NotDigit
<1>3. number[m + 1] = ReadDigit(number[m], digit, limit)
  <2>1. \A n \in 0 .. Len(digits) : n # 0 => number[n] = ReadDigit(number[n - 1], digits[n], limit)
    BY NumberLoop
  <2>. HIDE DEF number
  <2>. QED
    BY <1>1, <2>1
<1>4. read[m + 1] = 10 * read[m] + digit
  <2>1. \A n \in 0 .. Len(digits) : n # 0 => read[n] = 10 * read[n - 1] + digits[n]
    BY DecimalLoop
  <2>. HIDE DEF read
  <2>. QED
    BY <1>1, <2>1
<1>5. number[m] \in NumberType(limit) /\ number[m].value \in Nat /\ number[m].ok \in BOOLEAN
  BY <1>1, NumberTyped DEF NumberType
<1>6. /\ read[m] \in Nat
      /\ number[m].ok <=> digits # <<>> /\ (\A d \in 1 .. m : digits[d] # NotDigit) /\ read[m] <= limit
      /\ number[m].ok => number[m].value = read[m]
  BY DEF ReadSoFar
<1>. HIDE DEF number, read, digit
<1>7. (\A d \in 1 .. m + 1 : digits[d] # NotDigit) <=>
        (\A d \in 1 .. m : digits[d] # NotDigit) /\ digit # NotDigit
  BY DEF digit
<1>8. read[m + 1] \in Nat /\ (read[m + 1] <= limit => read[m] <= limit)
  BY <1>2, <1>4, <1>6
<1>9. CASE ~number[m].ok
  <2>1. ~number[m + 1].ok
    BY <1>3, <1>5, <1>9 DEF ReadDigit, NumberType
  <2>. QED
    BY <1>6, <1>7, <1>8, <1>9, <2>1 DEF ReadSoFar, number, read
<1>10. CASE number[m].ok
  <2>1. number[m].value = read[m] /\ (number[m].value > (limit - digit) \div 10 <=> read[m + 1] > limit)
    BY <1>2, <1>4, <1>6, <1>10, OverflowTest
  <2>2. CASE digit = NotDigit \/ read[m + 1] > limit
    <3>1. ~number[m + 1].ok
      BY <1>3, <1>5, <2>1, <2>2 DEF ReadDigit, NumberType
    <3>2. ~(digit # NotDigit /\ read[m + 1] <= limit)
      BY <1>8, <2>2, HttpReceiveAssumption
    <3>. QED
      BY <1>7, <1>8, <3>1, <3>2 DEF ReadSoFar, number, read
  <2>3. CASE ~(digit = NotDigit \/ read[m + 1] > limit)
    <3>1. number[m + 1].ok /\ number[m + 1].value = read[m + 1]
      BY <1>3, <1>4, <1>5, <1>10, <2>1, <2>3 DEF ReadDigit, NumberType
    <3>2. digit # NotDigit /\ read[m + 1] <= limit
      BY <1>8, <2>3
    <3>. QED
      BY <1>6, <1>7, <1>8, <1>10, <3>1, <3>2 DEF ReadSoFar, number, read
  <2>. QED
    BY <2>2, <2>3
<1>. QED
  BY <1>5, <1>9, <1>10

\* http_parse_content_length reads the number that is there, or refuses it
\* because it has none, another character, or too large a number.
LEMMA NumberIsDecimal ==
  ASSUME NEW limit \in Nat, NEW digits \in Digits
  PROVE  ReadSoFar(digits, limit, Len(digits))
<1>. DEFINE T == {m \in Nat : m <= Len(digits) => ReadSoFar(digits, limit, m)}
<1>1. Len(digits) \in Nat
  BY DEF Digits
<1>2. 0 \in T
  <2>1. NumberAfter(digits, limit)[0] = [ok |-> digits # <<>>, value |-> 0]
    BY <1>1, NumberLoop
  <2>2. DecimalAfter(digits)[0] = 0
    BY <1>1, DecimalLoop
  <2>3. \A d \in 1 .. 0 : digits[d] # NotDigit
    OBVIOUS
  <2>4. 0 \in Nat /\ 0 <= limit
    OBVIOUS
  <2>5. NumberAfter(digits, limit)[0].ok = (digits # <<>>) /\ NumberAfter(digits, limit)[0].value = 0
    <3>. DEFINE some == digits # <<>>
    <3>1. NumberAfter(digits, limit)[0] = [ok |-> some, value |-> 0]
      BY <2>1
    <3>. HIDE DEF some
    <3>2. NumberAfter(digits, limit)[0].ok = some /\ NumberAfter(digits, limit)[0].value = 0
      BY <3>1
    <3>. QED
      BY <3>2 DEF some
  <2>6. ReadSoFar(digits, limit, 0)
    BY <2>2, <2>3, <2>4, <2>5 DEF ReadSoFar
  <2>. QED
    BY <2>6
<1>3. ASSUME NEW m \in T PROVE m + 1 \in T
  BY <1>1, ReadOneMore
<1>4. T = Nat
  <2>1. T \in SUBSET Nat
    OBVIOUS
  <2>. HIDE DEF T
  <2>. QED
    BY <1>2, <1>3, <2>1, SetInduction
<1>. QED
  BY <1>1, <1>4

\* The headers that are refused, and those that may come once.
RefusedNames == {"no colon", "", "Transfer-Encoding"}
ReadOnce     == {"Content-Length", "Content-Type", "X-Debug-Sleep-Ms"}

\* A header line that nothing is wrong with by itself.
GoodHeader(header) ==
  /\ header.name \notin RefusedNames
  /\ header.name = "Content-Length" => GoodLength(header.digits)
  /\ header.name = "Content-Type" => header.text # "long"
  /\ header.name = "X-Debug-Sleep-Ms" => header.digits # <<>> /\ header.text # "long"

\* http_parse_content_length in terms of the number that is there.
LEMMA LengthRead ==
  ASSUME NEW digits \in Digits
  PROVE  LET length == http_parse_content_length(digits)
         IN  (length.ok <=> GoodLength(digits)) /\ (length.ok => length.value = Decimal(digits))
<1>1. SizeMax \in Nat
  BY HttpReceiveAssumption
<1>2. ReadSoFar(digits, SizeMax, Len(digits))
  BY <1>1, NumberIsDecimal
<1>3. DOMAIN digits = 1 .. Len(digits)
  BY DEF Digits
<1>. QED
  BY <1>2, <1>3 DEF ReadSoFar, GoodLength, Decimal, http_parse_content_length, ReadNumber

\* What one round of http_parse_headers does, in one sentence.
LEMMA RoundSays ==
  ASSUME NEW before \in RequestType, NEW header \in HeaderType
  PROVE  LET next == http_parse_header(before, header)
         IN  /\ next.ok <=> before.ok /\ header.name \notin before.saw /\ GoodHeader(header)
             /\ next.ok =>
                  /\ \A x : x \in next.saw <=> x \in before.saw \/ (x = header.name /\ x \in ReadOnce)
                  /\ next.content_length = IF header.name = "Content-Length"
                                           THEN Decimal(header.digits) ELSE before.content_length
                  /\ next.content_type = IF header.name = "Content-Type"
                                         THEN header.text ELSE before.content_type
<1>. DEFINE next   == http_parse_header(before, header)
            length == http_parse_content_length(header.digits)
            seen   == [before EXCEPT !.saw = @ \cup {header.name}]
            refuse == [before EXCEPT !.ok = FALSE]
<1>1. header.digits \in Digits
  BY DEF HeaderType
<1>2. (length.ok <=> GoodLength(header.digits)) /\ (length.ok => length.value = Decimal(header.digits))
  BY <1>1, LengthRead
<1>3. before.ok \in BOOLEAN /\ ~refuse.ok
  BY DEF RequestType
<1>4. /\ seen \in [ok : BOOLEAN, saw : SUBSET STRING, content_length : 0 .. SizeMax,
                   content_type : Texts, debug_sleep_ms : Digits]
      /\ seen.ok = before.ok /\ seen.saw = before.saw \cup {header.name}
      /\ seen.content_length = before.content_length /\ seen.content_type = before.content_type
  BY DEF RequestType, HeaderType
<1>5. next = IF ~before.ok THEN before
             ELSE IF Refused(before, header) THEN refuse
             ELSE CASE header.name = "Content-Length" ->
                         IF length.ok THEN [seen EXCEPT !.content_length = length.value] ELSE refuse
                    [] header.name = "Content-Type" ->
                         IF header.text # "long" THEN [seen EXCEPT !.content_type = header.text] ELSE refuse
                    [] header.name = "X-Debug-Sleep-Ms" ->
                         IF header.digits # <<>> /\ header.text # "long"
                         THEN [seen EXCEPT !.debug_sleep_ms = header.digits] ELSE refuse
                    [] OTHER -> before
  BY DEF http_parse_header
<1>. HIDE DEF next, length, seen, refuse
<1>6. CASE ~before.ok
  <2>1. next = before
    BY <1>3, <1>5, <1>6
  <2>. QED
    BY <1>6, <2>1 DEF next
<1>. SUFFICES ASSUME before.ok
     PROVE  /\ next.ok <=> header.name \notin before.saw /\ GoodHeader(header)
            /\ next.ok =>
                 /\ \A x : x \in next.saw <=> x \in before.saw \/ (x = header.name /\ x \in ReadOnce)
                 /\ next.content_length = IF header.name = "Content-Length"
                                          THEN Decimal(header.digits) ELSE before.content_length
                 /\ next.content_type = IF header.name = "Content-Type"
                                        THEN header.text ELSE before.content_type
  BY <1>6 DEF next
<1>7. CASE Refused(before, header)
  <2>1. next = refuse
    BY <1>3, <1>5, <1>7
  <2>2. header.name \in RefusedNames \/ header.name \in before.saw
    BY <1>7 DEF Refused, RefusedNames
  <2>. QED
    BY <1>3, <2>1, <2>2 DEF GoodHeader
<1>. SUFFICES ASSUME ~Refused(before, header)
     PROVE  /\ next.ok <=> GoodHeader(header)
            /\ next.ok =>
                 /\ \A x : x \in next.saw <=> x \in before.saw \/ (x = header.name /\ x \in ReadOnce)
                 /\ next.content_length = IF header.name = "Content-Length"
                                          THEN Decimal(header.digits) ELSE before.content_length
                 /\ next.content_type = IF header.name = "Content-Type"
                                        THEN header.text ELSE before.content_type
  BY <1>7 DEF Refused
<1>8. header.name \notin RefusedNames
  BY DEF Refused, RefusedNames
<1>9. CASE header.name = "Content-Length"
  <2>1. next = IF length.ok THEN [seen EXCEPT !.content_length = length.value] ELSE refuse
    BY <1>5, <1>9
  <2>2. GoodHeader(header) <=> length.ok
    BY <1>2, <1>8, <1>9 DEF GoodHeader
  <2>3. CASE length.ok
    <3>1. /\ next.ok = before.ok /\ next.saw = before.saw \cup {header.name}
          /\ next.content_length = length.value /\ next.content_type = before.content_type
      BY <1>4, <2>1, <2>3
    <3>. QED
      BY <1>2, <1>9, <2>2, <2>3, <3>1 DEF ReadOnce
  <2>4. CASE ~length.ok
    BY <1>3, <2>1, <2>2, <2>4
  <2>. QED
    BY <2>3, <2>4
<1>10. CASE header.name = "Content-Type"
  <2>1. next = IF header.text # "long" THEN [seen EXCEPT !.content_type = header.text] ELSE refuse
    BY <1>5, <1>10
  <2>2. GoodHeader(header) <=> header.text # "long"
    BY <1>8, <1>10 DEF GoodHeader
  <2>3. CASE header.text # "long"
    <3>1. /\ next.ok = before.ok /\ next.saw = before.saw \cup {header.name}
          /\ next.content_length = before.content_length /\ next.content_type = header.text
      BY <1>4, <2>1, <2>3
    <3>. QED
      BY <1>10, <2>2, <2>3, <3>1 DEF ReadOnce
  <2>4. CASE ~(header.text # "long")
    BY <1>3, <2>1, <2>2, <2>4
  <2>. QED
    BY <2>3, <2>4
<1>11. CASE header.name = "X-Debug-Sleep-Ms"
  <2>1. next = IF header.digits # <<>> /\ header.text # "long"
               THEN [seen EXCEPT !.debug_sleep_ms = header.digits] ELSE refuse
    BY <1>5, <1>11
  <2>2. GoodHeader(header) <=> header.digits # <<>> /\ header.text # "long"
    BY <1>8, <1>11 DEF GoodHeader
  <2>3. CASE header.digits # <<>> /\ header.text # "long"
    <3>1. /\ next.ok = before.ok /\ next.saw = before.saw \cup {header.name}
          /\ next.content_length = before.content_length /\ next.content_type = before.content_type
      BY <1>4, <2>1, <2>3
    <3>. QED
      BY <1>11, <2>2, <2>3, <3>1 DEF ReadOnce
  <2>4. CASE ~(header.digits # <<>> /\ header.text # "long")
    BY <1>3, <2>1, <2>2, <2>4
  <2>. QED
    BY <2>3, <2>4
<1>12. CASE header.name \notin ReadOnce
  <2>1. next = before
    BY <1>5, <1>12 DEF ReadOnce
  <2>. QED
    BY <1>8, <1>12, <2>1 DEF GoodHeader, ReadOnce
<1>. QED
  BY <1>9, <1>10, <1>11, <1>12 DEF ReadOnce

\* What is known of a request after m header lines.
HeadSoFar(headers, m) ==
  LET read == RequestAfter(headers)[m]
  IN /\ read.ok <=>
          /\ \A h \in 1 .. m : GoodHeader(headers[h])
          /\ \A g, h \in 1 .. m :
               headers[g].name = headers[h].name /\ headers[h].name \in ReadOnce => g = h
     /\ read.ok =>
          /\ \A x : x \in read.saw <=> x \in ReadOnce /\ \E h \in 1 .. m : headers[h].name = x
          /\ \A h \in 1 .. m : headers[h].name = "Content-Length" =>
               read.content_length = Decimal(headers[h].digits)
          /\ \A h \in 1 .. m : headers[h].name = "Content-Type" =>
               read.content_type = headers[h].text
          /\ "Content-Length" \notin read.saw => read.content_length = 0
          /\ "Content-Type" \notin read.saw => read.content_type = ""

\* One header line more.
LEMMA HeadOneMore ==
  ASSUME NEW headers \in Seq(HeaderType), NEW m \in Nat, m + 1 <= Len(headers),
         HeadSoFar(headers, m)
  PROVE  HeadSoFar(headers, m + 1)
<1>. DEFINE old    == RequestAfter(headers)[m]
            new    == RequestAfter(headers)[m + 1]
            header == headers[m + 1]
<1>1. /\ m \in 0 .. Len(headers) /\ m + 1 \in 0 .. Len(headers) /\ m + 1 \in 1 .. Len(headers)
      /\ m + 1 # 0 /\ (m + 1) - 1 = m
  OBVIOUS
<1>2. header \in HeaderType /\ old \in RequestType
  BY <1>1, RequestTyped
<1>3. new = http_parse_header(old, header)
  <2>. DEFINE read == RequestAfter(headers)
  <2>1. \A n \in 0 .. Len(headers) :
          n # 0 => read[n] = http_parse_header(read[n - 1], headers[n])
    BY HeadersLoop
  <2>. HIDE DEF read
  <2>2. read[m + 1] = http_parse_header(read[m], headers[m + 1])
    BY <1>1, <2>1
  <2>. QED
    BY <2>2 DEF read
<1>4. /\ old.ok <=>
           /\ \A h \in 1 .. m : GoodHeader(headers[h])
           /\ \A g, h \in 1 .. m :
                headers[g].name = headers[h].name /\ headers[h].name \in ReadOnce => g = h
      /\ old.ok =>
           /\ \A x : x \in old.saw <=> x \in ReadOnce /\ \E h \in 1 .. m : headers[h].name = x
           /\ \A h \in 1 .. m : headers[h].name = "Content-Length" =>
                old.content_length = Decimal(headers[h].digits)
           /\ \A h \in 1 .. m : headers[h].name = "Content-Type" =>
                old.content_type = headers[h].text
           /\ "Content-Length" \notin old.saw => old.content_length = 0
           /\ "Content-Type" \notin old.saw => old.content_type = ""
  BY DEF HeadSoFar
<1>5. /\ new.ok <=> old.ok /\ header.name \notin old.saw /\ GoodHeader(header)
      /\ new.ok =>
           /\ \A x : x \in new.saw <=> x \in old.saw \/ (x = header.name /\ x \in ReadOnce)
           /\ new.content_length = IF header.name = "Content-Length"
                                   THEN Decimal(header.digits) ELSE old.content_length
           /\ new.content_type = IF header.name = "Content-Type"
                                 THEN header.text ELSE old.content_type
  BY <1>2, <1>3, RoundSays
<1>. HIDE DEF old, new
<1>6. \A h : h \in 1 .. m + 1 <=> h \in 1 .. m \/ h = m + 1
  OBVIOUS
<1>7. m + 1 \notin 1 .. m
  OBVIOUS
<1>8. new.ok <=>
        /\ \A h \in 1 .. m + 1 : GoodHeader(headers[h])
        /\ \A g, h \in 1 .. m + 1 :
             headers[g].name = headers[h].name /\ headers[h].name \in ReadOnce => g = h
  <2>1. CASE ~old.ok
    BY <1>4, <1>5, <1>6, <2>1
  <2>2. CASE old.ok
    <3>1. header.name \in old.saw <=>
            header.name \in ReadOnce /\ \E h \in 1 .. m : headers[h].name = header.name
      BY <1>4, <2>2
    <3>. QED
      BY <1>4, <1>5, <1>6, <1>7, <2>2, <3>1, Zenon
  <2>. QED
    BY <2>1, <2>2
<1>9. ASSUME new.ok
      PROVE  /\ \A x : x \in new.saw <=> x \in ReadOnce /\ \E h \in 1 .. m + 1 : headers[h].name = x
             /\ \A h \in 1 .. m + 1 : headers[h].name = "Content-Length" =>
                  new.content_length = Decimal(headers[h].digits)
             /\ \A h \in 1 .. m + 1 : headers[h].name = "Content-Type" =>
                  new.content_type = headers[h].text
             /\ "Content-Length" \notin new.saw => new.content_length = 0
             /\ "Content-Type" \notin new.saw => new.content_type = ""
  <2>1. \A x : x \in new.saw <=> x \in ReadOnce /\ \E h \in 1 .. m + 1 : headers[h].name = x
    BY <1>4, <1>5, <1>6, <1>9, Zenon
  <2>2. \A h \in 1 .. m : header.name \in ReadOnce => headers[h].name # header.name
    BY <1>4, <1>5, <1>9
  <2>3. "Content-Length" \in ReadOnce /\ "Content-Type" \in ReadOnce
    BY DEF ReadOnce
  <2>4. ASSUME NEW h \in 1 .. m + 1, headers[h].name = "Content-Length"
        PROVE  new.content_length = Decimal(headers[h].digits)
    <3>1. CASE h = m + 1
      BY <1>5, <1>9, <2>4, <3>1
    <3>2. CASE h \in 1 .. m
      <4>1. header.name # "Content-Length"
        BY <2>2, <2>3, <2>4, <3>2
      <4>2. old.content_length = Decimal(headers[h].digits)
        BY <1>4, <1>5, <1>9, <2>4, <3>2
      <4>. QED
        BY <1>5, <1>9, <4>1, <4>2
    <3>. QED
      BY <1>6, <3>1, <3>2
  <2>5. ASSUME NEW h \in 1 .. m + 1, headers[h].name = "Content-Type"
        PROVE  new.content_type = headers[h].text
    <3>1. CASE h = m + 1
      BY <1>5, <1>9, <2>5, <3>1
    <3>2. CASE h \in 1 .. m
      <4>1. header.name # "Content-Type"
        BY <2>2, <2>3, <2>5, <3>2
      <4>2. old.content_type = headers[h].text
        BY <1>4, <1>5, <1>9, <2>5, <3>2
      <4>. QED
        BY <1>5, <1>9, <4>1, <4>2
    <3>. QED
      BY <1>6, <3>1, <3>2
  <2>6. /\ "Content-Length" \notin new.saw => new.content_length = 0
        /\ "Content-Type" \notin new.saw => new.content_type = ""
    BY <1>4, <1>5, <1>9, <2>3
  <2>. QED
    BY <2>1, <2>4, <2>5, <2>6
<1>. QED
  BY <1>8, <1>9 DEF HeadSoFar, new

\* The loop of http_parse_headers, over any number of header lines.
LEMMA HeadersRead ==
  ASSUME NEW headers \in Seq(HeaderType)
  PROVE  HeadSoFar(headers, Len(headers))
<1>. DEFINE T == {m \in Nat : m <= Len(headers) => HeadSoFar(headers, m)}
<1>1. Len(headers) \in Nat
  OBVIOUS
<1>2. 0 \in T
  <2>1. RequestAfter(headers)[0] = NoHeaders
    BY <1>1, HeadersLoop
  <2>2. \A h : h \notin 1 .. 0
    OBVIOUS
  <2>3. /\ NoHeaders.ok /\ NoHeaders.saw = {}
        /\ NoHeaders.content_length = 0 /\ NoHeaders.content_type = ""
    BY DEF NoHeaders
  <2>4. HeadSoFar(headers, 0)
    BY <2>1, <2>2, <2>3, Zenon DEF HeadSoFar
  <2>. QED
    BY <2>4
<1>3. ASSUME NEW m \in T PROVE m + 1 \in T
  BY <1>1, HeadOneMore
<1>4. T = Nat
  <2>1. T \in SUBSET Nat
    OBVIOUS
  <2>. HIDE DEF T
  <2>. QED
    BY <1>2, <1>3, <2>1, SetInduction
<1>. QED
  BY <1>1, <1>4

\* http_parse_head accepts exactly the good heads and finds what they declare.
LEMMA HeadRead ==
  ASSUME NEW s \in Streams
  PROVE  LET parsed == http_parse_head(s)
         IN  /\ parsed.ok <=> GoodHead(s)
             /\ parsed.ok =>
                  /\ parsed.content_length = DeclaredLength(s)
                  /\ \A h \in Named(s, "Content-Type") : parsed.content_type = s.headers[h].text
<1>. DEFINE hs   == s.headers
            read == http_parse_headers(hs)
<1>1. hs \in Seq(HeaderType) /\ DOMAIN hs = 1 .. Len(hs)
  BY HeadTyped
<1>2. HeadSoFar(hs, Len(hs))
  BY <1>1, HeadersRead
<1>3. /\ http_parse_head(s).ok <=> read.ok /\ http_parse_request_line(s.line)
      /\ http_parse_head(s).content_length = read.content_length
      /\ http_parse_head(s).content_type = read.content_type
  BY HeadTyped
<1>4. /\ read.ok <=>
           /\ \A h \in DOMAIN hs : GoodHeader(hs[h])
           /\ \A g, h \in DOMAIN hs : hs[g].name = hs[h].name /\ hs[h].name \in ReadOnce => g = h
      /\ read.ok =>
           /\ \A x : x \in read.saw <=> x \in ReadOnce /\ \E h \in DOMAIN hs : hs[h].name = x
           /\ \A h \in DOMAIN hs : hs[h].name = "Content-Length" =>
                read.content_length = Decimal(hs[h].digits)
           /\ \A h \in DOMAIN hs : hs[h].name = "Content-Type" => read.content_type = hs[h].text
           /\ "Content-Length" \notin read.saw => read.content_length = 0
  BY <1>1, <1>2 DEF HeadSoFar, http_parse_headers
<1>. HIDE DEF read
<1>5. \A name, h : h \in Named(s, name) <=> h \in DOMAIN hs /\ hs[h].name = name
  BY DEF Named
<1>6. GoodHead(s) <=>
        /\ http_parse_request_line(s.line)
        /\ \A h \in DOMAIN hs : GoodHeader(hs[h])
        /\ \A g, h \in DOMAIN hs : hs[g].name = hs[h].name /\ hs[h].name \in ReadOnce => g = h
  <2>1. (\A name \in RefusedNames : Named(s, name) = {}) <=>
          \A h \in DOMAIN hs : hs[h].name \notin RefusedNames
    BY <1>5
  <2>2. (\A name \in ReadOnce : \A g, h \in Named(s, name) : g = h) <=>
          \A g, h \in DOMAIN hs : hs[g].name = hs[h].name /\ hs[h].name \in ReadOnce => g = h
    <3>1. ASSUME \A name \in ReadOnce : \A g, h \in Named(s, name) : g = h,
                 NEW g \in DOMAIN hs, NEW h \in DOMAIN hs,
                 hs[g].name = hs[h].name, hs[h].name \in ReadOnce
          PROVE  g = h
      <4>1. g \in Named(s, hs[h].name) /\ h \in Named(s, hs[h].name)
        BY <1>5, <3>1
      <4>. QED
        BY <3>1, <4>1
    <3>2. ASSUME \A g, h \in DOMAIN hs : hs[g].name = hs[h].name /\ hs[h].name \in ReadOnce => g = h,
                 NEW name \in ReadOnce, NEW g \in Named(s, name), NEW h \in Named(s, name)
          PROVE  g = h
      BY <1>5, <3>2
    <3>. QED
      BY <3>1, <3>2
  <2>3. /\ (\A h \in Named(s, "Content-Length") : GoodLength(hs[h].digits)) <=>
             \A h \in DOMAIN hs : hs[h].name = "Content-Length" => GoodLength(hs[h].digits)
        /\ (\A h \in Named(s, "Content-Type") : hs[h].text # "long") <=>
             \A h \in DOMAIN hs : hs[h].name = "Content-Type" => hs[h].text # "long"
        /\ (\A h \in Named(s, "X-Debug-Sleep-Ms") : hs[h].digits # <<>> /\ hs[h].text # "long") <=>
             \A h \in DOMAIN hs : hs[h].name = "X-Debug-Sleep-Ms" =>
               hs[h].digits # <<>> /\ hs[h].text # "long"
    BY <1>5
  <2>4. (\A h \in DOMAIN hs : GoodHeader(hs[h])) <=>
          /\ \A h \in DOMAIN hs : hs[h].name \notin RefusedNames
          /\ \A h \in DOMAIN hs : hs[h].name = "Content-Length" => GoodLength(hs[h].digits)
          /\ \A h \in DOMAIN hs : hs[h].name = "Content-Type" => hs[h].text # "long"
          /\ \A h \in DOMAIN hs : hs[h].name = "X-Debug-Sleep-Ms" =>
               hs[h].digits # <<>> /\ hs[h].text # "long"
    BY DEF GoodHeader
  <2>5. GoodHead(s) <=>
          /\ http_parse_request_line(s.line)
          /\ \A name \in RefusedNames : Named(s, name) = {}
          /\ \A name \in ReadOnce : \A g, h \in Named(s, name) : g = h
          /\ \A h \in Named(s, "Content-Length") : GoodLength(hs[h].digits)
          /\ \A h \in Named(s, "Content-Type") : hs[h].text # "long"
          /\ \A h \in Named(s, "X-Debug-Sleep-Ms") : hs[h].digits # <<>> /\ hs[h].text # "long"
    BY DEF GoodHead, RefusedNames, ReadOnce
  <2>. QED
    BY <2>1, <2>2, <2>3, <2>4, <2>5
<1>7. ASSUME read.ok PROVE read.content_length = DeclaredLength(s)
  <2>1. CASE Named(s, "Content-Length") = {}
    <3>1. "Content-Length" \notin read.saw
      BY <1>4, <1>5, <1>7, <2>1
    <3>. QED
      BY <1>4, <1>7, <2>1, <3>1 DEF DeclaredLength
  <2>2. CASE Named(s, "Content-Length") # {}
    <3>. DEFINE h == CHOOSE h \in Named(s, "Content-Length") : TRUE
    <3>1. h \in Named(s, "Content-Length")
      BY <2>2
    <3>2. DeclaredLength(s) = Decimal(hs[h].digits)
      BY <2>2 DEF DeclaredLength
    <3>. HIDE DEF h
    <3>. QED
      BY <1>4, <1>5, <1>7, <3>1, <3>2
  <2>. QED
    BY <2>1, <2>2
<1>8. ASSUME read.ok
      PROVE  \A h \in Named(s, "Content-Type") : read.content_type = hs[h].text
  BY <1>4, <1>5, <1>8
<1>. QED
  BY <1>3, <1>4, <1>6, <1>7, <1>8
-----------------------------------------------------------------------------
(* Its steps are those of the loop and of the reading.                     *)

\* A step of a handler is a round of its receive loop or none of it.
LEMMA HandlerReceives == [QueryNext]_vars => [Receive]_receiveVars
<1>. SUFFICES ASSUME [QueryNext]_vars PROVE [Receive]_receiveVars
  OBVIOUS
<1>1. CASE ReceiveMore
  BY <1>1 DEF ReceiveMore, Receive
<1>2. CASE ReceiveFails
  BY <1>2 DEF ReceiveFails, Receive
<1>3. CASE ReadText \/ TextOutOfMemory
  BY <1>3 DEF ReadText, TextOutOfMemory
<1>4. CASE Handle
  BY <1>4 DEF Handle, ReceiveRefused, ReceiveSilent, http_parse_request, BodyNotCopied,
     http_route_request, CaptureUnavailable, CallEngine, TextRead, StatementDone,
     StatementRefused, StatementFails, RegistrationFails, ExecutionEnds, ResultLost,
     ResultCaptured, http_send_all, SendFails, http_close_client
<1>5. CASE Returned \/ UNCHANGED vars
  BY <1>5 DEF Returned, vars
<1>. QED
  BY <1>1, <1>2, <1>3, <1>4, <1>5 DEF QueryNext

\* A step of a handler reads the text on, ends it, or leaves it alone.
LEMMA HandlerReads == [QueryNext]_vars => [Next]_sqlVars
<1>. SUFFICES ASSUME [QueryNext]_vars PROVE [Next]_sqlVars
  OBVIOUS
<1>1. CASE ReceiveMore \/ ReceiveFails
  BY <1>1 DEF ReceiveMore, ReceiveFails
<1>2. CASE ReadText
  BY <1>2 DEF ReadText, Next
<1>3. CASE TextOutOfMemory
  BY <1>3 DEF TextOutOfMemory, Next
<1>4. CASE TextRead
  BY <1>4 DEF TextRead, Next
<1>5. CASE Handle /\ ~TextRead
  BY <1>5 DEF Handle, ReceiveRefused, ReceiveSilent, http_parse_request, BodyNotCopied,
     http_route_request, CaptureUnavailable, CallEngine, StatementDone,
     StatementRefused, StatementFails, RegistrationFails, ExecutionEnds, ResultLost,
     ResultCaptured, http_send_all, SendFails, http_close_client
<1>6. CASE Returned \/ UNCHANGED vars
  BY <1>6 DEF Returned, vars
<1>. QED
  BY <1>1, <1>2, <1>3, <1>4, <1>5, <1>6 DEF QueryNext
-----------------------------------------------------------------------------
(* What a handler knows at each stage.                                     *)

\* What goes to the engine was posted to /query, as SQL.
Asked ==
  /\ stream.body = "text"
  /\ stream.line.method = "POST" /\ stream.line.path = "/query"
  /\ \A h \in Named(stream, "Content-Type") : http_content_type_is_sql(stream.headers[h].text)

Executing == {"executing", "reading", "running", "capturing"}

\* A complete request has come to its end.
AllReceived == receive = "complete" => RequestLength(stream) <= buffer_length

\* The request is that of the head, and what is executed was asked for.
Parsed ==
  /\ stage \in {"receiving", "routing", "answering", "closing", "closed"} \cup Executing
  /\ stage \in {"routing"} \cup Executing => receive = "complete" /\ request = http_parse_head(stream)
  /\ stage \in Executing => Asked

\* The engine runs at most once, and then on what was asked.
Executed ==
  /\ stage \in {"receiving", "routing", "executing", "reading", "running"} => engine = Idle
  /\ engine = Idle \/ (receive = "complete" /\ Asked /\ engine.ran = result)

\* Nothing is answered before its time, nor anything but the truth.
Answered ==
  /\ stage \in {"receiving", "routing"} \cup Executing => answer = NoAnswer /\ sent = NoAnswer
  /\ sent \in {NoAnswer, answer}
  /\ answer.status = 200 => \/ stream.line.path = "/health" /\ engine = Idle
                            \/ stream.line.path = "/query" /\ engine.ok
  /\ engine.ok => answer.status \notin 400 .. 499
  /\ engine # Idle /\ answer # NoAnswer =>
       answer.status = 200 \/ answer.code \in {"query_failed", "query_execution_failed"}

HandlerInv == ReceiveInv /\ AllReceived /\ Parsed /\ Executed /\ Answered

\* A request is complete when its last byte is there.
LEMMA ReceiveToTheEnd ==
  ASSUME ReceiveInv, AllReceived, [Receive]_receiveVars
  PROVE  AllReceived' /\ stream' = stream
<1>1. CASE RecvSome
  <2>1. PICK n \in 1 .. (stream.sent - buffer_length) : Recv(n)
    BY <1>1 DEF RecvSome
  <2>2. stream' = stream /\ receive' = http_request_probe(stream, buffer_length')
    BY <2>1 DEF Recv
  <2>3. buffer_length' \in Nat /\ RequestLength(stream) \in Nat
    <3>1. ReceiveTypeOK /\ ReceiveTypeOK'
      BY ReceiveKeeps DEF ReceiveInv
    <3>. QED
      BY <3>1, StreamNumbers DEF ReceiveTypeOK
  <2>4. receive' = "complete" => RequestLength(stream) <= buffer_length'
    BY <2>2, <2>3 DEF http_request_probe
  <2>. QED
    BY <2>2, <2>4 DEF AllReceived, RequestLength
<1>2. CASE GrowRefused \/ GrowFails
  BY <1>2 DEF GrowRefused, GrowFails, AllReceived
<1>3. CASE RecvEnd
  BY <1>3 DEF RecvEnd, AllReceived
<1>4. CASE RecvInterrupted \/ RecvFails
  BY <1>4 DEF RecvInterrupted, RecvFails, http_grow_buffer, AllReceived
<1>5. CASE UNCHANGED receiveVars
  BY <1>5 DEF receiveVars, AllReceived, RequestLength
<1>. QED
  BY <1>1, <1>2, <1>3, <1>4, <1>5 DEF Receive, ReceiveOn, ReceiveFault

\* A complete request has a good head.
LEMMA CompleteIsGood ==
  ASSUME ReceiveInv, receive = "complete"
  PROVE  /\ stream \in Streams /\ GoodHead(stream)
         /\ http_parse_head(stream).content_length = DeclaredLength(stream)
         /\ \A h \in Named(stream, "Content-Type") :
              http_parse_head(stream).content_type = stream.headers[h].text
<1>1. stream \in Streams
  BY DEF ReceiveInv, ReceiveTypeOK
<1>2. WholeReading(stream) = "complete"
  BY DEF ReceiveInv, SegmentationBlind, Ends, Faults
<1>3. http_parse_head(stream).ok
  BY <1>2 DEF WholeReading
<1>. QED
  BY <1>1, <1>3, HeadRead

\* An answer has the status it was given, and none is 0.
LEMMA AnswersDiffer ==
  /\ NoAnswer.status = 0
  /\ \A status, code : Status(status, code).status = status
BY DEF NoAnswer, Status

\* Who has said nothing has said nothing wrong.
LEMMA SaysNothing ==
  /\ answer = NoAnswer /\ sent = NoAnswer => Answered
  /\ answer' = NoAnswer /\ sent' = NoAnswer => Answered'
<1>1. NoAnswer.status # 200 /\ NoAnswer.status \notin 400 .. 499
  BY AnswersDiffer
<1>. QED
  BY <1>1 DEF Answered

\* What is routed to the engine was asked for.
LEMMA RoutedIsAsked ==
  ASSUME ReceiveInv, receive = "complete", request = http_parse_head(stream), Route = NoAnswer
  PROVE  Asked
<1>1. stream.line.path = "/query" /\ RouteQuery = NoAnswer
  <2>1. Route.status = 0
    BY AnswersDiffer
  <2>2. RouteHealth.status # 0
    BY DEF RouteHealth, Status
  <2>3. Status(404, "path_not_found").status # 0
    BY AnswersDiffer
  <2>. QED
    BY <2>1, <2>2, <2>3 DEF Route
<1>2. /\ stream.line.method = "POST" /\ http_content_type_is_sql(request.content_type)
      /\ stream.body # "blank"
  <2>1. RouteQuery.status = 0
    BY <1>1, AnswersDiffer
  <2>. QED
    BY <2>1, AnswersDiffer DEF RouteQuery
<1>3. stream.body = "text"
  BY <1>2, CompleteIsGood, HttpQueryAssumption
<1>4. \A h \in Named(stream, "Content-Type") : http_content_type_is_sql(stream.headers[h].text)
  BY <1>2, CompleteIsGood
<1>. QED
  BY <1>1, <1>2, <1>3, <1>4 DEF Asked

\* A success that is answered without the engine is one of /health.
LEMMA RoutedSuccess ==
  ASSUME Route.status = 200
  PROVE  stream.line.path = "/health"
BY DEF Route, RouteQuery, Status, NoAnswer

\* The handler starts with nothing read, executed or answered.
LEMMA HandlerStarts == QueryInit => HandlerInv
<1>. SUFFICES ASSUME QueryInit PROVE HandlerInv
  OBVIOUS
<1>1. ReceiveInv
  BY ReceiveStarts DEF QueryInit
<1>2. AllReceived
  BY DEF QueryInit, ReceiveInit, AllReceived
<1>3. Parsed /\ Executed
  BY DEF QueryInit, Parsed, Executed, Executing
<1>4. Answered
  BY SaysNothing DEF QueryInit
<1>. QED
  BY <1>1, <1>2, <1>3, <1>4 DEF HandlerInv

\* A decision without the engine, before it has run.
LEMMA AnswerEarly ==
  ASSUME NEW status \in Nat, NEW code, HandlerInv,
         stage \in {"receiving", "routing", "executing"},
         status = 200 => stream.line.path = "/health",
         Answer(status, code), UNCHANGED <<receiveVars, sqlVars, engine, sent>>
  PROVE  Parsed' /\ Executed' /\ Answered'
<1>1. engine = Idle /\ sent = NoAnswer
  BY DEF HandlerInv, Executed, Answered, Executing
<1>2. /\ answer' = [status |-> status, code |-> code] /\ stage' = "answering"
      /\ stream' = stream /\ engine' = Idle /\ sent' = NoAnswer
  BY <1>1 DEF Answer, Status, receiveVars
<1>3. Parsed' /\ Executed'
  BY <1>2 DEF Parsed, Executed, Executing
<1>4. answer'.status = status /\ ~engine'.ok
  BY <1>2 DEF Idle
<1>5. Answered'
  BY <1>2, <1>4 DEF Answered, Executing
<1>. QED
  BY <1>3, <1>5

\* What the engine did is answered as it was.
LEMMA AnswerLate ==
  ASSUME HandlerInv, stage = "capturing", UNCHANGED <<receiveVars, sqlVars, engine, sent>>,
         \/ Answer(500, "query_execution_failed")
         \/ Answer(QueryAnswer.status, QueryAnswer.code)
  PROVE  Parsed' /\ Executed' /\ Answered'
<1>1. sent = NoAnswer /\ Asked /\ stream.line.path = "/query"
  BY DEF HandlerInv, Parsed, Answered, Executing, Asked
<1>2. /\ stage' = "answering" /\ stream' = stream /\ receive' = receive
      /\ result' = result /\ engine' = engine /\ sent' = NoAnswer
  BY <1>1 DEF Answer, receiveVars, sqlVars
<1>3. Asked' <=> Asked
  BY <1>2 DEF Asked, Named
<1>4. Parsed' /\ Executed'
  BY <1>2, <1>3 DEF HandlerInv, Parsed, Executed, Executing
<1>5. \/ answer' = Status(500, "query_execution_failed")
      \/ answer' = Status(200, "") /\ engine.ok
      \/ answer' = Status(400, "query_failed") /\ ~engine.ok
  BY DEF Answer, QueryAnswer, Status
<1>6. /\ answer'.status = 200 => engine.ok
      /\ engine.ok => answer'.status \notin 400 .. 499
      /\ answer'.status = 200 \/ answer'.code \in {"query_failed", "query_execution_failed"}
  <2>1. CASE answer' = Status(500, "query_execution_failed")
    BY <2>1 DEF Status
  <2>2. CASE answer' = Status(400, "query_failed") /\ ~engine.ok
    BY <2>2 DEF Status
  <2>3. CASE answer' = Status(200, "") /\ engine.ok
    <3>. DEFINE a == answer'
    <3>0. a = Status(200, "")
      BY <2>3, Zenon
    <3>. HIDE DEF a
    <3>1. a.status = 200
      BY <3>0 DEF Status
    <3>2. a.status \notin 400 .. 499
      BY <3>1
    <3>. QED
      BY <2>3, <3>1, <3>2, Zenon DEF a
  <2>. QED
    BY <1>5, <2>1, <2>2, <2>3
<1>7. Answered'
  BY <1>1, <1>2, <1>5, <1>6 DEF Answered, Executing
<1>. QED
  BY <1>4, <1>7

\* The engine's outcome, whichever it is.
LEMMA EngineEnds ==
  ASSUME HandlerInv, stage = "running", engine'.ran = result, stage' = "capturing",
         UNCHANGED <<receiveVars, sqlVars, request, answer, sent>>
  PROVE  Parsed' /\ Executed' /\ Answered'
<1>1. receive = "complete" /\ request = http_parse_head(stream) /\ Asked
  BY DEF HandlerInv, Parsed, Executing
<1>2. answer = NoAnswer /\ sent = NoAnswer
  BY DEF HandlerInv, Answered, Executing
<1>3. /\ stream' = stream /\ receive' = receive /\ result' = result /\ request' = request
      /\ answer' = NoAnswer /\ sent' = NoAnswer
  BY <1>2 DEF receiveVars, sqlVars
<1>4. Asked'
  BY <1>1, <1>3 DEF Asked, Named
<1>5. Parsed' /\ Executed'
  BY <1>1, <1>3, <1>4 DEF Parsed, Executed, Executing
<1>6. Answered'
  BY <1>3, SaysNothing
<1>. QED
  BY <1>5, <1>6

\* A step that goes on to another stage and says nothing.
LEMMA OtherStage ==
  ASSUME HandlerInv, UNCHANGED <<answer, sent>>,
         stage \in {"receiving", "routing"} \cup Executing
  PROVE  Answered'
<1>1. answer' = NoAnswer /\ sent' = NoAnswer
  BY DEF HandlerInv, Answered
<1>. QED
  BY <1>1, SaysNothing

\* Every step of a handler.
LEMMA HandlerKeeps == HandlerInv /\ [QueryNext]_vars => HandlerInv'
<1>. SUFFICES ASSUME HandlerInv, [QueryNext]_vars PROVE HandlerInv'
  OBVIOUS
<1>1. ReceiveInv' /\ AllReceived' /\ stream' = stream
  BY HandlerReceives, ReceiveKeeps, ReceiveToTheEnd DEF HandlerInv
<1>2. Asked' <=> Asked
  BY <1>1 DEF Asked, Named
<1>. SUFFICES Parsed' /\ Executed' /\ Answered'
  BY <1>1 DEF HandlerInv
<1>3. CASE ReceiveMore \/ ReceiveFails
  <2>1. stage = "receiving" /\ UNCHANGED <<stage, request, engine, answer, sent>>
    BY <1>3 DEF ReceiveMore, ReceiveFails, handlerVars
  <2>2. Parsed' /\ Executed'
    BY <2>1 DEF HandlerInv, Parsed, Executed, Executing
  <2>. QED
    BY <2>1, <2>2, OtherStage
<1>4. CASE ReceiveRefused
  <2>1. RefusalStatus(receive) \in {400, 413, 500}
    BY DEF RefusalStatus
  <2>2. RefusalStatus(receive) \in Nat /\ RefusalStatus(receive) # 200
    BY <2>1
  <2>. QED
    BY <1>4, <2>2, AnswerEarly DEF ReceiveRefused
<1>5. CASE BodyNotCopied \/ CaptureUnavailable
  <2>1. 400 \in Nat /\ 500 \in Nat /\ 400 # 200 /\ 500 # 200
    OBVIOUS
  <2>. QED
    BY <1>5, <2>1, AnswerEarly DEF BodyNotCopied, CaptureUnavailable
<1>6. CASE ReceiveSilent
  <2>1. /\ stage = "receiving" /\ stage' = "closing" /\ engine = Idle
        /\ UNCHANGED <<request, engine, answer, sent>>
    BY <1>6 DEF ReceiveSilent, HandlerInv, Executed
  <2>2. Parsed' /\ Executed'
    BY <2>1 DEF Parsed, Executed, Executing
  <2>. QED
    BY <2>1, <2>2, OtherStage
<1>7. CASE http_parse_request
  <2>1. /\ stage = "receiving" /\ receive = "complete" /\ receive' = receive /\ engine' = Idle
        /\ request' = http_parse_head(stream) /\ stage' = "routing"
        /\ answer' = NoAnswer /\ sent' = NoAnswer
    BY <1>7 DEF http_parse_request, receiveVars, HandlerInv, Executed, Answered
  <2>2. Parsed' /\ Executed'
    BY <1>1, <2>1 DEF Parsed, Executed, Executing
  <2>3. Answered'
    BY <2>1, SaysNothing
  <2>. QED
    BY <2>2, <2>3
<1>8. CASE http_route_request
  <2>1. /\ stage = "routing" /\ receive = "complete" /\ request = http_parse_head(stream)
        /\ engine = Idle /\ UNCHANGED <<receiveVars, sqlVars, request, engine, sent>>
    BY <1>8 DEF http_route_request, HandlerInv, Parsed, Executed
  <2>2. CASE Route = NoAnswer
    <3>1. stage' = "executing" /\ answer' = answer /\ receive' = receive
      BY <1>8, <2>1, <2>2 DEF http_route_request, receiveVars
    <3>2. Asked
      BY <2>1, <2>2, RoutedIsAsked DEF HandlerInv
    <3>3. Parsed' /\ Executed'
      BY <1>1, <1>2, <2>1, <3>1, <3>2 DEF Parsed, Executed, Executing
    <3>. QED
      BY <2>1, <3>1, <3>3, OtherStage
  <2>3. CASE Route # NoAnswer
    <3>1. Answer(Route.status, Route.code)
      BY <1>8, <2>3 DEF http_route_request
    <3>2. Route.status \in Nat
      BY DEF Route, RouteHealth, RouteQuery, Status, NoAnswer
    <3>. QED
      BY <2>1, <3>1, <3>2, AnswerEarly, RoutedSuccess
  <2>. QED
    BY <2>2, <2>3
<1>9. CASE CallEngine
  <2>1. /\ stage = "executing" /\ stage' = "reading" /\ receive' = receive
        /\ UNCHANGED <<request, engine, answer, sent>>
    BY <1>9 DEF CallEngine, receiveVars
  <2>2. Parsed' /\ Executed'
    BY <1>1, <1>2, <2>1 DEF HandlerInv, Parsed, Executed, Executing
  <2>. QED
    BY <2>1, <2>2, OtherStage DEF Executing
<1>10. CASE ReadText \/ TextOutOfMemory
  <2>1. /\ stage = "reading" /\ stage' = stage /\ receive' = receive
        /\ UNCHANGED <<request, engine, answer, sent>>
    BY <1>10 DEF ReadText, TextOutOfMemory, handlerVars, receiveVars
  <2>2. Parsed' /\ Executed'
    BY <1>1, <1>2, <2>1 DEF HandlerInv, Parsed, Executed, Executing
  <2>. QED
    BY <2>1, <2>2, OtherStage DEF Executing
<1>11. CASE TextRead
  <2>1. /\ stage = "reading" /\ stage' \in {"running", "capturing"} /\ receive' = receive
        /\ UNCHANGED <<request, engine, answer, sent>>
    BY <1>11 DEF TextRead, receiveVars
  <2>2. Parsed' /\ Executed'
    BY <1>1, <1>2, <2>1 DEF HandlerInv, Parsed, Executed, Executing
  <2>. QED
    BY <2>1, <2>2, OtherStage DEF Executing
<1>12. CASE StatementDone \/ StatementRefused \/ StatementFails \/ RegistrationFails
  <2>1. /\ stage = "running" /\ engine'.ran = result /\ stage' = "capturing"
        /\ UNCHANGED <<receiveVars, sqlVars, request, answer, sent>>
    BY <1>12
       DEF StatementDone, StatementRefused, StatementFails, RegistrationFails, ExecutionEnds
  <2>. QED
    BY <2>1, EngineEnds
<1>13. CASE ResultLost \/ ResultCaptured
  BY <1>13, AnswerLate DEF ResultLost, ResultCaptured
<1>14. CASE http_send_all \/ SendFails \/ http_close_client \/ Returned \/ UNCHANGED vars
  <2>1. /\ UNCHANGED <<receive, request, engine, answer, result>>
        /\ stage' \in {"closing", "closed"} \/ (stage' = stage /\ sent' = sent)
        /\ sent' \in {sent, answer}
    BY <1>14 DEF http_send_all, SendFails, http_close_client, Returned, vars, receiveVars,
       sqlVars, handlerVars
  <2>2. Parsed' /\ Executed'
    BY <1>1, <1>2, <2>1 DEF HandlerInv, Parsed, Executed, Executing
  <2>3. stage' \in {"receiving", "routing"} \cup Executing => answer' = NoAnswer /\ sent' = NoAnswer
    BY <2>1 DEF HandlerInv, Answered, Executing
  <2>4. sent' \in {NoAnswer, answer'}
    BY <2>1 DEF HandlerInv, Answered
  <2>5. Answered'
    BY <1>1, <2>1, <2>3, <2>4 DEF HandlerInv, Answered
  <2>. QED
    BY <2>2, <2>5
<1>. QED
  BY <1>3, <1>4, <1>5, <1>6, <1>7, <1>8, <1>9, <1>10, <1>11, <1>12, <1>13, <1>14
  DEF QueryNext, Handle

\* Whatever the head, its header lines and their digits, and however the bytes
\* come: http_parse_headers turns away exactly the heads that deserve it, and
\* what goes on to routing has the declared length, all of it received.
THEOREM HeadsReadRight == QuerySpec => []RequestRead
<1>1. HandlerInv => RequestRead
  <2>. SUFFICES ASSUME HandlerInv PROVE RequestRead
    OBVIOUS
  <2>1. stream \in Streams
    BY DEF HandlerInv, ReceiveInv, ReceiveTypeOK
  <2>2. /\ http_parse_head(stream).ok <=> GoodHead(stream)
        /\ http_parse_head(stream).ok =>
             http_parse_head(stream).content_length = DeclaredLength(stream)
    BY <2>1, HeadRead
  <2>3. ASSUME receive = "invalid_request", GoodHead(stream)
        PROVE  stream.head + DeclaredLength(stream) > SizeMax
    <3>1. WholeReading(stream) = "invalid_request"
      BY <2>3 DEF HandlerInv, ReceiveInv, SegmentationBlind, Ends, Faults
    <3>2. RequestLength(stream) > SizeMax
      BY <2>2, <2>3, <3>1 DEF WholeReading
    <3>. QED
      BY <2>2, <2>3, <3>2 DEF RequestLength
  <2>4. ASSUME receive = "complete"
        PROVE  GoodHead(stream) /\ stream.head + DeclaredLength(stream) <= buffer_length
    BY <2>4, CompleteIsGood DEF HandlerInv, AllReceived, RequestLength
  <2>5. ASSUME stage \notin {"receiving", "answering", "closing", "closed"}
        PROVE  request.content_length = DeclaredLength(stream)
    <3>1. receive = "complete" /\ request = http_parse_head(stream)
      BY <2>5 DEF HandlerInv, Parsed
    <3>. QED
      BY <3>1, CompleteIsGood DEF HandlerInv
  <2>. QED
    BY <2>3, <2>4, <2>5 DEF RequestRead
<1>. QED
  BY <1>1, HandlerStarts, HandlerKeeps, PTL DEF QuerySpec

\* What a client may conclude from the answer of http_server_handle_client, for
\* every stream and every text: a success was a success, what succeeded is
\* not refused, a refusal but query_failed means nothing was executed, and only
\* what was posted as SQL is executed.
THEOREM AnswersHonest == QuerySpec => []AnswerHonest
<1>1. HandlerInv => AnswerHonest
  <2>. SUFFICES ASSUME HandlerInv PROVE AnswerHonest
    OBVIOUS
  <2>1. engine = Idle => engine.ran = "nothing" /\ ~engine.ok /\ ~engine.kept
    BY DEF Idle
  <2>2. ASSUME sent.status = 200
        PROVE  \/ stream.line.path = "/health" /\ engine = Idle
               \/ stream.line.path = "/query" /\ engine.ok /\ engine.ran = result
    <3>1. sent # NoAnswer
      BY <2>2, AnswersDiffer
    <3>2. sent = answer
      BY <3>1 DEF HandlerInv, Answered
    <3>. QED
      BY <2>1, <2>2, <3>2 DEF HandlerInv, Answered, Executed
  <2>3. /\ engine.ok => sent.status \notin 400 .. 499
        /\ engine # Idle /\ sent # NoAnswer =>
             sent.status = 200 \/ sent.code \in {"query_failed", "query_execution_failed"}
    <3>1. CASE sent = NoAnswer
      BY <3>1, AnswersDiffer
    <3>2. CASE sent = answer
      BY <3>2 DEF HandlerInv, Answered
    <3>. QED
      BY <3>1, <3>2 DEF HandlerInv, Answered
  <2>4. ASSUME engine.ran # "nothing"
        PROVE  /\ receive = "complete" /\ stream.body = "text"
               /\ stream.line.method = "POST" /\ stream.line.path = "/query"
               /\ \A h \in Named(stream, "Content-Type") :
                    http_content_type_is_sql(stream.headers[h].text)
    BY <2>1, <2>4 DEF HandlerInv, Executed, Asked
  <2>. QED
    BY <2>2, <2>3, <2>4 DEF AnswerHonest
<1>. QED
  BY <1>1, HandlerStarts, HandlerKeeps, PTL DEF QuerySpec
-----------------------------------------------------------------------------
(* The theorems of the loop and of the reading, for a handler.             *)

\* Within http_server_handle_client too the pieces in which a request comes do
\* not show and the buffer fits: routing and the engine leave the receive loop's
\* state as the loop left it.
THEOREM HandlerReceivesWhole == QuerySpec => [](SegmentationBlind /\ BufferFits)
<1>1. QueryInit => ReceiveInit
  BY DEF QueryInit
<1>2. QuerySpec => ReceiveSpec
  BY <1>1, HandlerReceives, PTL DEF QuerySpec, ReceiveSpec
<1>. QED
  BY <1>2, PiecesDoNotShow, BufferAlwaysFits, PTL

\* A handler executes no statement but a whole text, under the lock that
\* concurrency_lock_mode_from_sql chose for it.
THEOREM HandlerRunsWholeTexts == QuerySpec => [](LockFitsStatement /\ WholeTextIsStatement)
<1>1. QueryInit => Init
  BY DEF QueryInit
<1>2. QuerySpec => Spec
  BY <1>1, HandlerReads, PTL DEF QuerySpec, Spec
<1>. QED
  BY <1>2, LockAlwaysFits, OnlyWholeStatements, PTL
=============================================================================

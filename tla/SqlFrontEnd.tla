----------------------------- MODULE SqlFrontEnd -----------------------------
(***************************************************************************)
(* What one SQL text goes through: concurrency_lock_mode_from_sql (lock_   *)
(* manager.c) chooses the lock from its first word, then week8_engine.c    *)
(* runs lex_sql (sql/lexer.c) and parse_statement (sql/parser.c) on it     *)
(* under that lock.  The three readers never talk to each other; they only *)
(* read the same text.  Each goes over it from left to right with at most  *)
(* one character of lookahead, so here they go over it side by side, one   *)
(* piece at a time, and texts of every length are covered.  A reader that  *)
(* looks ahead has a state in which the next piece decides.                *)
(*                                                                         *)
(* A piece is a mark (one character) or a word: a longest run of letters,  *)
(* digits, underscores and bytes above 0x7f.                               *)
(***************************************************************************)
EXTENDS Naturals

CONSTANTS Words,     \* words that occur in texts
          Upper,     \* Upper[w]: w in capitals
          Letters,   \* Letters[w]: the letters w begins with, in capitals
          Numbers    \* words that begin with a digit

Space   == {"space", "newline"}
Symbols == {"*", "=", ",", "(", ")", ";"}
Marks   == Space \cup Symbols \cup {"'", "-", "/", "other"}
Pieces  == Words \cup Marks

ASSUME SqlFrontEndAssumption ==
  /\ Words \cap Marks = {}
  /\ \A w \in Words :
       Upper[w] \in {"INSERT", "SELECT"} => w \notin Numbers /\ Letters[w] = Upper[w]

VARIABLES
  scan,         \* concurrency_lock_mode_from_sql: what it has found
  lex,          \* lex_sql: what it is in the middle of
  parser,       \* ParserState: the place in the grammar, statement.type
  semicolons,   \* how many the lexer has passed on, counted up to 2
  result        \* of the whole text

sqlVars == <<scan, lex, parser, semicolons, result>>

Init ==
  /\ scan = "noise"
  /\ lex = "between"
  /\ parser = [at |-> "start", type |-> "none"]
  /\ semicolons = 0
  /\ result = "reading"
-----------------------------------------------------------------------------
(* The lock: skip_leading_sql_noise, then the first word.                  *)

\* A scan that does not go round again after a line end; a mutant's body.
FirstPiece_OneLine(p) ==
  CASE p = "space" -> "noise"
    [] p = "-"     -> "dash"
    [] p = "/"     -> "slash"
    [] p \in Words -> IF Letters[p] = "SELECT" THEN "read" ELSE "write"
    [] OTHER       -> "write"

FirstPiece(p) ==
  CASE p \in Space -> "noise"
    [] p = "-"     -> "dash"
    [] p = "/"     -> "slash"
    [] p \in Words -> IF Letters[p] = "SELECT" THEN "read" ELSE "write"
    [] OTHER       -> "write"

\* "dash" and "slash" may begin a comment, "star" may end one.
skip_leading_sql_noise(p) ==
  CASE scan = "noise" -> FirstPiece(p)
    [] scan = "dash"  -> IF p = "-" THEN "line" ELSE "write"
    [] scan = "slash" -> IF p = "*" THEN "block" ELSE "write"
    [] scan = "line"  -> IF p = "newline" THEN "noise" ELSE "line"
    [] scan = "block" -> IF p = "*" THEN "star" ELSE "block"
    [] scan = "star"  -> IF p = "/" THEN "noise" ELSE IF p = "*" THEN "star" ELSE "block"
    [] OTHER          -> scan

\* Whatever is not a SELECT, an empty or unfinished text too, writes.
concurrency_lock_mode_from_sql == IF scan = "read" THEN "read" ELSE "write"
-----------------------------------------------------------------------------
(* The parser, one token at a time.                                        *)

Token(t, w) == [type |-> t, text |-> w]
Literal     == Token("string", "")
End         == Token("end", "")

keyword(tok, k) == tok.type = "identifier" /\ tok.text = k
identifier(tok) == tok.type = "identifier"
value(tok)      == tok.type \in {"string", "number", "identifier"}

parse_insert(at, tok) ==
  CASE at = "into"         /\ keyword(tok, "INTO")   -> "into_table"
    [] at = "into_table"   /\ identifier(tok)        -> "columns"
    [] at = "columns"      /\ tok.type = "("         -> "column"
    [] at = "column"       /\ identifier(tok)        -> "after_column"
    [] at = "after_column" /\ tok.type = ","         -> "column"
    [] at = "after_column" /\ tok.type = ")"         -> "values"
    [] at = "values"       /\ keyword(tok, "VALUES") -> "value_list"
    [] at = "value_list"   /\ tok.type = "("         -> "value"
    [] at = "value"        /\ value(tok)             -> "after_value"
    [] at = "after_value"  /\ tok.type = ","         -> "value"
    [] at = "after_value"  /\ tok.type = ")"         -> "semicolon"
    [] OTHER                                         -> "error"

\* A second condition is refused here as by the check for AND and OR.
parse_select(at, tok) ==
  CASE at = "select"       /\ tok.type = "*"         -> "from"
    [] at = "select"       /\ identifier(tok)        -> "after_field"
    [] at = "field"        /\ identifier(tok)        -> "after_field"
    [] at = "after_field"  /\ tok.type = ","         -> "field"
    [] at = "after_field"  /\ keyword(tok, "FROM")   -> "from_table"
    [] at = "from"         /\ keyword(tok, "FROM")   -> "from_table"
    [] at = "from_table"   /\ identifier(tok)        -> "after_table"
    [] at = "after_table"  /\ keyword(tok, "WHERE")  -> "condition"
    [] at = "condition"    /\ identifier(tok)        -> "equals"
    [] at = "equals"       /\ tok.type = "="         -> "compared"
    [] at = "compared"     /\ value(tok)             -> "semicolon"
    [] OTHER                                         -> "error"

\* A parser that is content with the first semicolon; a mutant's body.
StatementEnd_Lenient(at, tok) ==
  CASE at \in {"semicolon", "after_table"} /\ tok.type = ";" -> "end"
    [] at = "end"                                            -> "done"
    [] at = "done"                                           -> "done"
    [] OTHER                                                 -> "error"

StatementEnd(at, tok) ==
  CASE at \in {"semicolon", "after_table"} /\ tok.type = ";" -> "end"
    [] at = "end" /\ tok.type = "end"                        -> "done"
    [] OTHER                                                 -> "error"

AtEnd(at, tok) ==
  at \in {"semicolon", "end", "done"} \/ (at = "after_table" /\ tok.type = ";")

\* parse_statement: ps after it has looked at tok.
parse_statement(ps, tok) ==
  IF ps.at = "start"
  THEN IF keyword(tok, "INSERT") THEN [at |-> "into", type |-> "insert"]
       ELSE IF keyword(tok, "SELECT") THEN [at |-> "select", type |-> "select"]
       ELSE [ps EXCEPT !.at = "error"]
  ELSE [ps EXCEPT !.at = IF AtEnd(ps.at, tok) THEN StatementEnd(ps.at, tok)
                         ELSE IF ps.type = "insert" THEN parse_insert(ps.at, tok)
                         ELSE parse_select(ps.at, tok)]
-----------------------------------------------------------------------------
(* The lexer.                                                              *)

\* In a literal: "opened" and "escaped" have just passed a quote that does
\* not close it, "quote" has passed one that closes it unless another follows.
InLiteral(p) == lex \in {"opened", "string", "escaped"} \/ (lex = "quote" /\ p = "'")

lex_string(p) ==
  IF p # "'" THEN "string"
  ELSE IF lex = "quote" THEN "escaped" ELSE "quote"

lex_sql(p) ==
  CASE p \in Space \cup Symbols -> "between"
    [] p \in Words              -> "word"
    [] p = "'"                  -> "opened"
    [] OTHER                    -> "error"

lex_word(p) == IF p \in Numbers THEN Token("number", p) ELSE Token("identifier", Upper[p])

\* The literal that is now known to be over, then the piece itself.
Closed    == IF lex = "quote" THEN parse_statement(parser, Literal) ELSE parser
Passed(p) ==
  CASE p \in Words   -> parse_statement(Closed, lex_word(p))
    [] p \in Symbols -> parse_statement(Closed, Token(p, ""))
    [] OTHER         -> Closed

ReadInLiteral(p) ==
  /\ InLiteral(p)
  /\ lex' = lex_string(p)
  /\ UNCHANGED <<parser, semicolons>>

\* A word is as long as can be, so no word follows it at once.
ReadOutside(p) ==
  /\ lex # "error" /\ ~InLiteral(p)
  /\ lex = "word" => p \notin Words
  /\ lex' = lex_sql(p)
  /\ parser' = Passed(p)
  /\ semicolons' = IF p = ";" /\ semicolons < 2 THEN semicolons + 1 ELSE semicolons

ReadAfterError(p) == lex = "error" /\ UNCHANGED <<lex, parser, semicolons>>

Read(p) ==
  /\ result = "reading"
  /\ scan' = skip_leading_sql_noise(p)
  /\ ReadInLiteral(p) \/ ReadOutside(p) \/ ReadAfterError(p)
  /\ UNCHANGED result

\* push_token, copy_string or string_list_push without memory.
OutOfMemory ==
  /\ result = "reading"
  /\ \/ lex' = "error" /\ UNCHANGED parser
     \/ parser' = [parser EXCEPT !.at = "error"] /\ UNCHANGED lex
  /\ UNCHANGED <<scan, semicolons, result>>

\* lex_string at the end of the text looks whether the last character was a
\* quote, not whether it closed the literal.
LastPassed ==
  IF lex \in {"quote", "opened", "escaped"} THEN parse_statement(parser, Literal) ELSE parser

\* The text ends: server_core_week8_engine_run knows whether to execute it.
Finish ==
  /\ result = "reading"
  /\ IF lex \in {"error", "string"}
     THEN result' = "lex_error" /\ UNCHANGED parser
     ELSE /\ parser' = parse_statement(LastPassed, End)
          /\ result' = IF parser'.at = "done" THEN parser'.type ELSE "parse_error"
  /\ UNCHANGED <<scan, lex, semicolons>>

\* The next request brings another text.
NextText ==
  /\ result # "reading"
  /\ scan' = "noise"
  /\ lex' = "between"
  /\ parser' = [at |-> "start", type |-> "none"]
  /\ semicolons' = 0
  /\ result' = "reading"

Next == (\E p \in Pieces : Read(p)) \/ OutOfMemory \/ Finish \/ NextText

Spec == Init /\ [][Next]_sqlVars
-----------------------------------------------------------------------------
(***************************************************************************)
(* The lock is chosen by one reading of the text and the statement by      *)
(* another, with other rules for comments, for what ends a word and for    *)
(* long words.  They never disagree where it matters: what is executed as  *)
(* an INSERT has the write lock, what is executed as a SELECT shares.      *)
(***************************************************************************)
LockFitsStatement ==
  /\ result = "insert" => concurrency_lock_mode_from_sql = "write"
  /\ result = "select" => concurrency_lock_mode_from_sql = "read"

(***************************************************************************)
(* A text is executed only as one whole statement: exactly one semicolon   *)
(* was lexed, so nothing rides behind a SELECT under its lock, and no      *)
(* literal was left open, although lex_string lets some open ones through. *)
(***************************************************************************)
WholeTextIsStatement ==
  result \in {"insert", "select"} =>
    /\ semicolons = 1
    /\ lex \notin {"opened", "string", "escaped", "quote"}
=============================================================================

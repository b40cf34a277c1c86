----------------------------- MODULE MCHttpQuery -----------------------------
(***************************************************************************)
(* HttpQuery for TLC.  The sizes are scaled down so that every boundary is *)
(* crossed: a buffer of 2, 4 and 7 bytes, heads below, at and above the    *)
(* limit, lengths at and above SIZE_MAX.  The words are the keywords, one  *)
(* of them in small letters, a word that only begins like one, a name and  *)
(* a number.                                                               *)
(***************************************************************************)
EXTENDS HttpQuery

SqlWords == {"SELECT", "insert", "INTO", "VALUES", "FROM", "WHERE", "SELECT1", "name", "7"}

UpperOf == [[w \in SqlWords |-> w] EXCEPT !["insert"] = "INSERT", !["name"] = "NAME"]

LettersOf == [UpperOf EXCEPT !["SELECT1"] = "SELECT", !["7"] = ""]

Line(method, path) == [tokens |-> 3, method |-> method, path |-> path, version |-> "HTTP/1.1"]
Post == Line("POST", "/query")

Header(name, digits, text) == [name |-> name, digits |-> digits, text |-> text]
Length(digits) == Header("Content-Length", digits, "")

Stream(line, headers, head, bytes, body) ==
  [line |-> line, headers |-> headers, head |-> head, sent |-> bytes, body |-> body]

\* Sizes: every head and declared length with every number of bytes sent.
Numbers2 == {<<>>, <<0>>, <<1>>, <<4>>, <<5>>, <<0, 5>>, <<1, 9>>, <<2, 3>>, <<2, 4>>, <<1, 2, 3>>, <<1, NotDigit>>}

Sized ==
  { Stream(Line("GET", "/health"), IF d = <<>> THEN <<>> ELSE <<Length(d)>>, head, bytes, "text") :
      d \in Numbers2, head \in {0, 3, 6, 7, 8}, bytes \in 0 .. 9 }

\* Lines: what can stand in a head of 3 bytes before a body of 1.
Headers ==
  { Length(<<1>>), Length(<<0>>), Length(<<>>), Length(<<2, 4>>),
    Header("Content-Type", <<>>, ""), Header("Content-Type", <<>>, "text/plain"),
    Header("Content-Type", <<>>, "image/png"), Header("Content-Type", <<>>, "long"),
    Header("X-Debug-Sleep-Ms", <<2, 0>>, ""), Header("X-Debug-Sleep-Ms", <<2, 1>>, ""),
    Header("X-Debug-Sleep-Ms", <<NotDigit>>, ""), Header("X-Debug-Sleep-Ms", <<>>, ""),
    Header("Transfer-Encoding", <<>>, ""), Header("Accept", <<>>, ""),
    Header("no colon", <<>>, ""), Header("", <<>>, "") }

Lines ==
  { Line("GET", "/query"), Line("PUT", "/health"), Line("GET", "/other"), Line("", "/query"),
    Line("GET", "relative"), Line("GET", "long"), [Post EXCEPT !.tokens = 4],
    [Post EXCEPT !.version = "HTTP/2"] }

Lined ==
  { Stream(Post, headers, 3, 4, body) :
      headers \in UNION {[1 .. n -> Headers] : n \in 0 .. 2}, body \in {"text", "blank"} }
  \cup { Stream(line, <<Length(<<1>>)>>, 3, 4, "text") : line \in Lines }

ClientStreams == Sized \cup Lined

\* One query, well formed.
OneQuery == {Stream(Post, <<Length(<<1>>)>>, 3, 4, "text")}
=============================================================================

------------------------------ MODULE HttpQuery ------------------------------
(***************************************************************************)
(* One client on a worker: http_server_handle_client from its call to the  *)
(* close.  The request is received (HttpReceive), parsed and routed (http_ *)
(* server.c); a query goes through runtime_execute_query (db_server_       *)
(* runtime.c) and server_core_execute (engine_api.c) to the engine, which  *)
(* reads the text (SqlFrontEnd) and runs the statement, and the outcome is *)
(* mapped back to a status.  Handlers on other workers share only the      *)
(* engine, which the lock gives to one at a time (LockManager).            *)
(***************************************************************************)
EXTENDS HttpReceive, SqlFrontEnd

\* http_text_is_blank tells bodies apart.
ASSUME HttpQueryAssumption == \A s \in Streams : s.body \in {"text", "blank"}

VARIABLES
  stage,      \* where the handler is
  request,    \* http_request
  engine,     \* of this query: the statement, whether it took effect, engine_ok,
              \* and history: whose fault it is when it failed
  answer,     \* status and error code decided on
  sent        \* what the client has got: the answer, or nothing

handlerVars == <<stage, request, engine, answer, sent>>
vars == <<receiveVars, sqlVars, handlerVars>>

NoAnswer == [status |-> 0, code |-> ""]
Idle     == [ran |-> "nothing", kept |-> FALSE, ok |-> FALSE, fault |-> "nobody"]

Status(status, code) == [status |-> status, code |-> code]

QueryInit ==
  /\ ReceiveInit /\ Init
  /\ stage = "receiving"
  /\ request = NoHeaders
  /\ engine = Idle
  /\ answer = NoAnswer
  /\ sent = NoAnswer

Answer(status, code) == answer' = Status(status, code) /\ stage' = "answering"
-----------------------------------------------------------------------------
(* Receiving and parsing.                                                  *)

ReceiveMore ==
  /\ stage = "receiving"
  /\ ReceiveOn
  /\ UNCHANGED <<sqlVars, handlerVars>>

ReceiveFails ==
  /\ stage = "receiving"
  /\ ReceiveFault
  /\ UNCHANGED <<sqlVars, handlerVars>>

RefusalStatus(end) ==
  CASE end = "payload_too_large" -> 413
    [] end \in Faults            -> 500
    [] OTHER                     -> 400

\* The loop ended without a request.
ReceiveRefused ==
  /\ stage = "receiving" /\ receive \in Ends \ {"complete", "silent"}
  /\ Answer(RefusalStatus(receive), receive)
  /\ UNCHANGED <<receiveVars, sqlVars, request, engine, sent>>

\* A client that closes before it says anything is a success without answer.
ReceiveSilent ==
  /\ stage = "receiving" /\ receive = "silent"
  /\ stage' = "closing"
  /\ UNCHANGED <<receiveVars, sqlVars, request, engine, answer, sent>>

http_parse_request ==
  /\ stage = "receiving" /\ receive = "complete"
  /\ request' = http_parse_head(stream)
  /\ stage' = "routing"
  /\ UNCHANGED <<receiveVars, sqlVars, engine, answer, sent>>

\* No memory for the copy of the body.
BodyNotCopied ==
  /\ stage = "receiving" /\ receive = "complete"
  /\ Answer(400, "invalid_request")
  /\ UNCHANGED <<receiveVars, sqlVars, request, engine, sent>>
-----------------------------------------------------------------------------
(* http_route_request.                                                     *)

RouteHealth ==
  IF stream.line.method # "GET" THEN Status(405, "method_not_allowed")
  ELSE IF request.content_length # 0 THEN Status(400, "invalid_body")
  ELSE Status(200, "")

\* The answer to /query without asking the engine, or none.
RouteQuery ==
  IF stream.line.method # "POST" THEN Status(405, "method_not_allowed")
  ELSE IF ~http_content_type_is_sql(request.content_type) THEN Status(415, "unsupported_media_type")
  ELSE IF request.content_length = 0 \/ stream.body = "blank" THEN Status(400, "invalid_body")
  ELSE IF ~http_parse_debug_sleep_ms(request) THEN Status(400, "invalid_header")
  ELSE NoAnswer

Route ==
  CASE stream.line.path = "/health" -> RouteHealth
    [] stream.line.path = "/query"  -> RouteQuery
    [] OTHER                        -> Status(404, "path_not_found")

http_route_request ==
  /\ stage = "routing"
  /\ IF Route = NoAnswer THEN stage' = "executing" /\ UNCHANGED answer
     ELSE Answer(Route.status, Route.code)
  /\ UNCHANGED <<receiveVars, sqlVars, request, engine, sent>>
-----------------------------------------------------------------------------
(* runtime_execute_query and server_core_execute, under the lock.          *)

\* tmpfile fails before the engine is called.
CaptureUnavailable ==
  /\ stage = "executing"
  /\ Answer(500, "query_execution_failed")
  /\ UNCHANGED <<receiveVars, sqlVars, request, engine, sent>>

CallEngine ==
  /\ stage = "executing"
  /\ stage' = "reading"
  /\ UNCHANGED <<receiveVars, sqlVars, request, engine, answer, sent>>

\* http_text_is_blank has seen something that is not space.
NotBlank == lex # "between" \/ scan # "noise"

ReadText ==
  /\ stage = "reading"
  /\ \E p \in Pieces : Read(p)
  /\ UNCHANGED <<receiveVars, handlerVars>>

TextOutOfMemory ==
  /\ stage = "reading"
  /\ OutOfMemory
  /\ UNCHANGED <<receiveVars, handlerVars>>

\* The text is over; what is no statement is not executed.
TextRead ==
  /\ stage = "reading" /\ NotBlank
  /\ Finish
  /\ stage' = IF result' \in {"insert", "select"} THEN "running" ELSE "capturing"
  /\ UNCHANGED <<receiveVars, request, engine, answer, sent>>

\* execute_statement comes to an end.
ExecutionEnds(kept, ok, fault) ==
  /\ stage = "running"
  /\ engine' = [ran |-> result, kept |-> kept, ok |-> ok, fault |-> fault]
  /\ stage' = "capturing"
  /\ UNCHANGED <<receiveVars, sqlVars, request, answer, sent>>

StatementDone == ExecutionEnds(result = "insert", TRUE, "nobody")

\* An unknown table or column, a value with a newline, an id that is no number.
StatementRefused == ExecutionEnds(FALSE, FALSE, "client")

\* A schema, a file or a row that cannot be opened, read or written; no memory.
StatementFails == ExecutionEnds(FALSE, FALSE, "server")

\* execute_insert has stored the row but cannot register it in the index.
RegistrationFails == result = "insert" /\ ExecutionEnds(TRUE, FALSE, "server")

\* server_core_read_stream or server_core_set_string fails: the result is lost.
ResultLost ==
  /\ stage = "capturing"
  /\ Answer(500, "query_execution_failed")
  /\ UNCHANGED <<receiveVars, sqlVars, request, engine, sent>>

\* An adapter that reports what was executed as done; a mutant's body.
QueryAnswer_Executed == IF engine.ran # "nothing" THEN Status(200, "") ELSE Status(400, "query_failed")

QueryAnswer == IF engine.ok THEN Status(200, "") ELSE Status(400, "query_failed")

ResultCaptured ==
  /\ stage = "capturing"
  /\ Answer(QueryAnswer.status, QueryAnswer.code)
  /\ UNCHANGED <<receiveVars, sqlVars, request, engine, sent>>
-----------------------------------------------------------------------------
(* Answering and closing.                                                  *)

\* The message is built and sent whole.
http_send_all ==
  /\ stage = "answering"
  /\ sent' = answer
  /\ stage' = "closing"
  /\ UNCHANGED <<receiveVars, sqlVars, request, engine, answer>>

\* No memory to build it, or the client does not take it.
SendFails ==
  /\ stage = "answering"
  /\ stage' = "closing"
  /\ UNCHANGED <<receiveVars, sqlVars, request, engine, answer, sent>>

http_close_client ==
  /\ stage = "closing"
  /\ stage' = "closed"
  /\ UNCHANGED <<receiveVars, sqlVars, request, engine, answer, sent>>

\* The handler has returned.
Returned == stage = "closed" /\ UNCHANGED vars

\* What the handler does by itself, whichever way each step turns out.
Handle ==
  \/ ReceiveRefused \/ ReceiveSilent \/ http_parse_request \/ BodyNotCopied
  \/ http_route_request
  \/ CaptureUnavailable \/ CallEngine
  \/ TextRead
  \/ StatementDone \/ StatementRefused \/ StatementFails \/ RegistrationFails
  \/ ResultLost \/ ResultCaptured
  \/ http_send_all \/ SendFails \/ http_close_client

QueryNext == ReceiveMore \/ ReceiveFails \/ ReadText \/ TextOutOfMemory \/ Handle \/ Returned

\* The client goes on sending and then closes; a text is finite; the handler's
\* thread runs, and its send returns, which without a timeout means that the
\* client reads what it is sent or hangs up.
QuerySpec ==
  /\ QueryInit /\ [][QueryNext]_vars
  /\ WF_vars(ReceiveMore) /\ WF_vars(ReadText) /\ WF_vars(Handle)
-----------------------------------------------------------------------------
(* A head as the protocol describes it, not as the code walks through it.  *)

Named(s, name) == {h \in DOMAIN s.headers : s.headers[h].name = name}

\* The numbers that the first digits, each of 0..9, stand for.
DecimalAfter(digits) ==
  LET read[n \in 0 .. Len(digits)] == IF n = 0 THEN 0 ELSE 10 * read[n - 1] + digits[n]
  IN read

Decimal(digits) == DecimalAfter(digits)[Len(digits)]

GoodLength(digits) ==
  /\ digits # <<>> /\ \A d \in DOMAIN digits : digits[d] # NotDigit
  /\ Decimal(digits) <= SizeMax

GoodHead(s) ==
  /\ http_parse_request_line(s.line)
  /\ \A name \in {"no colon", "", "Transfer-Encoding"} : Named(s, name) = {}
  /\ \A name \in {"Content-Length", "Content-Type", "X-Debug-Sleep-Ms"} :
       \A g, h \in Named(s, name) : g = h
  /\ \A h \in Named(s, "Content-Length") : GoodLength(s.headers[h].digits)
  /\ \A h \in Named(s, "Content-Type") : s.headers[h].text # "long"
  /\ \A h \in Named(s, "X-Debug-Sleep-Ms") :
       s.headers[h].digits # <<>> /\ s.headers[h].text # "long"

DeclaredLength(s) ==
  IF Named(s, "Content-Length") = {} THEN 0
  ELSE Decimal(s.headers[CHOOSE h \in Named(s, "Content-Length") : TRUE].digits)

(***************************************************************************)
(* http_parse_headers accepts exactly the heads in which nothing is        *)
(* refused and nothing it reads comes twice, wherever in the head it       *)
(* stands, and no Content-Length wraps around: what goes on to routing has *)
(* the declared length, all of it received, and what is turned away as     *)
(* invalid deserved it.                                                    *)
(***************************************************************************)
RequestRead ==
  /\ receive = "invalid_request" /\ GoodHead(stream) =>
       stream.head + DeclaredLength(stream) > SizeMax
  /\ receive = "complete" =>
       GoodHead(stream) /\ stream.head + DeclaredLength(stream) <= buffer_length
  /\ stage \notin {"receiving", "answering", "closing", "closed"} =>
       request.content_length = DeclaredLength(stream)

(***************************************************************************)
(* What a client may conclude from its answer: 200 to a query means the    *)
(* statement ran to its end; a statement that did is never refused (4xx),  *)
(* though its result may be lost; any refusal but query_failed means that  *)
(* nothing was executed; and the engine runs nothing but what was posted   *)
(* to /query, as SQL, whole.                                               *)
(***************************************************************************)
AnswerHonest ==
  /\ sent.status = 200 =>
       \/ stream.line.path = "/health" /\ engine = Idle
       \/ stream.line.path = "/query" /\ engine.ok /\ engine.ran = result
  /\ engine.ok => sent.status \notin 400 .. 499
  /\ engine # Idle /\ sent # NoAnswer =>
       sent.status = 200 \/ sent.code \in {"query_failed", "query_execution_failed"}
  /\ engine.ran # "nothing" =>
       /\ receive = "complete" /\ stream.body = "text"
       /\ stream.line.method = "POST" /\ stream.line.path = "/query"
       /\ \A h \in Named(stream, "Content-Type") : http_content_type_is_sql(stream.headers[h].text)

(***************************************************************************)
(* What the repository's error mapping says of a failure inside the engine *)
(* (TEST-EDGE-FAILURE/cases/error-mapping.md): 500, a 4xx being kept for   *)
(* the client's own input.  http_route_request does not tell them apart.   *)
(***************************************************************************)
EngineFaultIs5xx ==
  engine.fault = "server" /\ sent # NoAnswer => sent.status \in 500 .. 599

(***************************************************************************)
(* Every client that goes on sending, or hangs up, is done with and its    *)
(* descriptor closed, whatever fails on the way: no path of the handler    *)
(* goes round for ever.                                                    *)
(***************************************************************************)
ClientDone == stage = "receiving" ~> stage = "closed"
=============================================================================

----------------------------- MODULE HttpProtocol -----------------------------
(***************************************************************************)
(* What SERVER-HTTP/src/http_protocol.c makes of the head of a request: a  *)
(* request line and a sequence of header lines.  Names and texts are kept  *)
(* as far as the code tells them apart; a text "long" does not fit the     *)
(* field it is copied to.  Numbers are read digit by digit, as in C.       *)
(***************************************************************************)
EXTENDS Integers, Sequences

CONSTANTS SizeMax,    \* SIZE_MAX
          MaxSleep    \* HTTP_DEBUG_SLEEP_MAX_MS

NotDigit == 10        \* any character that isdigit refuses

\* The test comes before the multiplication, which would overflow.
ReadDigit(number, digit, limit) ==
  IF ~number.ok \/ digit = NotDigit \/ number.value > (limit - digit) \div 10
  THEN [number EXCEPT !.ok = FALSE]
  ELSE [number EXCEPT !.value = 10 * @ + digit]

\* What is known after the first n digits.
NumberAfter(digits, limit) ==
  LET number[n \in 0 .. Len(digits)] ==
        IF n = 0 THEN [ok |-> digits # <<>>, value |-> 0]
        ELSE ReadDigit(number[n - 1], digits[n], limit)
  IN number

ReadNumber(digits, limit) == NumberAfter(digits, limit)[Len(digits)]

http_parse_content_length(digits) == ReadNumber(digits, SizeMax)

http_copy_span(text) == text \notin {"", "long"}

http_parse_request_line(line) ==
  /\ line.tokens = 3
  /\ http_copy_span(line.method) /\ http_copy_span(line.path) /\ http_copy_span(line.version)
  /\ line.version \in {"HTTP/1.1", "HTTP/1.0"}
  /\ line.path # "relative"

NoHeaders ==
  [ok |-> TRUE, saw |-> {}, content_length |-> 0, content_type |-> "", debug_sleep_ms |-> <<>>]

\* A reader that lets a later header win; a mutant's body.
Refused_Last(request, header) == header.name \in {"no colon", "", "Transfer-Encoding"}

\* Of the headers the code reads each may come once.
Refused(request, header) ==
  header.name \in {"no colon", "", "Transfer-Encoding"} \cup request.saw

\* One round of the loop of http_parse_headers.
http_parse_header(request, header) ==
  LET length == http_parse_content_length(header.digits)
      seen   == [request EXCEPT !.saw = @ \cup {header.name}]
      refuse == [request EXCEPT !.ok = FALSE]
  IN IF ~request.ok THEN request
     ELSE IF Refused(request, header) THEN refuse
     ELSE CASE header.name = "Content-Length" ->
                 IF length.ok THEN [seen EXCEPT !.content_length = length.value] ELSE refuse
            [] header.name = "Content-Type" ->
                 IF header.text # "long" THEN [seen EXCEPT !.content_type = header.text] ELSE refuse
            [] header.name = "X-Debug-Sleep-Ms" ->
                 IF header.digits # <<>> /\ header.text # "long"
                 THEN [seen EXCEPT !.debug_sleep_ms = header.digits] ELSE refuse
            [] OTHER -> request

\* The request after the first n rounds.
RequestAfter(headers) ==
  LET request[n \in 0 .. Len(headers)] ==
        IF n = 0 THEN NoHeaders ELSE http_parse_header(request[n - 1], headers[n])
  IN request

http_parse_headers(headers) == RequestAfter(headers)[Len(headers)]

\* http_extract_head_metadata and the first half of http_parse_request.
http_parse_head(stream) ==
  LET request == http_parse_headers(stream.headers)
  IN [request EXCEPT !.ok = @ /\ http_parse_request_line(stream.line)]

\* An absent or empty Content-Type passes, and so do two of the others.
http_content_type_is_sql(content_type) ==
  content_type \in {"", "text/plain", "application/sql"}

http_parse_debug_sleep_ms(request) ==
  "X-Debug-Sleep-Ms" \in request.saw => ReadNumber(request.debug_sleep_ms, MaxSleep).ok
=============================================================================

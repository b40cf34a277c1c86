----------------------------- MODULE HttpReceive -----------------------------
(***************************************************************************)
(* The receive loop of http_server_handle_client (SERVER-HTTP/src/http_    *)
(* server.c) over http_grow_buffer and http_request_probe: bytes arrive in *)
(* pieces of any size, and after each piece the code asks whether what it  *)
(* has so far is a request.  A stream is what the client sends before it   *)
(* closes its side: a head, of which only the length and the lines matter, *)
(* and `sent' bytes in all.                                                *)
(***************************************************************************)
EXTENDS HttpProtocol

CONSTANTS Chunk,     \* HTTP_RECEIVE_CHUNK_BYTES
          MaxBytes,  \* max_request_bytes
          Streams    \* [line, headers, head, sent, ...]; head = 0: no blank line

\* A piece is at most the free room of a buffer that begins with Chunk bytes.
ASSUME HttpReceiveAssumption ==
  /\ Chunk \in Nat /\ MaxBytes \in Nat /\ SizeMax \in Nat
  /\ 1 <= Chunk /\ Chunk <= MaxBytes /\ MaxBytes <= SizeMax
  /\ \A s \in Streams :
       /\ s.head \in Nat /\ s.sent \in Nat
       /\ s.headers \in Seq([name : STRING, digits : Seq(0 .. NotDigit), text : STRING])

VARIABLES
  stream,            \* what this client sends
  buffer_length,     \* bytes received
  buffer_capacity,   \* bytes allocated
  receive            \* how the loop ended, or "reading"

receiveVars == <<stream, buffer_length, buffer_capacity, receive>>

Faults == {"allocation_failed", "read_failed"}

Ends == Faults \cup {"silent", "complete", "incomplete_request", "invalid_request", "payload_too_large"}

ReceiveTypeOK ==
  /\ stream \in Streams
  /\ buffer_length \in Nat
  /\ buffer_capacity \in Nat
  /\ receive \in {"reading"} \cup Ends

ReceiveInit ==
  /\ stream \in Streams
  /\ buffer_length = 0
  /\ buffer_capacity = 0
  /\ receive = "reading"
-----------------------------------------------------------------------------
\* Doubling without an eye on the limit; a mutant's body.
Grown_Unlimited ==
  LET capacity == IF buffer_capacity = 0 THEN Chunk ELSE buffer_capacity
  IN IF capacity > buffer_length \/ capacity >= MaxBytes THEN capacity ELSE 2 * capacity

\* The capacity for one more byte: one round of doubling is always enough.
Grown ==
  LET capacity == IF buffer_capacity = 0 THEN Chunk ELSE buffer_capacity
  IN IF capacity > buffer_length \/ capacity >= MaxBytes THEN capacity
     ELSE IF capacity > MaxBytes \div 2 THEN MaxBytes ELSE 2 * capacity

http_grow_buffer ==
  /\ receive = "reading"
  /\ Grown > buffer_length
  /\ buffer_capacity' = Grown

\* The buffer is full and may not grow.
GrowRefused ==
  /\ receive = "reading"
  /\ Grown <= buffer_length
  /\ receive' = IF buffer_length >= MaxBytes THEN "payload_too_large" ELSE "allocation_failed"
  /\ UNCHANGED <<stream, buffer_length, buffer_capacity>>

\* realloc, which is called in every round, finds no memory.
GrowFails ==
  /\ receive = "reading"
  /\ Grown > buffer_length
  /\ receive' = "allocation_failed"
  /\ UNCHANGED <<stream, buffer_length, buffer_capacity>>

\* The sum of both lengths, where it does not overflow.
RequestLength(s) == s.head + http_parse_head(s).content_length

\* A probe that looks at the declared size only when the body is there; a
\* mutant's body.
http_request_probe_Late(s, length) ==
  IF length > MaxBytes THEN "invalid_request"
  ELSE IF s.head = 0 \/ length < s.head THEN "reading"
  ELSE IF ~http_parse_head(s).ok \/ RequestLength(s) > SizeMax THEN "invalid_request"
  ELSE IF length < RequestLength(s) THEN "reading"
  ELSE IF RequestLength(s) > MaxBytes THEN "payload_too_large"
  ELSE "complete"

\* What the loop knows of s after `length' bytes.
http_request_probe(s, length) ==
  IF length > MaxBytes THEN "invalid_request"
  ELSE IF s.head = 0 \/ length < s.head THEN "reading"
  ELSE IF ~http_parse_head(s).ok \/ RequestLength(s) > SizeMax THEN "invalid_request"
  ELSE IF RequestLength(s) > MaxBytes THEN "payload_too_large"
  ELSE IF length >= RequestLength(s) THEN "complete"
  ELSE "reading"

\* recv returns n bytes, as many as there is room for at most.
Recv(n) ==
  /\ http_grow_buffer
  /\ n <= Grown - buffer_length
  /\ buffer_length' = buffer_length + n
  /\ receive' = http_request_probe(stream, buffer_length')
  /\ UNCHANGED stream

RecvSome == \E n \in 1 .. (stream.sent - buffer_length) : Recv(n)

\* A loop that takes the end of the stream for an interruption; a mutant's body.
RecvEnd_Retries ==
  /\ http_grow_buffer
  /\ buffer_length = stream.sent
  /\ receive' = IF buffer_length = 0 THEN "reading" ELSE "incomplete_request"
  /\ UNCHANGED <<stream, buffer_length>>

\* recv returns 0: the client has closed its side.
RecvEnd ==
  /\ http_grow_buffer
  /\ buffer_length = stream.sent
  /\ receive' = IF buffer_length = 0 THEN "silent" ELSE "incomplete_request"
  /\ UNCHANGED <<stream, buffer_length>>

\* A signal interrupts recv; the loop goes round again.
RecvInterrupted ==
  /\ http_grow_buffer
  /\ UNCHANGED <<stream, buffer_length, receive>>

RecvFails ==
  /\ http_grow_buffer
  /\ receive' = "read_failed"
  /\ UNCHANGED <<stream, buffer_length>>

\* What the loop does when nothing fails, and what fails.
ReceiveOn    == GrowRefused \/ RecvSome \/ RecvEnd
ReceiveFault == GrowFails \/ RecvInterrupted \/ RecvFails

Receive == ReceiveOn \/ ReceiveFault

ReceiveSpec == ReceiveInit /\ [][Receive]_receiveVars
-----------------------------------------------------------------------------
\* The end of a stream read at leisure, all of it at once.
WholeReading(s) ==
  IF s.head > 0 /\ s.head <= s.sent /\ s.head <= MaxBytes
  THEN IF ~http_parse_head(s).ok \/ RequestLength(s) > SizeMax THEN "invalid_request"
       ELSE IF RequestLength(s) > MaxBytes THEN "payload_too_large"
       ELSE IF RequestLength(s) <= s.sent THEN "complete"
       ELSE "incomplete_request"
  ELSE IF s.sent >= MaxBytes THEN "payload_too_large"
  ELSE IF s.sent = 0 THEN "silent"
  ELSE "incomplete_request"

(***************************************************************************)
(* How TCP cuts the stream into pieces does not show: unless memory or the *)
(* socket fails, the loop of http_server_handle_client ends as one reading *)
(* of the whole stream does.  The probe runs after every piece, on a       *)
(* buffer that grows by the same pieces, and the limit is applied in three *)
(* places; a piece boundary at the wrong byte must not turn 413 into 400   *)
(* or a request into an incomplete one.                                    *)
(***************************************************************************)
SegmentationBlind ==
  receive \in Ends \ Faults => receive = WholeReading(stream)

(***************************************************************************)
(* recv is never given more room than the buffer has, and the buffer never *)
(* grows past max_request_bytes nor shrinks below what it holds: what      *)
(* http_grow_buffer allocates fits buffer_length after every piece.        *)
(***************************************************************************)
BufferFits == buffer_length <= buffer_capacity /\ buffer_capacity <= MaxBytes
=============================================================================

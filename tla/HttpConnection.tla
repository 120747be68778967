--------------------------- MODULE HttpConnection ---------------------------
(***************************************************************************)
(* One connection of the two hand-written HTTP/1.1 servers: HttpParser and *)
(* handle_connection of custom_http.rs, over the crate's own TcpStream,    *)
(* and KimojioHttpParser and handle_http_connection of kimojio_server.rs,  *)
(* over io_uring.  The client plays a script of requests; the bytes of a   *)
(* request are abstracted to the units the parser tells apart: the lines   *)
(* of its head, chunk sizes, line ends and units of the body.  A read      *)
(* returns any number of them, so every segmentation of the stream occurs. *)
(***************************************************************************)
EXTENDS Integers, Sequences, SequencesExt

CONSTANTS
  InitialBuf,  \* INITIAL_BUF_SIZE, in units
  MaxBuf,      \* MAX_BUF_SIZE, in units
  ReadChunk    \* the most kimojio reads of a body at once (8192), in units

ASSUME BufAssumption ==
  /\ InitialBuf \in Nat \ {0}
  /\ MaxBuf \in Nat \ 0..2
  /\ ReadChunk \in Nat \ {0}
  /\ \E k \in 0..MaxBuf : MaxBuf = InitialBuf * 2^k

\* No Content-Length header, or one that is not a number.
NoLength == -1

\* A request, as the client writes it and as the parser may find it: the
\* lines of its head, what is wrong with it, what its headers say, and the
\* chunks (or one piece) and trailers of its body.
Requests ==
  [head : Nat \ {0}, bad : {"none", "head", "uri", "size"}, version : {10, 11},
   connection : {"absent", "keep-alive", "close"}, chunked : BOOLEAN,
   length : Nat \cup {NoLength}, chunks : Seq(Nat \ {0}), trailers : Nat]

VARIABLES
  impl,       \* "custom", "kimojio" or "echo"; "hyper" is not modelled here
  client,     \* "pipelines", or "sequential": waits for each answer
  script,     \* the requests of the client
  wire,       \* units sent and not yet read
  eof,        \* the client has closed its side
  broken,     \* the connection was reset: reads and writes fail
  buf, cap,   \* the first `len` bytes of the parser's buffer, and its size
  stage,      \* what the task awaits
  cur,        \* index in the script of the request being read, 0 for none
  body,       \* the body read so far
  line,       \* the part of a line already taken out of the buffer
  need,       \* units still missing in read_fixed_body or read_exact
  error,      \* the ParseError that ended the connection
  handled,    \* the requests given to the handler
  responses   \* the responses written

parserVars == <<buf, cap, stage, cur, body, line, need>>
resultVars == <<error, handled, responses>>
clientVars == <<impl, client, script, wire, eof, broken>>
connectionVars == <<clientVars, parserVars, resultVars>>

-----------------------------------------------------------------------------
(* What the client puts on the wire: units <<kind, request, number>>.      *)

Unit(kind, i, n) == <<kind, i, n>>

\* Chunk c of request i: its units of data.
Data(i, c, n) == [k \in 1..n |-> Unit("data", i, 10 * c + k)]

\* The body of a request as the client means it.
Payload(r, i) ==
  FlattenSeq([c \in 1..Len(r.chunks) |-> Data(i, c, r.chunks[c])])

\* A Content-Length that is given, and used, is that of the body.
Honest(r, i) ==
  r.chunked \/ r.length = NoLength \/ r.length = Len(Payload(r, i))

HeadUnits(r, i) ==
  IF r.bad = "head" THEN <<Unit("bad", i, 1)>>
  ELSE [k \in 1..r.head |-> Unit(IF k = r.head THEN "end" ELSE "head", i, k)]

\* A line of one unit and its end.
LineOf(u, i) == <<u, Unit("nl", i, 0)>>

ChunkedUnits(r, i) ==
  FlattenSeq([c \in 1..Len(r.chunks) |->
                LineOf(IF r.bad = "size" THEN Unit("junk", i, 0)
                       ELSE Unit("size", i, r.chunks[c]), i)
                \o Data(i, c, r.chunks[c]) \o <<Unit("nl", i, 0)>>])
  \o LineOf(Unit("size", i, 0), i)
  \o FlattenSeq([t \in 1..r.trailers |-> LineOf(Unit("trailer", i, t), i)])
  \o <<Unit("nl", i, 0)>>

Encode(r, i) ==
  HeadUnits(r, i) \o (IF r.chunked THEN ChunkedUnits(r, i) ELSE Payload(r, i))

-----------------------------------------------------------------------------
(* The helpers of the parser.                                              *)

get_content_length(r) == r.length

is_chunked(r) == r.chunked

should_keep_alive(r) ==
  IF r.connection = "absent" THEN r.version = 11
  ELSE r.connection = "keep-alive"

\* httparse::Request::parse: blank lines before a head are skipped and count
\* in the length it returns; a head that does not start like one is refused.
Blank(b) == SelectInSeq(b, LAMBDA u : u[1] # "nl")

EndOfHead(b) == SelectInSeq(b, LAMBDA u : u[1] = "end")

StartsHead(u) == u[1] \in {"head", "end"} /\ u[3] = 1

httparse(b) ==
  LET start == Blank(b)
      end == EndOfHead(b)
  IN IF start = 0 \/ (StartsHead(b[start]) /\ end = 0)
     THEN [status |-> "partial", len |-> 0]
     ELSE IF StartsHead(b[start]) THEN [status |-> "complete", len |-> end]
     ELSE [status |-> "error", len |-> 0]

Drop(s, n) == SubSeq(s, n + 1, Len(s))
Take(s, n) == SubSeq(s, 1, n)
Least(m, n) == IF m < n THEN m ELSE n

\* Where a line ends in the buffer, 0 if it does not.
LineEnd == SelectInSeq(buf, LAMBDA u : u[1] = "nl")

\* What the client has sent so far: a sequential one sends the next request
\* when it has the answer to the one before.
Arrived ==
  IF client = "pipelines" THEN Len(wire)
  ELSE LET later == SelectInSeq(wire, LAMBDA u : u[2] > Len(responses) + 1)
       IN IF later = 0 THEN Len(wire) ELSE later - 1

\* A read of at most `space` units returns 1..k of them.
ReadCounts(space) == 1..Least(space, Arrived)

AtEof == eof /\ wire = <<>>

-----------------------------------------------------------------------------

\* A connection of implementation `who`, with HttpParser::new.
InitConnection(who, how, s) ==
  /\ impl = who /\ client = how
  /\ script = s
  /\ wire = FlattenSeq([i \in 1..Len(s) |-> Encode(s[i], i)])
  /\ eof = FALSE /\ broken = FALSE
  /\ error = "none" /\ handled = <<>> /\ responses = <<>>
  /\ buf = <<>> /\ cap = InitialBuf
  /\ stage = IF who = "echo" THEN "recv" ELSE "headers"
  /\ cur = 0 /\ body = <<>> /\ line = <<>> /\ need = 0

\* handle_connection returns without a response: Ok(None) or
\* Err(ConnectionClosed) from parse_request.
Closed ==
  /\ stage' = "closed"
  /\ UNCHANGED <<clientVars, buf, cap, cur, body, line, need, resultVars>>

\* parse_request returns another error: 400 with Connection: close.
Fail(e) ==
  /\ stage' = "bad_request" /\ error' = e
  /\ UNCHANGED <<clientVars, buf, cap, cur, body, line, need, handled,
                 responses>>

\* The awaits that read from the stream.
Reading ==
  \/ stage = "headers" /\ httparse(buf).status = "partial"
  \/ stage \in {"size", "crlf", "last"} /\ LineEnd = 0
  \/ stage \in {"fixed", "chunk"} /\ need > 0 /\ buf = <<>>

\* Mutant of ParseHeaders: what was read after the head is not kept.
MutantLeftoverDropped ==
  LET parsed == httparse(buf)
      i == buf[parsed.len][2]
      r == script[i]
      fixed == ~is_chunked(r) /\ get_content_length(r) # NoLength
  IN /\ stage = "headers" /\ parsed.status = "complete"
     /\ buf' = <<>>
     /\ cur' = i /\ body' = <<>> /\ line' = <<>>
     /\ need' = IF fixed THEN get_content_length(r) ELSE 0
     /\ stage' = IF is_chunked(r) THEN "size"
                 ELSE IF fixed THEN "fixed" ELSE "handle"
     /\ UNCHANGED <<clientVars, cap, resultVars>>

\* parse_request with the head complete: its bytes leave the buffer, what
\* follows them stays, and read_body picks how the body is read.
ParseHeaders ==
  LET parsed == httparse(buf)
      i == buf[parsed.len][2]
      r == script[i]
      fixed == ~is_chunked(r) /\ get_content_length(r) # NoLength
  IN /\ stage = "headers" /\ parsed.status = "complete"
     /\ buf' = Drop(buf, parsed.len)
     /\ cur' = i /\ body' = <<>> /\ line' = <<>>
     /\ need' = IF fixed THEN get_content_length(r) ELSE 0
     /\ stage' = IF is_chunked(r) THEN "size"
                 ELSE IF fixed THEN "fixed" ELSE "handle"
     /\ UNCHANGED <<clientVars, cap, resultVars>>

ParseRefused ==
  /\ stage = "headers" /\ httparse(buf).status = "error"
  /\ Fail("parse")

\* Mutant of HeadersTooLarge: the size after doubling is compared.
MutantLimitReachedEarly ==
  /\ stage = "headers" /\ httparse(buf).status = "partial"
  /\ Len(buf) = cap /\ 2 * cap >= MaxBuf

\* read_more: a full buffer is doubled, unless it is at its limit.
HeadersTooLarge ==
  /\ stage = "headers" /\ httparse(buf).status = "partial"
  /\ Len(buf) = cap /\ cap >= MaxBuf

Grown == IF Len(buf) = cap THEN 2 * cap ELSE cap

ReadMore ==
  /\ stage = "headers" /\ httparse(buf).status = "partial"
  /\ \/ HeadersTooLarge /\ Fail("too_large")
     \/ ~HeadersTooLarge /\ ~broken /\ AtEof /\ Closed
     \/ /\ ~HeadersTooLarge /\ ~broken
        /\ \E n \in ReadCounts(Grown - Len(buf)) :
             /\ buf' = buf \o Take(wire, n)
             /\ wire' = Drop(wire, n)
        /\ cap' = Grown
        /\ UNCHANGED <<impl, client, script, eof, broken, stage, cur, body,
                       line, need, resultVars>>

\* Mutant of FromBuffer: all that is buffered is taken for the body.
MutantTakesAll ==
  /\ stage \in {"fixed", "chunk"} /\ need > 0 /\ buf # <<>>
  /\ body' = body \o buf
  /\ buf' = <<>>
  /\ need' = need - Least(Len(buf), need)
  /\ UNCHANGED <<clientVars, cap, stage, cur, line, resultVars>>

\* read_fixed_body and read_exact take what the buffer holds first ...
FromBuffer ==
  LET n == Least(Len(buf), need) IN
  /\ stage \in {"fixed", "chunk"} /\ need > 0 /\ buf # <<>>
  /\ body' = body \o Take(buf, n)
  /\ buf' = Drop(buf, n)
  /\ need' = need - n
  /\ UNCHANGED <<clientVars, cap, stage, cur, line, resultVars>>

\* ... and read the rest past the buffer, never more than is missing.
ReadExact(limit) ==
  /\ stage \in {"fixed", "chunk"} /\ need > 0 /\ buf = <<>>
  /\ ~broken
  /\ \/ AtEof /\ Closed
     \/ /\ \E n \in ReadCounts(Least(need, limit)) :
             /\ body' = body \o Take(wire, n)
             /\ wire' = Drop(wire, n)
             /\ need' = need - n
        /\ UNCHANGED <<impl, client, script, eof, broken, buf, cap, stage,
                       cur, line, resultVars>>

ExactDone ==
  /\ stage \in {"fixed", "chunk"} /\ need = 0
  /\ stage' = IF stage = "fixed" THEN "handle" ELSE "crlf"
  /\ UNCHANGED <<clientVars, buf, cap, cur, body, line, need, resultVars>>

\* read_chunked_body, with the line read_line has found: the size of a chunk,
\* the end of a chunk, and after the last chunk one line, whatever it is.
ChunkLine(text) ==
  CASE stage = "size" /\ (Len(text) # 1 \/ text[1][1] # "size") ->
         stage' = "bad_request" /\ error' = "content_length"
         /\ UNCHANGED need
    [] stage = "size" /\ Len(text) = 1 /\ text[1][1] = "size" ->
         /\ need' = text[1][3]
         /\ stage' = IF text[1][3] = 0 THEN "last" ELSE "chunk"
         /\ UNCHANGED error
    [] stage = "crlf" -> stage' = "size" /\ UNCHANGED <<need, error>>
    [] stage = "last" -> stage' = "handle" /\ UNCHANGED <<need, error>>

\* read_line: up to the end of line in the buffer, else the whole buffer is
\* put aside and more is read.
ReadLine ==
  /\ stage \in {"size", "crlf", "last"}
  /\ \/ /\ LineEnd # 0
        /\ ChunkLine(line \o Take(buf, LineEnd - 1))
        /\ buf' = Drop(buf, LineEnd) /\ line' = <<>>
        /\ UNCHANGED <<clientVars, cap, cur, body, handled, responses>>
     \/ LineEnd = 0 /\ ~broken /\ AtEof /\ Closed
     \/ /\ LineEnd = 0 /\ ~broken
        /\ \E n \in ReadCounts(cap) :
             /\ line' = line \o buf
             /\ buf' = Take(wire, n)
             /\ wire' = Drop(wire, n)
        /\ UNCHANGED <<impl, client, script, eof, broken, cap, stage, cur,
                       body, need, resultVars>>

\* A read of a connection that was reset.
ReadFails ==
  /\ Reading /\ ~HeadersTooLarge /\ broken
  /\ Fail("io")

\* The request is built, an unusable URI refused only now; then the handler.
Handle ==
  /\ stage = "handle"
  /\ IF script[cur].bad = "uri" THEN Fail("uri")
     ELSE /\ handled' = Append(handled, [request |-> cur, body |-> body])
          /\ stage' = "write"
          /\ UNCHANGED <<clientVars, buf, cap, cur, body, line, need, error,
                         responses>>

\* simple_echo_handler, with the Connection header handle_connection adds.
Response ==
  [status |-> 200, body |-> body,
   close |-> ~should_keep_alive(script[cur])]

\* Mutant of Write: the connection is kept whatever the response said.
MutantKeptOpen(left) ==
  /\ stage = "write"
  /\ IF broken
     THEN stage' = "closed" /\ error' = "io" /\ UNCHANGED <<buf, responses>>
     ELSE /\ responses' = Append(responses, Response)
          /\ stage' = "headers" /\ buf' = left /\ UNCHANGED error
  /\ UNCHANGED <<clientVars, cap, cur, body, line, need, handled>>

\* write_response, then the end of the loop body: a connection that is kept
\* goes round with `left` in its buffer.
Write(left) ==
  /\ stage = "write"
  /\ IF broken
     THEN stage' = "closed" /\ error' = "io" /\ UNCHANGED <<buf, responses>>
     ELSE /\ responses' = Append(responses, Response)
          /\ UNCHANGED error
          /\ IF should_keep_alive(script[cur])
             THEN stage' = "headers" /\ buf' = left
             ELSE stage' = "closed" /\ UNCHANGED buf
  /\ UNCHANGED <<clientVars, cap, cur, body, line, need, handled>>

\* The 400 response; a failure to write it is ignored.
BadRequest ==
  /\ stage = "bad_request"
  /\ responses' = IF broken THEN responses
                  ELSE Append(responses, [status |-> 400, body |-> <<>>,
                                          close |-> TRUE])
  /\ stage' = "closed"
  /\ UNCHANGED <<clientVars, buf, cap, cur, body, line, need, error, handled>>

-----------------------------------------------------------------------------
(* The two servers.                                                        *)

\* HttpParser: what is left in the buffer stays for the next request.
HttpParser ==
  impl = "custom" /\ (ParseHeaders \/ ParseRefused \/ ReadMore \/ ReadFails)

HttpParserBody ==
  impl = "custom" /\ (FromBuffer \/ ReadExact(need) \/ ExactDone \/ ReadLine)

handle_connection ==
  impl = "custom" /\ (Handle \/ Write(buf) \/ BadRequest)

\* KimojioHttpParser: the same parser over try_read; a body is read in pieces.
KimojioHttpParser ==
  impl = "kimojio" /\ (ParseHeaders \/ ParseRefused \/ ReadMore \/ ReadFails)

KimojioHttpParserBody ==
  /\ impl = "kimojio"
  /\ FromBuffer \/ ReadExact(ReadChunk) \/ ExactDone \/ ReadLine

\* parser.reset() before the next request.
reset == <<>>

handle_http_connection ==
  impl = "kimojio" /\ (Handle \/ Write(reset) \/ BadRequest)

\* handle_connection of echo_server.rs: what recv() brings is sent back, as
\* much of it as send() takes at once; an error, or the client's FIN, ends it.
EchoRecv ==
  /\ impl = "echo" /\ stage = "recv"
  /\ \/ (broken \/ AtEof) /\ Closed
     \/ /\ ~broken
        /\ \E n \in ReadCounts(cap) :
             /\ buf' = Take(wire, n)
             /\ wire' = Drop(wire, n)
             /\ handled' = Append(handled, [request |-> Len(handled) + 1,
                                           body |-> buf'])
        /\ stage' = "send"
        /\ UNCHANGED <<impl, client, script, eof, broken, cap, cur, body,
                       line, need, error, responses>>

EchoSend ==
  /\ impl = "echo" /\ stage = "send"
  /\ IF broken
     THEN stage' = "closed" /\ error' = "io" /\ UNCHANGED responses
     ELSE /\ \E n \in 1..Len(buf) :
               responses' = Append(responses, [status |-> 200, close |-> FALSE,
                                               body |-> Take(buf, n)])
          /\ stage' = "recv" /\ UNCHANGED error
  /\ buf' = <<>>
  /\ UNCHANGED <<clientVars, cap, cur, body, line, need, handled>>

Server ==
  \/ EchoRecv \/ EchoSend
  \/ HttpParser \/ HttpParserBody \/ handle_connection
  \/ KimojioHttpParser \/ KimojioHttpParserBody \/ handle_http_connection

\* The client closes its side, with the rest of its script unsent ...
ClientClose ==
  /\ ~eof /\ ~broken /\ stage # "closed"
  /\ eof' = TRUE
  /\ \E n \in 0..Len(wire) : wire' = Take(wire, n)
  /\ UNCHANGED <<impl, client, script, broken, parserVars, resultVars>>

\* ... or the connection is reset.
ClientReset ==
  /\ ~broken /\ stage # "closed"
  /\ broken' = TRUE
  /\ UNCHANGED <<impl, client, script, wire, eof, parserVars, resultVars>>

ConnectionNext == Server \/ ClientClose \/ ClientReset

-----------------------------------------------------------------------------

\* The body a request has by its own header: none when nothing says how long.
DeclaredBody(r, i) ==
  IF is_chunked(r) \/ get_content_length(r) # NoLength THEN Payload(r, i)
  ELSE <<>>

\* The handler gets the client's requests, each once, in order and with its
\* whole body, however the stream is cut into reads and however many requests
\* one read brings: parse_request leaves in the buffer exactly what follows
\* the request (custom_http.rs:200, 308, 364).
HandledAsSent ==
  impl # "echo" => \A k \in 1..Len(handled) :
    /\ handled[k].request = k
    /\ handled[k].body = DeclaredBody(script[k], k)

\* Response k answers request k, and nothing is written after a response that
\* told the client the connection closes (custom_http.rs:585, 597).
AnsweredInOrder ==
  /\ Len(responses) <= Len(handled) + 1
  /\ \A k \in 1..Len(responses) :
       /\ responses[k].status = 200 =>
            IF impl = "echo" THEN IsPrefix(responses[k].body, handled[k].body)
            ELSE responses[k].body = handled[k].body
       /\ responses[k].close =>
            k = Len(responses) /\ k >= Len(handled) /\ stage = "closed"

\* The buffer is full and the head incomplete only for a head, with the blank
\* lines that trailers may have left before it, longer than MAX_BUF_SIZE
\* (custom_http.rs:279).
OnlyOversizeRefused ==
  error = "too_large" =>
    LET k == Len(handled) + 1
        blank == IF k = 1 THEN 0 ELSE Least(script[k - 1].trailers, 2)
    IN k <= Len(script) /\ script[k].head + blank > MaxBuf

\* The requests of the script up to the one after which nothing is owed: it
\* is malformed, asks to close, or does not say where its body ends.
Ends(r) ==
  \/ r.bad # "none" \/ r.head > MaxBuf \/ ~should_keep_alive(r)
  \/ r.chunks # <<>> /\ ~r.chunked /\ r.length = NoLength

Owed ==
  LET last == SelectInSeq(script, Ends)
  IN IF last = 0 THEN Len(script) ELSE last

=============================================================================

----------------------------- MODULE HttpServer -----------------------------
(***************************************************************************)
(* net/http: an HttpServer and one of its connections.  HttpContext parses *)
(* the requests out of the connection's input buffer, whatever pieces the  *)
(* reads deliver them in; HttpServer answers.                              *)
(*                                                                         *)
(* The input buffer is the byte queue that module Buffer implements.  Its  *)
(* elements are what the parser tells apart: CR, LF, a request line, a     *)
(* header line, a byte of a body.  A read may end between any two of them. *)
(* A byte of a body is no part of a method, a colon or a line end.         *)
(***************************************************************************)
EXTENDS Naturals, Sequences, SequencesExt, FiniteSetsExt

CONSTANTS Requests,      \* requests a client may send: [line, headers, body]
          MaxRequests    \* bound: requests sent on the connection

\* What a client sends: a request line, header lines, and anything as a body.
ASSUME RequestsAssumption ==
  \A r \in Requests :
    /\ r.line.is = "line"
    /\ r.headers \in Seq(Range(r.headers))
    /\ \A h \in Range(r.headers) : h.is = "header" /\ h.text \in Seq(Range(h.text))
    /\ r.body \in Seq(Range(r.body))

VARIABLES net,           \* bytes sent by the client and not read yet
          inputBuffer,   \* TcpConnection::inputBuffer_
          state,         \* HttpContext::state_
          request,       \* HttpContext::request_
          tcp,           \* TcpConnection::state_
          pc,            \* where onMessage() is
          sent,          \* history: the requests the client has sent
          got,           \* history: the number of bytes read
          blurred,       \* history: a read ended within a body, or beyond it
          delivered,     \* history: the requests given to httpCallback_
          replies        \* history: what was sent to the client

vars == <<net, inputBuffer, state, request, tcp, pc, sent, got, blurred, delivered, replies>>

Space == " "

CR == [is |-> "CR"]
LF == [is |-> "LF"]
CRLF == <<CR, LF>>

\* The bytes of a request.
Wire(r) ==
  <<r.line>> \o CRLF
  \o FlattenSeq([i \in DOMAIN r.headers |-> <<r.headers[i]>> \o CRLF])
  \o CRLF \o r.body

\* HttpRequest::HttpRequest().
NewRequest == [method |-> "kInvalid", version |-> "kUnknown", headers |-> <<>>, body |-> <<>>]

\* onConnection() has given the new connection a fresh HttpContext.
Init ==
  /\ net = <<>>
  /\ inputBuffer = <<>>
  /\ state = "kExpectRequestLine"
  /\ request = NewRequest
  /\ tcp = "kConnected"
  /\ pc = "idle"
  /\ sent = <<>>
  /\ got = 0
  /\ blurred = FALSE
  /\ delivered = <<>>
  /\ replies = <<>>

-----------------------------------------------------------------------------
(* HttpRequest.                                                            *)

\* addHeader() takes as the value what follows the colon from the first space
\* on: the loop that should skip spaces skips everything else.  Spaces at the
\* end go, those in front stay.
fieldValue(text) ==
  LET spaces == {i \in DOMAIN text : text[i] = Space}
      words  == {i \in DOMAIN text : text[i] # Space}
  IN IF spaces = {} \/ words = {} THEN <<>> ELSE SubSeq(text, Min(spaces), Max(words))

addHeader(r, h) ==
  [r EXCEPT !.headers = [n \in DOMAIN r.headers \union {h.name} |->
                           IF n = h.name THEN fieldValue(h.text) ELSE r.headers[n]]]

getHeader(r, name) == IF name \in DOMAIN r.headers THEN r.headers[name] ELSE <<>>

-----------------------------------------------------------------------------
(* HttpContext::parseRequest(), one iteration of its loop a step.          *)

\* Buffer::findCRLF(): the length of the first line, if it is complete.
LineEnds == {i \in 0 .. Len(inputBuffer) - 2 : SubSeq(inputBuffer, i + 1, i + 2) = CRLF}
findCRLF == LineEnds # {}
Line == SubSeq(inputBuffer, 1, Min(LineEnds))

\* Buffer::retrieveUntil(crlf + 2).
AfterLine == SubSeq(inputBuffer, Min(LineEnds) + 3, Len(inputBuffer))

\* A line that consists of something else than a request line has no method.
NoLine == [is |-> "line", method |-> "kInvalid", version |-> "kUnknown"]

TheLine == IF Len(Line) = 1 /\ Line[1].is = "line" THEN Line[1] ELSE NoLine

Succeeds(l) == l.method # "kInvalid" /\ l.version # "kUnknown"

\* Fault: a line that is refused is retrieved all the same.
ParseRequestLineAlways ==
  LET l == TheLine
  IN /\ state = "kExpectRequestLine" /\ findCRLF
     /\ inputBuffer' = AfterLine
     /\ request' = [request EXCEPT !.version = l.version]
     /\ state' = IF Succeeds(l) THEN "kExpectHeaders" ELSE state
     /\ pc' = IF Succeeds(l) THEN pc ELSE "refused"

\* kExpectRequestLine.  The method is stored before the rest of the line is
\* looked at, and setMethod() asserts that none is stored yet.
ParseRequestLine ==
  LET l == TheLine
  IN /\ state = "kExpectRequestLine" /\ findCRLF
     /\ request' = [request EXCEPT !.method = l.method,
                                   !.version = IF Succeeds(l) THEN l.version ELSE @]
     /\ IF request.method # "kInvalid"
        THEN pc' = "aborted" /\ UNCHANGED <<inputBuffer, state>>
        ELSE IF Succeeds(l)
        THEN inputBuffer' = AfterLine /\ state' = "kExpectHeaders" /\ UNCHANGED pc
        ELSE pc' = "refused" /\ UNCHANGED <<inputBuffer, state>>

\* Fault: the empty line that ends the headers is taken for the end of the
\* request, the body is left in the buffer.
ParseHeaderNoBody ==
  /\ state = "kExpectHeaders" /\ findCRLF
  /\ IF Line # <<>> THEN request' = addHeader(request, Line[1]) /\ UNCHANGED <<state, pc>>
     ELSE state' = "kGotAll" /\ pc' = "parsed" /\ UNCHANGED request
  /\ inputBuffer' = AfterLine

\* kExpectHeaders: a line without a colon ends them.
ParseHeader ==
  /\ state = "kExpectHeaders" /\ findCRLF
  /\ IF \E h \in Range(Line) : h.is = "header"
     THEN request' = addHeader(request, Line[1]) /\ UNCHANGED state
     ELSE state' = "kExpectBody" /\ UNCHANGED request
  /\ inputBuffer' = AfterLine
  /\ UNCHANGED pc

\* kExpectBody: all that is in the buffer.
ParseBody ==
  /\ state = "kExpectBody"
  /\ request' = [request EXCEPT !.body = inputBuffer]
  /\ inputBuffer' = <<>>
  /\ state' = "kGotAll"
  /\ pc' = "parsed"

\* No complete line.
ParseNoLine ==
  /\ state \in {"kExpectRequestLine", "kExpectHeaders"} /\ ~findCRLF
  /\ pc' = "parsed"
  /\ UNCHANGED <<inputBuffer, state, request>>

Parse ==
  /\ pc = "parsing"
  /\ ParseRequestLine \/ ParseHeader \/ ParseBody \/ ParseNoLine
  /\ UNCHANGED <<net, tcp, sent, got, blurred, delivered, replies>>

-----------------------------------------------------------------------------
(* The rest of HttpServer::onMessage(), on the connection's loop.          *)

\* Fault: send() does not look at the connection's state.
SendAlways(reply) == Append(replies, reply)

\* TcpConnection::send() drops what is sent when the connection is not up.
Send(reply) == IF tcp = "kConnected" THEN Append(replies, reply) ELSE replies

\* Fault: the state is not reset.
resetRequest == UNCHANGED state /\ request' = NewRequest

\* HttpContext::reset().
reset == state' = "kExpectRequestLine" /\ request' = NewRequest

\* The answer to a bad request line, a status line and nothing else.
Bad == [status |-> "k400BadRequest", body |-> <<>>, connection |-> "none", contentLength |-> {}]

\* parseRequest() returned false: 400 and shutdown().
BadRequest ==
  /\ pc = "refused"
  /\ replies' = Send(Bad)
  /\ tcp' = "kDisconnecting"
  /\ pc' = "idle"
  /\ UNCHANGED <<net, inputBuffer, state, request, sent, got, blurred, delivered>>

\* Does onRequest() close the connection, unless the callback says otherwise?
CloseAfter(r) ==
  LET connection == getHeader(r, "Connection")
  IN connection = <<"close">> \/ (r.version = "kHttp1_0" /\ connection # <<"Keep-Alive">>)

\* HttpResponse::HttpResponse(close).
HttpResponse(close) == [statusCode |-> "kUnknown", closeConnection |-> close, body |-> <<>>]

defaultHttpCallback(x) ==
  [x EXCEPT !.statusCode = "k404NotFound", !.closeConnection = TRUE]

\* What httpCallback_ may make of a response: the default one's, or a user's
\* that leaves the connection as it is.
httpCallback(x) ==
  {defaultHttpCallback(x), [x EXCEPT !.statusCode = "k200Ok", !.body = <<"page">>]}

\* appendToBuffer(): the length of the body is given unless the end of the
\* connection is to mark it.
appendToBuffer(x) ==
  [status |-> x.statusCode, body |-> x.body,
   connection    |-> IF x.closeConnection THEN "close" ELSE "keep-Alive",
   contentLength |-> IF x.closeConnection THEN {} ELSE {Len(x.body)}]

\* gotAll() -> onRequest(): the callback, its response appended and sent, and
\* shutdown() if the response closes the connection; then reset().
OnRequest ==
  /\ pc = "parsed" /\ state = "kGotAll"
  /\ delivered' = Append(delivered, request)
  /\ \E response \in httpCallback(HttpResponse(CloseAfter(request))) :
       /\ replies' = Send(appendToBuffer(response))
       /\ tcp' = IF response.closeConnection THEN "kDisconnecting" ELSE tcp
  /\ reset
  /\ pc' = "idle"
  /\ UNCHANGED <<net, inputBuffer, sent, got, blurred>>

Incomplete ==
  /\ pc = "parsed" /\ state # "kGotAll"
  /\ pc' = "idle"
  /\ UNCHANGED <<net, inputBuffer, state, request, tcp, sent, got, blurred, delivered, replies>>

-----------------------------------------------------------------------------
(* The client and the network.                                             *)

\* The number of bytes of the first i requests.
End(i) == Len(FlattenSeq([j \in 1 .. i |-> Wire(sent[j])]))

\* A client sends a request, before the answer to the last one if it likes.
ClientSends(r) ==
  /\ Len(sent) < MaxRequests
  /\ sent' = Append(sent, r)
  /\ net' = net \o Wire(r)
  /\ UNCHANGED <<inputBuffer, state, request, tcp, pc, got, blurred, delivered, replies>>

\* TcpConnection::handleRead() gets n bytes and calls onMessage().  A read that
\* brings the end of the headers without ending at the end of the request
\* brings too little of the body, or something of the next request.
Read(n) ==
  /\ pc = "idle"
  /\ inputBuffer' = inputBuffer \o SubSeq(net, 1, n)
  /\ net' = SubSeq(net, n + 1, Len(net))
  /\ got' = got + n
  /\ blurred' = (blurred \/ \E i \in DOMAIN sent :
                   /\ End(i) - Len(sent[i].body) \in got + 1 .. got + n
                   /\ got + n # End(i))
  /\ pc' = "parsing"
  /\ UNCHANGED <<state, request, tcp, sent, delivered, replies>>

-----------------------------------------------------------------------------
LoopStep == Parse \/ BadRequest \/ OnRequest \/ Incomplete

Next ==
  \/ \E r \in Requests : ClientSends(r)
  \/ \E n \in 1 .. Len(net) : Read(n)
  \/ LoopStep

Spec == Init /\ [][Next]_vars

\* The loop's thread goes on with the handler it is in, and reads what arrives.
FairSpec == Spec /\ WF_vars(LoopStep) /\ WF_vars(\E n \in 1 .. Len(net) : Read(n))

-----------------------------------------------------------------------------
(* Properties.                                                             *)

\* A header's value, as tests/HttpRequest_unittest.cc expects it (line 24): what
\* follows the colon, without the spaces around it.
Value(text) ==
  LET words == {i \in DOMAIN text : text[i] # Space}
  IN IF words = {} THEN <<>> ELSE SubSeq(text, Min(words), Max(words))

\* What follows the colon in the last header of a name.
LastText(r, n) == r.headers[Max({i \in DOMAIN r.headers : r.headers[i].name = n})].text

\* What a request says, independently of how it is parsed: for every name the
\* value of its last header, and the whole body.
Meaning(r) ==
  [method  |-> r.line.method,
   version |-> r.line.version,
   headers |-> [n \in {h.name : h \in Range(r.headers)} |-> Value(LastText(r, n))],
   body    |-> r.body]

\* What addHeader() does to a value (HttpRequest.h:106 skips up to the first
\* space instead of over spaces): it comes with the spaces in front of it, or, if
\* there were none, without its beginning up to its first space.
IsGarbled(v, text) ==
  LET value == Value(text)
  IN IF value # <<>> /\ text[1] = Space
     THEN \E k \in 1 .. Len(text) : v = [j \in 1 .. k |-> Space] \o value
     ELSE \E k \in 0 .. Len(value) : v = SubSeq(value, k + 1, Len(value))

\* The request d that the callback was given is what r says, but for that.
Conveys(d, r) ==
  /\ d = [Meaning(r) EXCEPT !.headers = d.headers]
  /\ DOMAIN d.headers = DOMAIN Meaning(r).headers
  /\ \A n \in DOMAIN d.headers : IsGarbled(d.headers[n], LastText(r, n))

\* The requests that were read whole and stand before the first bad one.
Due == {i \in DOMAIN sent : End(i) <= got /\ \A j \in 1 .. i : Succeeds(sent[j].line)}

\* However the reads cut the bytes up, the callback is given the requests that
\* were sent, in order, none early, none late, none with anything of its
\* predecessor, and each with its own method, version, headers and body: as long
\* as no read ends within a body or goes beyond the end of a request
\* (parseRequest() takes all that is in the buffer for the body, there is no
\* Content-Length).  The values of headers are what addHeader() makes of them,
\* which is never the value itself if a space stands in front of it.
RequestsAreExact ==
  pc = "idle" /\ ~blurred =>
    /\ Len(delivered) = Cardinality(Due)
    /\ \A i \in DOMAIN delivered : Conveys(delivered[i], sent[i])

\* The answer after which the client has nothing to expect.
Closes(reply) == reply = Bad \/ reply.connection = "close"

\* The client gets one answer for each request given to the callback, in order,
\* until one of them closes the connection, which alone may do without a length;
\* nothing is sent after that one, and the write side is shut down exactly then.
\* (Requests that one read brings together are one request with a long body.)
OneLastAnswer ==
  /\ \A i \in DOMAIN replies :
       IF Closes(replies[i]) THEN i = Len(replies)
       ELSE replies[i].contentLength = {Len(replies[i].body)}
  /\ (tcp = "kDisconnecting") = (\E i \in DOMAIN replies : Closes(replies[i]))
  /\ Cardinality({i \in DOMAIN replies : replies[i] # Bad}) <= Len(delivered)
  /\ tcp = "kConnected" => Len(replies) = Len(delivered)

Refused == Bad \in Range(replies)

\* After a request line was refused no later bytes are taken for a request,
\* although the connection is still read; and the assertion of setMethod()
\* fails only when such a line, whose method was good, is looked at again.
RefusedIsFinal ==
  [][/\ Refused => delivered' = delivered
     /\ pc' = "aborted" => pc = "aborted" \/ tcp = "kDisconnecting"]_vars

\* onMessage() returns, and what has arrived is read, unless the assertion
\* ends the program.
ParsingEnds == []<>(pc = "aborted" \/ (pc = "idle" /\ net = <<>>))
=============================================================================

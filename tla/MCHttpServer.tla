---------------------------- MODULE MCHttpServer ----------------------------
(* Model-checking instance of HttpServer. *)
EXTENDS HttpServer

line(m, v) == [is |-> "line", method |-> m, version |-> v]
header(name, text) == [is |-> "header", name |-> name, text |-> text]
request_(l, hs, b) == [line |-> l, headers |-> hs, body |-> b]

\* A request with a body, one with a repeated header, an HTTP/1.0 one, and two
\* with a bad request line.
MCRequests ==
  {request_(line("kPost", "kHttp1_1"), <<header("Connection", <<Space, "close">>)>>,
            <<[is |-> "body"], [is |-> "body"]>>),
   request_(line("kGet", "kHttp1_1"), <<header("Host", <<Space, "a">>),
                                        header("Host", <<"a", Space, "b", Space>>)>>, <<>>),
   request_(line("kGet", "kHttp1_0"), <<header("Connection", <<"Keep-Alive">>)>>, <<>>),
   request_(line("kGet", "kUnknown"), <<>>, <<>>),
   request_(line("kInvalid", "kHttp1_1"), <<>>, <<>>)}
=============================================================================

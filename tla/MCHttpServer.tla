----------------------------- MODULE MCHttpServer -----------------------------
EXTENDS HttpServer

\* A request; the scripts below vary one thing at a time.
Get == [head |-> 2, bad |-> "none", version |-> 11, connection |-> "absent",
        chunked |-> FALSE, length |-> NoLength, chunks |-> <<>>,
        trailers |-> 0]
Post(n) == [Get EXCEPT !.length = n, !.chunks = <<n>>]
Chunked(cs, t) == [Get EXCEPT !.chunked = TRUE, !.chunks = cs, !.trailers = t]
Big(n) == [Get EXCEPT !.head = n]

AllScripts ==
  { <<Get, Post(2), Get>>,
    <<Post(3), [Get EXCEPT !.version = 10, !.connection = "keep-alive"], Get>>,
    <<Chunked(<<2, 1>>, 0), Get>>,
    <<Chunked(<<1>>, 1), Big(MaxBuf)>>,
    <<Chunked(<<1>>, 2), Big(MaxBuf-1)>>,
    <<Chunked(<<1>>, 3), Big(MaxBuf)>>,
    <<[Chunked(<<2>>, 0) EXCEPT !.length = 1], Big(MaxBuf)>>,
    <<Get, [Get EXCEPT !.version = 10], Get>>,
    <<[Post(1) EXCEPT !.connection = "close"], Get>>,
    <<Get, Big(MaxBuf + 1), Get>>,
    <<Get, [Get EXCEPT !.bad = "head"], Get>>,
    <<[Post(1) EXCEPT !.bad = "uri"], Get>>,
    <<[Chunked(<<1>>, 0) EXCEPT !.bad = "size"], Get>>,
    <<[Post(1) EXCEPT !.length = NoLength], Get>> }

FewScripts == {<<Post(1), Get>>}

CONSTANTS k1, k2

Instance(s, n, ks, how, scripts) ==
  [server |-> s, cores |-> n, conns |-> ks, clients |-> how,
   scripts |-> scripts]

\* A connection in full, alone on its server; then servers with two clients.
MCInstances ==
  { Instance("simple", 1, {k1}, {"pipelines", "sequential"}, AllScripts),
    Instance("kimojio", 1, {k1}, {"sequential"}, AllScripts),
    Instance("simple", 1, {k1, k2}, {"pipelines"}, FewScripts),
    Instance("kimojio", 2, {k1, k2}, {"sequential"}, FewScripts),
    Instance("echo", 1, {k1, k2}, {"pipelines"}, FewScripts),
    Instance("tokio_cores", 2, {k1, k2}, {"pipelines"}, {<<>>}) }
  \cup {Instance(s, 1, {k1, k2}, {"pipelines"}, {<<>>}) :
          s \in {"auto", "http1", "http2", "axum", "tokio"}}
=============================================================================

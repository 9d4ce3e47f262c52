-------------------------- MODULE MCRequestStream --------------------------
(* The scripts of the http run: two or three of these requests, or one     *)
(* that no handler understands first.                                      *)
EXTENDS RequestStream

Http(line, headers, body) == [proto |-> "http", line |-> line, headers |-> headers, body |-> body]
Get(path, headers) == Http(<<"GET", path, "HTTP/1.1">>, headers, <<>>)
Post(path, headers, body) == Http(<<"POST", path, "HTTP/1.1">>, headers, body)
Plain(line, end) == [proto |-> "line", line |-> line, headers |-> <<>>, body |-> end]
Junk(line, end)  == [proto |-> "junk", line |-> line, headers |-> <<>>, body |-> end]

Host == <<"host", "h">>
Length(n) == <<"content-length", n>>

Chunk == Post("/", <<Length("3")>>, <<"a", "CR", "LF">>)
Again == Get("/", <<<<"connection", "close">>, <<"connection", "keep-alive">>>>)

HttpRequests == {
  Get("/", <<>>), Again, Get("/", <<Host, <<"connection", "close">>>>),
  Get("/none", <<>>), Get("/../up", <<>>), Get("/events", <<>>),
  Get("/", <<<<"accept", "text/event-stream">>>>),
  Get("/", <<<<"accept", "text/event-stream">>, <<"accept", "any">>>>),
  Post("/", <<>>, <<>>), Post("/", <<Length("0")>>, <<>>), Chunk,
  Post("/", <<Length("1"), <<"connection", "close">>>>, <<"a">>),
  Post("/v1/chat", <<Length("2")>>, ValidChat),
  Post("/v1/chat", <<Length("1")>>, <<"{">>),
  Post("/none", <<Length("1")>>, <<"a">>),
  Post("/", <<Length("9")>>, [i \in 1..9 |-> "a"]),               (* 413     *)
  Post("/", <<Length("many")>>, <<>>), Get("/", <<<<"host">>, Host>>),
  Get("/", <<Host, Host, Host>>),                               (* too many*)
  Get("/", <<[i \in 1..11 |-> "x"]>>),                          (* fits    *)
  Get("/", <<[i \in 1..12 |-> "x"]>>),                          (* too big *)
  Http(<<"GET", "/", "HTTP/1.1">> \o [i \in 1..14 |-> "x"], <<>>, <<>>),
  Http(<<"PUT", "/", "HTTP/1.1">>, <<>>, <<>>), Http(<<"GET", "/", "HTTP/1.0">>, <<>>, <<>>),
  Http(<<"GET", "/">>, <<>>, <<>>)}

LineRequests == {
  Plain(<<"PING|", "a">>, <<"LF">>), Plain(<<"CHAT|", "CR">>, CRLF), Plain(<<"CHAT|">>, <<"LF">>),
  Plain(<<"TOOL|", "time">>, CRLF), Plain(<<"TOOL|", "x">>, <<"LF">>),
  Plain(<<"PING">>, <<"LF">>), Plain(<<>>, <<"LF">>)}

MCScripts ==
  {<<r>> : r \in HttpRequests}
  \cup {<<q, r>> : q \in {Chunk, Again}, r \in HttpRequests}
  \cup {<<Chunk, Again, Chunk>>, <<Chunk, Chunk, Chunk>>, <<Chunk, Post("/", <<>>, <<>>), Again>>}
  \cup {<<Get("/events", <<>>), r>> : r \in {Chunk, Post("/v1/chat", <<Length("2")>>, ValidChat)}}
  \cup {<<q, r>> : q, r \in LineRequests}
  \cup {<<Plain(<<"PING|", "a">>, <<"LF">>), Plain(<<"TOOL|", "time">>, CRLF), r>> : r \in LineRequests}
  \cup {<<Junk(<<"hello">>, CRLF), r>> : r \in LineRequests}
=============================================================================

----------------------------- MODULE HttpService -----------------------------
(***************************************************************************)
(* What the gateway promises a client whose requests arrive as one stream  *)
(* of bytes: each request is answered by itself, whole, in order and once, *)
(* however the network cuts the stream; a request after one that ends the  *)
(* connection is never answered.  Requests are records here and their      *)
(* answers are read off the record; HttpChannel and CustomLineHandler work *)
(* on the bytes.                                                           *)
(***************************************************************************)
EXTENDS HttpMessages

VARIABLES
  script,         (* what this client sends; never changes                 *)
  arrived,        (* how many requests of it have wholly arrived           *)
  left,           (* whether the client has ended its side of the stream   *)
  answers,        (* the answers given, oldest first                       *)
  mode            (* "open", "stream" (an event stream), "closed"          *)

svars == <<script, arrived, left, answers, mode>>

----------------------------------------------------------------------------
(* The answer to one request: what is sent, and what follows ("keep" the   *)
(* connection, "close" it, turn it into a "stream").                       *)
Refuse(status) == [send |-> <<Response(status, <<>>, FALSE)>>, next |-> "close"]
Drop           == [send |-> <<>>, next |-> "close"]
Give(body, keep) ==
  [send |-> <<Response("200", body, keep)>>, next |-> IF keep THEN "keep" ELSE "close"]
Upgrade(what)  == [send |-> <<Response("200", <<what>>, TRUE)>>, next |-> "stream"]

(* The last header of that name whose value is one of them.                *)
Value(r, name, values) ==
  LET at == {i \in DOMAIN r.headers : r.headers[i][1] = name /\ r.headers[i][2] \in values}
  IN IF at = {} THEN "none" ELSE r.headers[Max(at)][2]

Persistent(r) == Value(r, "connection", {"close", "keep-alive"}) # "close"
WantsEvents(r) ==
  LET at == {i \in DOMAIN r.headers : r.headers[i][1] = "accept"}
  IN at # {} /\ r.headers[Max(at)][2] = "text/event-stream"

Malformed(h)  == Len(h) < 2 \/ (h[1] = "content-length" /\ h[2] \notin DOMAIN Numeral)
TooBig(r, i)  == i > MaxHeaderCount \/ Len(Preamble(r, i)) > MaxHeaderBytes
BadHeaders(r) == {i \in DOMAIN r.headers : Malformed(r.headers[i]) \/ TooBig(r, i)}
BadLine(r)    == Len(r.line) < 3 \/ r.line[3] # "HTTP/1.1"

(* Refused before it has all arrived.                                      *)
Early(r) ==
  r.proto = "http" /\ (Len(Preamble(r, 0)) > MaxHeaderBytes \/ BadLine(r)
                        \/ BadHeaders(r) # {} \/ Len(r.body) > MaxBody)

Refusal(r) ==
  LET first == Min(BadHeaders(r)) IN
  IF Len(Preamble(r, 0)) > MaxHeaderBytes THEN Refuse("431")
  ELSE IF BadLine(r) THEN Drop
  ELSE IF BadHeaders(r) = {} THEN Refuse("413")
  ELSE Refuse(IF TooBig(r, first) THEN "431" ELSE "400")

GetAnswer(r, path) ==
  IF path = "/events" \/ WantsEvents(r) THEN Upgrade("events")
  ELSE IF path \in Outside THEN Refuse("403")
  ELSE IF path \in Files THEN Give(<<path>>, Persistent(r)) ELSE Refuse("404")

PostAnswer(r, path) ==
  IF path = "/v1/chat" THEN IF r.body = ValidChat THEN Upgrade("chat") ELSE Refuse("400")
  ELSE IF path = "/" THEN Give(r.body, Persistent(r)) ELSE Refuse("405")

LineAnswer(line) ==
  [send |-> <<CASE line # <<>> /\ line[1] = "PING|" -> Response("PONG|", Tail(line), TRUE)
                [] line # <<>> /\ line[1] = "CHAT|" -> Response("CHAT_ACK|", Tail(line), TRUE)
                [] line = <<"TOOL|", "time">>       -> Response("TOOL_RES|", <<"now">>, TRUE)
                [] line # <<>> /\ line[1] = "TOOL|" /\ line # <<"TOOL|", "time">>
                                                    -> Response("ERR|", <<"unknown_tool">>, TRUE)
                [] OTHER                            -> Response("ERR|", <<"unknown_type">>, TRUE)>>,
   next |-> "keep"]

Answer(r) ==
  CASE r.proto # "http"    -> LineAnswer(r.line)
    [] Early(r)            -> Refusal(r)
    [] OTHER               -> LET path == r.line[2] IN
                              CASE r.line[1] = "GET"  -> GetAnswer(r, path)
                                [] r.line[1] = "POST" -> PostAnswer(r, path)
                                [] OTHER              -> Refuse("405")

----------------------------------------------------------------------------
Arrive ==
  /\ mode # "closed" /\ arrived' \in arrived..Len(script)
  /\ UNCHANGED <<script, left, answers, mode>>

Leave == mode # "closed" /\ left' = TRUE /\ UNCHANGED <<script, arrived, answers, mode>>

(* The repository's README lists TOOL|time among the lines that are         *)
(* answered; as the first line of a stream on_readable does not recognise  *)
(* it.  Here such a stream may be answered as promised, but it may also be *)
(* dropped: of whether it is answered this service claims nothing.         *)
UndetectedTool(s) == s # <<>> /\ s[1].proto = "line" /\ s[1].line = <<"TOOL|", "time">>

Serve ==
  LET next == Len(answers) + 1  a == Answer(script[next]) IN
  /\ mode = "open" /\ next <= Len(script)
  /\ Known(script) \/ UndetectedTool(script)
  /\ next <= arrived \/ Early(script[next])
  /\ answers' = answers \o a.send
  /\ mode' = (CASE a.next = "keep" -> "open" [] a.next = "close" -> "closed" [] OTHER -> "stream")
  /\ UNCHANGED <<script, arrived, left>>

(* The connection ends otherwise when the client has ended it and all of   *)
(* it that arrived is answered; when it is not understood; when it sends   *)
(* more than the gateway buffers.                                          *)
HangUp ==
  /\ mode # "closed"
  /\ \/ left' /\ (mode = "stream" \/ Len(answers) = arrived)
     \/ ~Known(script) \/ Len(Stream(script)) > MaxRead
  /\ mode' = "closed" /\ left' \in {left, TRUE} /\ arrived' \in arrived..Len(script)
  /\ UNCHANGED <<script, answers>>

ServiceInit ==
  script \in Scripts /\ arrived = 0 /\ left = FALSE /\ answers = <<>> /\ mode = "open"

ServiceNext == Arrive \/ Leave \/ Serve \/ HangUp

ServiceSpec == ServiceInit /\ [][ServiceNext]_svars
=============================================================================

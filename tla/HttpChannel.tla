----------------------------- MODULE HttpChannel -----------------------------
(***************************************************************************)
(* protocol/HttpChannel: process() as a machine that takes one line, one   *)
(* piece of body or one whole request per step off read_buffer_, until it  *)
(* returns a ProcessResult to ClientConnection::on_readable.               *)
(* A path token stands for the path without its query, which nothing reads.*)
(***************************************************************************)
EXTENDS HttpMessages

VARIABLES
  read_buffer_,   (* what was received and not yet consumed                *)
  out,            (* the answers passed to ConnectionContext::send_data    *)
  result,         (* what process() returned, "none" while it runs         *)
  http,           (* the HttpChannel's members                             *)
  pending_llm     (* ConnectionContext::pending_llm.valid                  *)

httpVars == <<read_buffer_, out, result, http, pending_llm>>

Results == {"CONTINUE", "NEED_MORE", "CLOSE", "UPGRADE_SSE"}

(* The members after reset(), and in a new HttpChannel.                    *)
Fresh ==
  [state_ |-> "PARSE_REQUEST_LINE", line |-> <<>>, headers_ |-> <<>>, body_ |-> <<>>,
   content_length_ |-> 0, keep_alive_ |-> TRUE, header_bytes_ |-> 0, header_count_ |-> 0]

(* Names ending in _Faulty are slips a change to the code could make; no   *)
(* specification uses them.                                                *)
reset_Faulty == http' = [Fresh EXCEPT !.content_length_ = http.content_length_]

reset == http' = Fresh

(* extract_line: the text before the first CR LF, and what follows it.     *)
LineEnds == {i \in 1..(Len(read_buffer_) - 1) : SubSeq(read_buffer_, i, i + 1) = CRLF}
HasLine  == LineEnds # {}
Line     == SubSeq(read_buffer_, 1, Min(LineEnds) - 1)
TakeLine == read_buffer_' = SubSeq(read_buffer_, Min(LineEnds) + 2, Len(read_buffer_))

Send(r) == out' = Append(out, r)
Return(res) == result' = res

----------------------------------------------------------------------------
(* process: the two line states.                                           *)
NeedLine_Faulty ==                            \* CONTINUE for "not yet"
  /\ http.state_ \in {"PARSE_REQUEST_LINE", "PARSE_HEADERS"} /\ ~HasLine
  /\ Return("CONTINUE") /\ UNCHANGED <<read_buffer_, out, http, pending_llm>>

NeedLine ==
  /\ http.state_ \in {"PARSE_REQUEST_LINE", "PARSE_HEADERS"} /\ ~HasLine
  /\ Return("NEED_MORE") /\ UNCHANGED <<read_buffer_, out, http, pending_llm>>

send_error_response(status) ==
  /\ Send(Response(status, <<>>, FALSE))
  /\ http' = [http EXCEPT !.keep_alive_ = FALSE] /\ Return("CLOSE")

parse_request_line(line) == Len(line) >= 3 /\ line[3] = "HTTP/1.1"

RequestLine ==
  /\ http.state_ = "PARSE_REQUEST_LINE" /\ HasLine /\ TakeLine
  /\ IF Len(Line) + 2 > MaxHeaderBytes THEN send_error_response("431")
     ELSE /\ http' = [http EXCEPT !.line = Line, !.header_bytes_ = Len(Line) + 2,
                        !.header_count_ = 0,
                        !.state_ = IF parse_request_line(Line) THEN "PARSE_HEADERS" ELSE @]
          /\ result' = IF parse_request_line(Line) THEN "none" ELSE "CLOSE"
          /\ UNCHANGED out
  /\ UNCHANGED pending_llm

(* An empty line ends the headers.                                         *)
EndHeaders ==
  /\ http.state_ = "PARSE_HEADERS" /\ HasLine /\ Line = <<>> /\ TakeLine
  /\ IF http.line[1] = "POST" /\ http.content_length_ > MaxBody
     THEN send_error_response("413")
     ELSE /\ http' = [http EXCEPT !.state_ =
               IF http.line[1] = "POST" /\ http.content_length_ > 0 THEN "PARSE_BODY" ELSE "PARSE_DONE"]
          /\ UNCHANGED <<out, result>>
  /\ UNCHANGED pending_llm

(* parse_header_line: a name and a value; a Content-Length is a number.    *)
parse_header_line(h) ==
  Len(h) >= 2 /\ (h[1] = "content-length" => h[2] \in DOMAIN Numeral)

Stored(headers, h) ==                   \* the last of a name counts
  [n \in DOMAIN headers \cup {h[1]} |-> IF n = h[1] THEN h[2] ELSE headers[n]]

HeaderStored(h) ==
  [http EXCEPT !.headers_ = Stored(@, h),
     !.content_length_ = IF h[1] = "content-length" THEN Numeral[h[2]] ELSE @,
     !.keep_alive_ = IF h[1] = "connection" /\ h[2] \in {"close", "keep-alive"}
                     THEN h[2] = "keep-alive" ELSE @]

HeadersTooBig_Faulty(count, bytes) ==         \* header_count_++ for ++header_count_
  count - 1 > MaxHeaderCount \/ bytes > MaxHeaderBytes

HeadersTooBig(count, bytes) == count > MaxHeaderCount \/ bytes > MaxHeaderBytes

HeaderLine ==
  LET bytes == http.header_bytes_ + Len(Line) + 2  count == http.header_count_ + 1 IN
  /\ http.state_ = "PARSE_HEADERS" /\ HasLine /\ Line # <<>> /\ TakeLine
  /\ CASE HeadersTooBig(count, bytes) -> send_error_response("431")
       [] ~HeadersTooBig(count, bytes) /\ ~parse_header_line(Line) ->
            Send(Response("400", <<>>, FALSE)) /\ Return("CLOSE") /\ UNCHANGED http
       [] OTHER ->
            /\ http' = [HeaderStored(Line) EXCEPT !.header_bytes_ = bytes, !.header_count_ = count]
            /\ UNCHANGED <<out, result>>
  /\ UNCHANGED pending_llm

(* parse_body: never past the end of the body.                             *)
parse_body_Faulty ==                          \* takes all that was received
  LET body == http.body_ \o read_buffer_  done == Len(body) >= http.content_length_ IN
  /\ http.state_ = "PARSE_BODY"
  /\ read_buffer_' = <<>>
  /\ http' = [http EXCEPT !.body_ = body, !.state_ = IF done THEN "PARSE_DONE" ELSE @]
  /\ result' = IF done THEN "none" ELSE "NEED_MORE"
  /\ UNCHANGED <<out, pending_llm>>

parse_body ==
  LET need == http.content_length_ - Len(http.body_)
      n    == Min({need, Len(read_buffer_)}) IN
  /\ http.state_ = "PARSE_BODY"
  /\ http' = [http EXCEPT !.body_ = @ \o SubSeq(read_buffer_, 1, n),
                          !.state_ = IF n = need THEN "PARSE_DONE" ELSE @]
  /\ read_buffer_' = SubSeq(read_buffer_, n + 1, Len(read_buffer_))
  /\ result' = IF n = need THEN "none" ELSE "NEED_MORE"
  /\ UNCHANGED <<out, pending_llm>>

----------------------------------------------------------------------------
(* The handlers of a whole request.                                        *)
Done(method) == http.state_ = "PARSE_DONE" /\ http.line[1] = method /\ UNCHANGED read_buffer_

(* After an answer: keep the connection or close it.                       *)
KeepOrClose ==
  IF http.keep_alive_ THEN reset /\ Return("CONTINUE") ELSE Return("CLOSE") /\ UNCHANGED http

WantsSse ==
  http.line[2] = "/events"
  \/ ("accept" \in DOMAIN http.headers_ /\ http.headers_["accept"] = "text/event-stream")

(* serve_static_file; a file goes out in 64 KiB pieces, one answer here.   *)
handle_get ==
  LET path == http.line[2] IN
  /\ Done("GET") /\ UNCHANGED pending_llm
  /\ CASE WantsSse -> reset /\ Return("UPGRADE_SSE") /\ UNCHANGED out
       [] ~WantsSse /\ path \in Outside -> send_error_response("403")
       [] ~WantsSse /\ path \in Files \ Outside ->
            Send(Response("200", <<path>>, http.keep_alive_)) /\ KeepOrClose
       [] OTHER -> send_error_response("404")

handle_not_allowed ==
  Send(Response("405", <<>>, FALSE)) /\ Return("CLOSE") /\ UNCHANGED <<http, pending_llm>>

handle_post ==
  LET path == http.line[2] IN
  /\ Done("POST")
  /\ CASE path = "/v1/chat" /\ http.body_ = ValidChat ->
            pending_llm' = TRUE /\ reset /\ Return("UPGRADE_SSE") /\ UNCHANGED out
       [] path = "/v1/chat" /\ http.body_ # ValidChat ->
            send_error_response("400") /\ UNCHANGED pending_llm
       [] path = "/" -> /\ Send(Response("200", http.body_, http.keep_alive_)) /\ KeepOrClose
                        /\ UNCHANGED pending_llm
       [] OTHER -> handle_not_allowed

OtherMethod ==
  /\ http.state_ = "PARSE_DONE" /\ http.line[1] \notin {"GET", "POST"}
  /\ handle_not_allowed /\ UNCHANGED read_buffer_

HttpProcess ==
  \/ NeedLine \/ RequestLine \/ EndHeaders \/ HeaderLine \/ parse_body
  \/ handle_get \/ handle_post \/ OtherMethod

HttpInit ==
  read_buffer_ = <<>> /\ out = <<>> /\ result = "none" /\ http = Fresh /\ pending_llm = FALSE
=============================================================================

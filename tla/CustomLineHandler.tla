-------------------------- MODULE CustomLineHandler --------------------------
(***************************************************************************)
(* protocol/CustomLineHandler: a line per step off read_buffer_, answered  *)
(* at once.  The buffer, the answers and the result are the ones of        *)
(* HttpChannel: ClientConnection hands its buffer to either handler.       *)
(***************************************************************************)
EXTENDS HttpChannel

(* extract_line: up to the first LF, less a CR before it.                  *)
Feeds  == {i \in DOMAIN read_buffer_ : read_buffer_[i] = "LF"}
LfLine ==
  LET n == Min(Feeds) - 1 IN
  SubSeq(read_buffer_, 1, IF n > 0 /\ read_buffer_[n] = "CR" THEN n - 1 ELSE n)

(* parse and dispatch: the type is what stands before the "|"; without one *)
(* the message's type is ERR, which no branch knows.                       *)
dispatch(line) ==
  LET type == IF line = <<>> THEN "" ELSE line[1] IN
  CASE type = "PING|" -> Response("PONG|", Tail(line), TRUE)
    [] type = "CHAT|" -> Response("CHAT_ACK|", Tail(line), TRUE)
    [] type = "TOOL|" -> IF Tail(line) = <<"time">> THEN Response("TOOL_RES|", <<"now">>, TRUE)
                         ELSE Response("ERR|", <<"unknown_tool">>, TRUE)
    [] OTHER          -> Response("ERR|", <<"unknown_type">>, TRUE)

LineProcess ==
  /\ IF Feeds = {}
     THEN /\ Return(IF read_buffer_ = <<>> THEN "CONTINUE" ELSE "NEED_MORE")
          /\ UNCHANGED <<read_buffer_, out>>
     ELSE /\ read_buffer_' = SubSeq(read_buffer_, Min(Feeds) + 1, Len(read_buffer_))
          /\ Send(dispatch(LfLine)) /\ UNCHANGED result
  /\ UNCHANGED <<http, pending_llm>>
=============================================================================

---------------------------- MODULE RequestStream ----------------------------
(***************************************************************************)
(* One connection's ClientConnection::on_readable over the real stream of  *)
(* bytes: the recv loop, the protocol detection, and the loop that runs    *)
(* the handler until it has used up what it can.  EpollLoop has the same   *)
(* function with requests as wholes, beside everything else the reactor    *)
(* does; here the network cuts the stream anywhere and the client may stop *)
(* anywhere.  The write buffer never fills, and a connection on which a    *)
(* close was requested is not followed further (EpollLoop follows it).     *)
(***************************************************************************)
EXTENDS CustomLineHandler

VARIABLES
  script,         (* what the client sends, constant                       *)
  wire,           (* the part of its bytes that recv has not returned yet  *)
  pc,             (* where on_readable is; "wait" between two calls of it  *)
  peer_closed,    (* recv returned 0                                       *)
  handler_,       (* "none" while protocol_type_ is UNKNOWN                *)
  closing         (* close_connection or request_close was called          *)

netVars == <<script, wire, peer_closed>>
vars == <<httpVars, netVars, pc, handler_, closing>>

TypeOK ==
  /\ script \in Scripts /\ wire \in Seq(Token) /\ read_buffer_ \in Seq(Token)
  /\ Len(read_buffer_) <= MaxRead \/ closing
  /\ pc \in {"wait", "recv", "process"} /\ result \in Results \cup {"none"}
  /\ handler_ \in {"none", "http", "line", "sse"}
  /\ {peer_closed, closing, pending_llm} \subseteq BOOLEAN
  /\ http.header_bytes_ <= MaxHeaderBytes /\ http.header_count_ \in 0..MaxHeaderCount
  /\ http.state_ = "PARSE_BODY" => Len(http.body_) < http.content_length_

EndTurn == pc' = "wait" /\ Return("none")

----------------------------------------------------------------------------
(* The recv loop.  A call returns what the socket holds, or nothing yet,   *)
(* or the end of the stream; the epoll edge that starts a turn is one of   *)
(* the first and the last.                                                 *)
RecvBytes ==
  /\ pc = "wait" /\ ~closing /\ ~peer_closed
  /\ \E n \in 1..Len(wire) :
       /\ read_buffer_' = read_buffer_ \o SubSeq(wire, 1, n)
       /\ wire' = SubSeq(wire, n + 1, Len(wire))
  /\ IF Len(read_buffer_') > MaxRead THEN closing' = TRUE /\ UNCHANGED pc
     ELSE pc' = "recv" /\ UNCHANGED closing
  /\ UNCHANGED <<script, peer_closed, out, result, http, pending_llm, handler_>>

RecvEof ==
  /\ pc \in {"wait", "recv"} /\ ~closing /\ ~peer_closed
  /\ peer_closed' = TRUE
  /\ IF read_buffer_ = <<>> THEN closing' = TRUE /\ pc' = "wait"
     ELSE pc' = "recv" /\ UNCHANGED closing
  /\ UNCHANGED <<script, wire, httpVars, handler_>>

(* looks_like_http_request: three words or more in the first line.         *)
looks_like_http_request ==
  HasLine /\ Len(Line) >= 3 /\ Line[3] \in Versions

(* The first line decides; before its end only the line protocol shows.    *)
Detected ==
  CASE handler_ # "none" -> handler_
    [] handler_ = "none" /\ read_buffer_[1] \in Greets -> "line"
    [] handler_ = "none" /\ read_buffer_[1] \notin Greets /\ looks_like_http_request -> "http"
    [] OTHER -> "none"

(* EAGAIN (or the end, seen before), then the detection.                   *)
RecvAgain ==
  /\ pc = "recv"
  /\ handler_' = Detected
  /\ IF Detected # "none" THEN pc' = "process" /\ UNCHANGED closing
     ELSE pc' = "wait" /\ closing' = (HasLine \/ peer_closed)
  /\ UNCHANGED <<netVars, httpVars>>

----------------------------------------------------------------------------
(* One step of handler_->process(read_buffer_).  An SseHandler ignores the *)
(* buffer.                                                                 *)
Process ==
  /\ pc = "process" /\ result = "none"
  /\ CASE handler_ = "http" -> HttpProcess
       [] handler_ = "line" -> LineProcess
       [] handler_ = "sse"  -> Return("NEED_MORE") /\ UNCHANGED <<read_buffer_, out, http, pending_llm>>
  /\ UNCHANGED <<netVars, pc, handler_, closing>>

(* The ProcessResults.                                                     *)
Close ==
  /\ pc = "process" /\ result = "CLOSE" /\ closing' = TRUE /\ EndTurn
  /\ UNCHANGED <<netVars, read_buffer_, out, http, pending_llm, handler_>>

Continue ==
  /\ pc = "process" /\ result = "CONTINUE"
  /\ IF read_buffer_ = <<>> THEN EndTurn /\ closing' = peer_closed
     ELSE Return("none") /\ UNCHANGED <<pc, closing>>
  /\ UNCHANGED <<netVars, read_buffer_, out, http, pending_llm, handler_>>

NeedMore ==
  /\ pc = "process" /\ result = "NEED_MORE" /\ EndTurn /\ closing' = peer_closed
  /\ UNCHANGED <<netVars, read_buffer_, out, http, pending_llm, handler_>>

(* A new SseHandler, whose process() sends the stream's header and starts  *)
(* the agent of a chat; what it returns is not looked at, the turn ends as *)
(* after NEED_MORE.                                                        *)
UpgradeSse ==
  /\ pc = "process" /\ result = "UPGRADE_SSE"
  /\ handler_' = "sse"
  /\ Send(Response("200", <<IF pending_llm THEN "chat" ELSE "events">>, TRUE))
  /\ pending_llm' = FALSE /\ Return("NEED_MORE")
  /\ UNCHANGED <<netVars, read_buffer_, http, pc, closing>>

Init ==
  /\ HttpInit
  /\ script \in Scripts /\ wire = Stream(script)
  /\ pc = "wait" /\ peer_closed = FALSE /\ handler_ = "none" /\ closing = FALSE

Turn == RecvAgain \/ Process \/ Close \/ Continue \/ NeedMore \/ UpgradeSse
Next == RecvBytes \/ RecvEof \/ Turn

(* on_readable runs to its end once it was called; nothing makes a client  *)
(* send.                                                                   *)
Spec == Init /\ [][Next]_vars /\ WF_vars(Turn)

----------------------------------------------------------------------------
Received == Len(Stream(script)) - Len(wire)
Arrived  == Max({i \in 0..Len(script) : Len(Stream(SubSeq(script, 1, i))) <= Received})

Mode     == IF closing \/ result = "CLOSE" THEN "closed" ELSE IF handler_ = "sse" THEN "stream" ELSE "open"

Service == INSTANCE HttpService WITH
  arrived <- Arrived, left <- peer_closed, answers <- out, mode <- Mode

(* However the stream is cut into segments, the answers are those of the   *)
(* requests one by one: no byte of a request gets into another's answer,   *)
(* none is answered twice, out of order, before it has arrived or after    *)
(* the connection was to end, and a half-closed connection ends only when  *)
(* what had arrived is answered.  A stream whose first line is not known is*)
(* dropped; that TOOL|time is, against the repository's README, is neither *)
(* demanded nor excluded here.                                             *)
ImplementsService == Service!ServiceSpec

(* When the loop goes back to epoll_wait every request that has wholly     *)
(* arrived is answered: with edge-triggered reads nothing else would ever  *)
(* come back to bytes that are left in read_buffer_.                       *)
NothingWaits ==
  pc = "wait" /\ ~closing /\ handler_ # "sse" /\ Known(script) => Len(out) = Arrived

(* on_readable returns: an incomplete request does not keep the only loop  *)
(* thread in process(), which would starve every other connection.         *)
TurnEnds == pc # "wait" ~> pc = "wait"
=============================================================================

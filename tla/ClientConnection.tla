-------------------------- MODULE ClientConnection --------------------------
(***************************************************************************)
(* core/ClientConnection: the per-connection object and its write path.    *)
(* The operators carry the names of the member functions and are complete  *)
(* effects: each says what happens to the object, to its socket, to its    *)
(* epoll entry (through EpollLoop::add_write_event/remove_write_event) and *)
(* to the loop's list of deferred closes (through schedule_close).         *)
(***************************************************************************)
EXTENDS EpollKernel

CONSTANTS
  MaxRead,       (* MAX_READ_BUFFER, in frames                             *)
  MaxWrite       (* MAX_WRITE_BUFFER, in response units                    *)

ASSUME BufferAssumption == MaxRead \in Nat \ {0} /\ MaxWrite \in Nat \ {0}

VARIABLES
  conn,          (* conn[c]: the object's fields                           *)
  fdEvents,      (* EpollLoop::fd_events_, the loop's copy of the interest *)
  pendingClose   (* EpollLoop::pending_close_fds_                          *)

ioVars == <<sock, epoll, conn, fdEvents, pendingClose>>

(* handler_: null, an HttpChannel parsing or past a request it answered    *)
(* with CLOSE (its state_ stays PARSE_DONE), a plain or a chat SseHandler. *)
Handlers == {"none", "http", "httpDone", "sse", "chat"}

Object(f) ==
  [fd |-> f, rbuf |-> <<>>, wbuf |-> 0, wreg |-> FALSE, closeReq |-> FALSE,
   handler |-> "none", pend |-> 0, idle |-> FALSE, canceled |-> FALSE]

(* After the destructor only the cancellation flag, which the agent's      *)
(* ConnectionContext copy shares, can still be observed.                   *)
Destroyed == [Object(NoFd) EXCEPT !.canceled = TRUE]

(* read_buffer_.append: bytes that follow an incomplete request complete   *)
(* it, or leave it incomplete.                                             *)
AppendBytes(buf, fr) ==
  IF buf # <<>> /\ buf[Len(buf)] = "part"
  THEN [buf EXCEPT ![Len(buf)] = fr] ELSE Append(buf, fr)

Set(c, o) == conn' = [conn EXCEPT ![c] = o]

----------------------------------------------------------------------------
(* Names ending in _Faulty are slips a change to the code could make. No    *)
(* specification uses them; each shows that a property notices the slip.    *)

(* EpollLoop::add_write_event and remove_write_event: EPOLL_CTL_MOD, then  *)
(* the loop's copy.                                                        *)
SetInterest_Faulty(f, ev) ==                  \* fd_events_ is not updated
  Watch(f, epoll[f].owner, ev) /\ UNCHANGED fdEvents

SetInterest(f, ev) ==
  /\ Watch(f, epoll[f].owner, ev)
  /\ fdEvents' = [fdEvents EXCEPT ![f] = ev]

add_write_event(f)    == SetInterest(f, fdEvents[f] \cup {"OUT"})
remove_write_event(f) == SetInterest(f, fdEvents[f] \ {"OUT"})

(* close_connection on an object with an open descriptor; o is the object  *)
(* as the caller leaves it.                                                *)
close_connection_Faulty(c, o) ==              \* the agent is not cancelled
  Set(c, [o EXCEPT !.fd = NoFd]) /\ CloseFd(o.fd)

close_connection(c, o) ==
  Set(c, [o EXCEPT !.fd = NoFd, !.canceled = TRUE]) /\ CloseFd(o.fd)

(* The idiom  int fd = fd_; close_connection(); loop_->schedule_close(fd)  *)
FailClose_Faulty(c, o) ==                     \* schedule_close is forgotten
  close_connection(c, o) /\ UNCHANGED <<fdEvents, pendingClose>>

FailClose(c, o) ==
  /\ close_connection(c, o)
  /\ pendingClose' = pendingClose \cup {o.fd}
  /\ UNCHANGED fdEvents

(* The immediate ::send of one unit into an empty write buffer.            *)
SendNow(c, o) ==
  \/ /\ sock[c].peer = "rst"                                \* EPIPE, ECONNRESET
     /\ FailClose(c, [o EXCEPT !.wbuf = 1])
  \/ /\ sock[c].peer # "rst" /\ sock[c].space > 0
     /\ sock' = [sock EXCEPT ![c].space = @ - 1]
     /\ Set(c, o)
     /\ UNCHANGED <<epoll, fdEvents, pendingClose>>
  \/ /\ sock[c].peer # "rst" /\ sock[c].space = 0           \* EAGAIN
     /\ Set(c, [o EXCEPT !.wbuf = 1, !.wreg = TRUE])
     /\ add_write_event(o.fd)
     /\ UNCHANGED <<sock, pendingClose>>

send_data_Faulty(c, o) ==                     \* no limit on the write buffer
  IF o.fd = NoFd \/ o.closeReq
  THEN Set(c, o) /\ UNCHANGED <<sock, epoll, fdEvents, pendingClose>>
  ELSE \/ /\ o.wbuf > 0
          /\ Set(c, [o EXCEPT !.wbuf = @ + 1, !.idle = FALSE])
          /\ UNCHANGED <<sock, epoll, fdEvents, pendingClose>>
       \/ /\ o.wbuf = 0
          /\ SendNow(c, [o EXCEPT !.idle = FALSE])

(* send_data of one response unit.                                         *)
send_data(c, o) ==
  IF o.fd = NoFd \/ o.closeReq
  THEN Set(c, o) /\ UNCHANGED <<sock, epoll, fdEvents, pendingClose>>
  ELSE \/ /\ o.wbuf + 1 > MaxWrite
          /\ FailClose(c, o)
       \/ /\ o.wbuf + 1 <= MaxWrite /\ o.wbuf > 0
          /\ Set(c, [o EXCEPT !.wbuf = @ + 1, !.idle = FALSE])
          /\ UNCHANGED <<sock, epoll, fdEvents, pendingClose>>
       \/ /\ o.wbuf = 0
          /\ SendNow(c, [o EXCEPT !.idle = FALSE])

(* request_close: at once when nothing is unsent, else when the last byte  *)
(* is (handle_write).                                                      *)
request_close(c) ==
  LET o == [conn[c] EXCEPT !.closeReq = TRUE] IN
  IF conn[c].fd = NoFd \/ conn[c].closeReq THEN UNCHANGED ioVars
  ELSE IF o.wbuf = 0 THEN FailClose(c, o)
  ELSE /\ Set(c, [o EXCEPT !.wreg = TRUE])
       /\ add_write_event(o.fd)
       /\ UNCHANGED <<sock, pendingClose>>

(* The whole write buffer fits: clear it, drop EPOLLOUT, finish a          *)
(* requested close.                                                        *)
WriteAll_Faulty(c, o) ==                      \* the requested close is forgotten
  /\ sock' = [sock EXCEPT ![c].space = @ - o.wbuf]
  /\ Set(c, [o EXCEPT !.wbuf = 0, !.wreg = FALSE, !.idle = FALSE])
  /\ remove_write_event(o.fd)
  /\ UNCHANGED pendingClose

WriteAll(c, o) ==
  IF o.closeReq
  THEN /\ close_connection(c, [o EXCEPT !.wbuf = 0, !.wreg = FALSE, !.idle = FALSE])
       /\ pendingClose' = pendingClose \cup {o.fd}
       /\ fdEvents' = [fdEvents EXCEPT ![o.fd] = @ \ {"OUT"}]
  ELSE /\ sock' = [sock EXCEPT ![c].space = @ - o.wbuf]
       /\ Set(c, [o EXCEPT !.wbuf = 0, !.wreg = FALSE, !.idle = FALSE])
       /\ IF o.wreg THEN remove_write_event(o.fd) ELSE UNCHANGED <<epoll, fdEvents>>
       /\ UNCHANGED pendingClose

WritePart(c, o) ==
  /\ sock' = [sock EXCEPT ![c].space = 0]
  /\ Set(c, [o EXCEPT !.wbuf = @ - sock[c].space, !.idle = FALSE])
  /\ UNCHANGED <<epoll, fdEvents, pendingClose>>

(* handle_write, called on EPOLLOUT. A stale event may reach an object     *)
(* that is already closed (send fails, nothing is left to close) or that   *)
(* has nothing to send.                                                    *)
handle_write(c) ==
  LET o == conn[c] IN
  IF o.fd = NoFd THEN UNCHANGED ioVars
  ELSE IF o.wbuf = 0
  THEN IF o.wreg
       THEN /\ Set(c, [o EXCEPT !.wreg = FALSE])
            /\ remove_write_event(o.fd)
            /\ UNCHANGED <<sock, pendingClose>>
       ELSE UNCHANGED ioVars
  ELSE IF sock[c].peer = "rst" THEN FailClose(c, o)
  ELSE IF sock[c].space = 0 THEN UNCHANGED ioVars           \* EAGAIN
  ELSE IF o.wbuf <= sock[c].space THEN WriteAll(c, o)
  ELSE WritePart(c, o)

ConnInit ==
  /\ conn = [c \in Clients |-> Object(NoFd)]
  /\ fdEvents = [f \in Fds |-> {}]
  /\ pendingClose = {}

ConnTypeOK ==
  /\ conn \in [Clients -> [fd : Fds \cup {NoFd}, rbuf : Seq(Frames), wbuf : 0..MaxWrite,
                           wreg : BOOLEAN, closeReq : BOOLEAN, handler : Handlers,
                           pend : Nat, idle : BOOLEAN, canceled : BOOLEAN]]
  /\ \A c \in Clients : Len(conn[c].rbuf) <= MaxRead
  /\ fdEvents \in [Fds -> SUBSET {"IN", "OUT"}]
  /\ pendingClose \subseteq Fds
=============================================================================

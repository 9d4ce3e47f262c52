----------------------------- MODULE EpollLoop -----------------------------
(***************************************************************************)
(* core/EpollLoop: the gateway's single reactor thread.  One turn of       *)
(* run() is wait -> events -> timers -> completions -> close -> wait; the  *)
(* kernel, the peers, the clock and the agents on the worker threads act   *)
(* between any two of its steps, and each step is one system call of the   *)
(* loop with the code around it.                                           *)
(*                                                                         *)
(* ThreadPool and TimerManager appear by what they promise the loop        *)
(* (modules ThreadPool and TimerManager hold the detail): completions are  *)
(* delivered in order and wake the loop; a due timer ends epoll_wait.      *)
(***************************************************************************)
EXTENDS ClientConnection, FiniteSets

CONSTANTS
  MaxConn,          (* MAX_CONNECTIONS                                     *)
  FdsRunOut,        (* whether the rest of the process (HTTP clients, file *)
                    (* server) may exhaust the descriptors                 *)
  MaxCompletions,   (* bound: completions queued at once                   *)
  MaxChunks,        (* bound: events an agent emits before it finishes     *)
  IdleTimer,        (* the timer of check_idle_connections                 *)
  Listen, Wakeup    (* the two descriptors that are not connections        *)

ASSUME LoopAssumption ==
  /\ FdsRunOut \in BOOLEAN
  /\ MaxConn \in Nat /\ MaxCompletions \in Nat /\ MaxChunks \in Nat
  /\ IdleTimer \notin Clients /\ Listen \notin Fds /\ Wakeup \notin Fds /\ Listen # Wakeup

VARIABLES
  connections,      (* connections_: fd -> shared_ptr, the owning table    *)
  readyFds,         (* ready_fds_ with ready_set_                          *)
  flushing,         (* the list process_ready_fds swapped out              *)
  pc,               (* where run() stands                                  *)
  cur,              (* the event being handled and on_readable's locals    *)
  batch,            (* events of this turn not handled yet                 *)
  due,              (* timers that have expired: IdleTimer, or the client  *)
                    (* whose SSE heartbeat it is                           *)
  firing,           (* process_expired_timers' local list                  *)
  sweep,            (* check_idle_connections' local list                  *)
  completions,      (* ThreadPool::completions_: <<client, kind>>          *)
  agent             (* agent[c]: c's AgentLoop on a worker thread, and how *)
                    (* many events it may still emit                       *)

tableVars == <<connections, readyFds, due>>
turnVars  == <<flushing, pc, cur, batch, firing, sweep>>
agentVars == <<completions, agent>>
vars == <<kernelVars, conn, fdEvents, pendingClose, tableVars, turnVars, agentVars>>

Timers == Clients \cup {IdleTimer}
PCs == {"wait", "events", "accept", "flush", "recv", "process", "finish", "after",
        "timers", "completions", "trailer", "finishChat", "close", "crashed"}
NoEvent == [f |-> NoFd, c |-> NoConn, ev |-> {}, need |-> FALSE, eof |-> FALSE]

Registered(c) == \E f \in Fds : connections[f] = c
Live(c)       == conn[c].fd # NoFd
Goto(l)       == pc' = l
Leave(l)      == pc' = l /\ cur' = NoEvent
Return        == pc' = "after" /\ cur' = [NoEvent EXCEPT !.f = cur.f, !.ev = cur.ev]

----------------------------------------------------------------------------
(* remove_connection: EPOLL_CTL_DEL, erase, and with the last shared_ptr   *)
(* the destructor (cancel, close, the SseHandler's timer).                 *)
remove_connection(f) ==
  LET c == connections[f] IN
  IF c = NoConn
  THEN UNCHANGED <<connections, due, conn, fdEvents, sock, epoll>>
  ELSE /\ connections' = [connections EXCEPT ![f] = NoConn]
       /\ fdEvents' = [fdEvents EXCEPT ![f] = {}]
       /\ conn' = [conn EXCEPT ![c] = Destroyed]
       /\ due' = due \ {c}
       /\ IF Live(c) THEN CloseFd(conn[c].fd) ELSE UNCHANGED <<sock, epoll>>

----------------------------------------------------------------------------
(* epoll_wait and the dispatch of its events.                              *)

FdEvents(f) ==
  LET ev == Ready(epoll[f].owner) \cap (epoll[f].interest \cup {"HUP"})
  IN  [src |-> f, ev |-> ev]

Delivered ==
     {FdEvents(f) : f \in {g \in Fds : epoll[g].armed}}
  \cup (IF listenArmed /\ backlog # {} THEN {[src |-> Listen, ev |-> {"IN"}]} ELSE {})
  \cup (IF eventfd THEN {[src |-> Wakeup, ev |-> {"IN"}]} ELSE {})

(* Returns with events, or with none when the next timer is due.           *)
EpollWait ==
  /\ pc = "wait"
  /\ Delivered # {} \/ due # {}
  /\ batch' = {e \in Delivered : e.ev # {}}
  /\ epoll' = [f \in Fds |-> [epoll[f] EXCEPT !.armed = FALSE]]
  /\ listenArmed' = FALSE
  /\ Goto("events")
  /\ UNCHANGED <<sock, backlog, eventfd, conn, fdEvents, pendingClose, tableVars, flushing,
                 cur, firing, sweep, agentVars>>

DispatchListen(e) ==
  /\ e.src = Listen
  /\ Goto("accept")
  /\ UNCHANGED <<cur, eventfd, readyFds, flushing>>

(* The wake-up: drain the eventfd, take the flush list.                    *)
DispatchWakeup(e) ==
  /\ e.src = Wakeup
  /\ Goto("flush")
  /\ eventfd' = FALSE
  /\ flushing' = readyFds /\ readyFds' = {}
  /\ UNCHANGED cur

(* A socket: handle_read when it is readable and still in the table.       *)
DispatchSocket(e) ==
  /\ e.src \in Fds
  /\ cur' = [NoEvent EXCEPT !.f = e.src, !.c = connections[e.src], !.ev = e.ev]
  /\ Goto(IF "IN" \in e.ev /\ connections[e.src] # NoConn THEN "recv" ELSE "after")
  /\ UNCHANGED <<eventfd, readyFds, flushing>>

Dispatch ==
  /\ pc = "events"
  /\ \E e \in batch :
       /\ batch' = batch \ {e}
       /\ DispatchListen(e) \/ DispatchWakeup(e) \/ DispatchSocket(e)
  /\ UNCHANGED <<sock, backlog, listenArmed, epoll, conn, fdEvents, pendingClose, connections,
                 due, firing, sweep, agentVars>>

EventsDone ==
  /\ pc = "events" /\ batch = {}
  /\ firing' = due /\ due' = {}
  /\ Goto("timers")
  /\ UNCHANGED <<kernelVars, conn, fdEvents, pendingClose, connections, readyFds, flushing, cur,
                 batch, sweep, agentVars>>

----------------------------------------------------------------------------
(* handle_accept: one accept(2) per step until EAGAIN or EMFILE.           *)

(* EAGAIN with an empty backlog, EMFILE with no descriptor left: both end  *)
(* the loop, and only a new connection raises another edge.                *)
AcceptStop_Faulty ==                          \* returns after one accept
  /\ pc = "accept"
  /\ Goto("events")
  /\ UNCHANGED <<kernelVars, conn, fdEvents, pendingClose, tableVars, flushing, cur, batch,
                 firing, sweep, agentVars>>

AcceptStop ==
  /\ pc = "accept"
  /\ backlog = {} \/ FreeFds = {} \/ FdsRunOut
  /\ Goto("events")
  /\ UNCHANGED <<kernelVars, conn, fdEvents, pendingClose, tableVars, flushing, cur, batch,
                 firing, sweep, agentVars>>

TableSize == Cardinality({f \in Fds : connections[f] # NoConn})

(* At the limit: 503 and close.                                            *)
AcceptReject(c) ==
  /\ pc = "accept" /\ c \in backlog /\ FreeFds # {}
  /\ TableSize >= MaxConn
  /\ backlog' = backlog \ {c}
  /\ sock' = [sock EXCEPT ![c] = ClosedSocket]
  /\ UNCHANGED <<listenArmed, epoll, eventfd, conn, fdEvents, pendingClose, tableVars, turnVars,
                 agentVars>>

(* Register c under descriptor f. Any free descriptor: the worker threads' *)
(* HTTP clients and the file server also take and give back numbers. The   *)
(* table may still hold a closed connection under f: the assignment        *)
(* destroys it.                                                            *)
AcceptRegister(c, f) ==
  LET old == connections[f] IN
  /\ pc = "accept" /\ c \in backlog /\ f \in FreeFds
  /\ TableSize < MaxConn
  /\ backlog' = backlog \ {c}
  /\ Watch(f, c, {"IN"})
  /\ connections' = [connections EXCEPT ![f] = c]
  /\ fdEvents' = [fdEvents EXCEPT ![f] = {"IN"}]
  /\ conn' = [d \in Clients |-> IF d = c THEN Object(f)
                                ELSE IF d = old THEN Destroyed ELSE conn[d]]
  /\ due' = due \ {old}
  /\ UNCHANGED <<sock, listenArmed, eventfd, pendingClose, readyFds, turnVars, agentVars>>

----------------------------------------------------------------------------
(* process_ready_fds: flush() of each descriptor in the list.              *)

(* Nothing to flush: no connection, no handler yet, or an SSE queue that   *)
(* is drained. FlushFindsSse shows that no other handler is met here.      *)
FlushNext(f) ==
  /\ pc = "flush" /\ f \in flushing
  /\ connections[f] # NoConn =>
       LET o == conn[connections[f]] IN o.handler = "none" \/ (o.handler = "sse" /\ o.pend = 0)
  /\ flushing' = flushing \ {f}
  /\ UNCHANGED <<kernelVars, conn, fdEvents, pendingClose, tableVars, pc, cur, batch, firing,
                 sweep, agentVars>>

FlushEvent(f) ==
  LET c == connections[f] IN
  /\ pc = "flush" /\ f \in flushing
  /\ c # NoConn /\ conn[c].handler = "sse" /\ conn[c].pend > 0
  /\ send_data(c, [conn[c] EXCEPT !.pend = @ - 1])
  /\ UNCHANGED <<backlog, listenArmed, eventfd, tableVars, turnVars, agentVars>>

FlushDone ==
  /\ pc = "flush" /\ flushing = {}
  /\ Goto("events")
  /\ UNCHANGED <<kernelVars, conn, fdEvents, pendingClose, tableVars, flushing, cur, batch,
                 firing, sweep, agentVars>>

----------------------------------------------------------------------------
(* ClientConnection::on_readable under handle_read: recv until EAGAIN, EOF *)
(* or an error, then the protocol.                                         *)

ReadKeeps == <<backlog, listenArmed, eventfd, readyFds, flushing, batch, firing, sweep, agentVars>>

RecvBytes ==
  LET c == cur.c
      buf == AppendBytes(conn[c].rbuf, Head(sock[c].rcvq)) IN
  /\ pc = "recv" /\ Live(c) /\ sock[c].rcvq # <<>>
  /\ IF Len(buf) > MaxRead                   \* close_connection, schedule_close, return true
     THEN /\ remove_connection(cur.f)
          /\ pendingClose' = pendingClose \cup {cur.f}
          /\ Return
     ELSE /\ sock' = [sock EXCEPT ![c].rcvq = Tail(@)]
          /\ Set(c, [conn[c] EXCEPT !.rbuf = buf, !.idle = FALSE])
          /\ UNCHANGED <<epoll, fdEvents, pendingClose, connections, due, pc, cur>>
  /\ UNCHANGED ReadKeeps

RecvAgain_Faulty ==                           \* does not read until EAGAIN
  /\ pc = "recv" /\ Live(cur.c)
  /\ conn[cur.c].rbuf # <<>> /\ sock[cur.c].peer = "open"
  /\ Goto("process")
  /\ UNCHANGED <<ioVars, connections, due, cur, ReadKeeps>>

RecvAgain ==
  /\ pc = "recv" /\ Live(cur.c)
  /\ sock[cur.c].rcvq = <<>> /\ sock[cur.c].peer = "open"
  /\ Goto("process")
  /\ UNCHANGED <<ioVars, connections, due, cur, ReadKeeps>>

(* recv returns 0. With nothing buffered the connection is closed at once. *)
RecvEof ==
  /\ pc = "recv" /\ Live(cur.c)
  /\ sock[cur.c].rcvq = <<>> /\ sock[cur.c].peer = "fin"
  /\ IF conn[cur.c].rbuf = <<>>
     THEN remove_connection(cur.f) /\ Return
     ELSE /\ cur' = [cur EXCEPT !.eof = TRUE] /\ Goto("process")
          /\ UNCHANGED <<sock, epoll, conn, fdEvents, connections, due>>
  /\ UNCHANGED <<pendingClose, ReadKeeps>>

(* ECONNRESET, or EBADF on an object closed earlier in this turn.          *)
RecvError ==
  /\ pc = "recv" /\ (~Live(cur.c) \/ sock[cur.c].peer = "rst")
  /\ cur' = [cur EXCEPT !.need = TRUE]
  /\ Goto("process")
  /\ UNCHANGED <<ioVars, connections, due, ReadKeeps>>

(* What stands at the head of the read buffer.                             *)
First(c) == IF conn[c].rbuf = <<>> THEN "empty" ELSE Head(conn[c].rbuf)

(* Protocol detection on an object without a handler. With an empty buffer *)
(* it is skipped, and handler_->process goes through the null pointer.     *)
Detect ==
  LET c == cur.c IN
  /\ pc = "process" /\ conn[c].handler = "none"
  /\ \/ /\ First(c) = "empty"
        /\ Leave("crashed")
        /\ UNCHANGED <<ioVars, connections, due>>
     \/ /\ First(c) = "part"
        /\ IF cur.eof THEN request_close(c) ELSE UNCHANGED ioVars
        /\ Return
        /\ UNCHANGED <<connections, due>>
     \/ /\ First(c) = "junk"
        /\ remove_connection(cur.f)
        /\ Return
        /\ UNCHANGED pendingClose
     \/ /\ First(c) \notin {"empty", "part", "junk"}
        /\ Set(c, [conn[c] EXCEPT !.handler = "http"])
        /\ UNCHANGED <<sock, epoll, fdEvents, pendingClose, connections, due, pc, cur>>
  /\ UNCHANGED ReadKeeps

(* NEED_MORE: an incomplete request, or a stream, which reads nothing.     *)
NeedMore ==
  /\ pc = "process"
  /\ \/ conn[cur.c].handler \in {"sse", "chat"}
     \/ conn[cur.c].handler = "http" /\ First(cur.c) \in {"empty", "part"}
  /\ Goto("finish")
  /\ UNCHANGED <<ioVars, connections, due, cur, ReadKeeps>>

(* One complete request at the head of the buffer of an HttpChannel.       *)
Request(k) == pc = "process" /\ conn[cur.c].handler = "http" /\ First(cur.c) = k

Consumed == [conn[cur.c] EXCEPT !.rbuf = Tail(@)]

(* Answered with keep-alive: CONTINUE, which also forgets a read error     *)
(* once the buffer is empty.                                               *)
ServeKeepAlive ==
  /\ Request("keep")
  /\ send_data(cur.c, Consumed)
  /\ IF Consumed.rbuf = <<>>
     THEN Goto("finish") /\ cur' = [cur EXCEPT !.need = FALSE]
     ELSE UNCHANGED <<pc, cur>>
  /\ UNCHANGED <<connections, due, ReadKeeps>>

(* Answered with Connection: close.                                        *)
ServeLast ==
  /\ Request("last")
  /\ send_data(cur.c, [Consumed EXCEPT !.handler = "httpDone"])
  /\ cur' = [cur EXCEPT !.need = TRUE] /\ Goto("finish")
  /\ UNCHANGED <<connections, due, ReadKeeps>>

(* Not HTTP/1.1: CLOSE without an answer.                                  *)
Refuse ==
  /\ Request("junk")
  /\ Set(cur.c, Consumed)
  /\ cur' = [cur EXCEPT !.need = TRUE] /\ Goto("finish")
  /\ UNCHANGED <<sock, epoll, fdEvents, pendingClose, connections, due, ReadKeeps>>

(* process() again after CLOSE: the state is still PARSE_DONE, so the same *)
(* request is answered again, which send_data drops once a close is asked. *)
ServeAgain ==
  /\ pc = "process" /\ conn[cur.c].handler = "httpDone"
  /\ send_data(cur.c, conn[cur.c])
  /\ cur' = [cur EXCEPT !.need = TRUE] /\ Goto("finish")
  /\ UNCHANGED <<connections, due, ReadKeeps>>

(* UPGRADE_SSE: a new SseHandler sends the stream's header; /events then   *)
(* starts the heartbeat timer, /v1/chat hands an AgentLoop to the pool.    *)
UpgradeSse ==
  /\ Request("sse")
  /\ send_data(cur.c, [Consumed EXCEPT !.handler = "sse"])
  /\ Goto("finish")
  /\ UNCHANGED <<cur, connections, due, ReadKeeps>>

UpgradeChat ==
  /\ Request("chat")
  /\ send_data(cur.c, [Consumed EXCEPT !.handler = "chat"])
  /\ agent' = [agent EXCEPT ![cur.c].st = "running"]
  /\ Goto("finish")
  /\ UNCHANGED <<cur, connections, due, backlog, listenArmed, eventfd, readyFds, flushing, batch,
                 firing, sweep, completions>>

Process == Detect \/ NeedMore \/ ServeKeepAlive \/ ServeLast \/ Refuse \/ ServeAgain
           \/ UpgradeSse \/ UpgradeChat

ReadFinish_Faulty ==                          \* ignores peer_closed
  /\ pc = "finish"
  /\ IF cur.need THEN request_close(cur.c) ELSE UNCHANGED ioVars
  /\ Return
  /\ UNCHANGED <<connections, due, ReadKeeps>>

ReadFinish ==
  /\ pc = "finish"
  /\ IF cur.need \/ cur.eof THEN request_close(cur.c) ELSE UNCHANGED ioVars
  /\ Return
  /\ UNCHANGED <<connections, due, ReadKeeps>>

(* The rest of the event: gone, hung up, or writable.                      *)
AfterRead ==
  /\ pc = "after"
  /\ IF connections[cur.f] # NoConn /\ "HUP" \in cur.ev
     THEN remove_connection(cur.f) /\ UNCHANGED pendingClose
     ELSE /\ UNCHANGED <<connections, due>>
          /\ IF connections[cur.f] # NoConn /\ "OUT" \in cur.ev
             THEN handle_write(connections[cur.f]) ELSE UNCHANGED ioVars
  /\ Leave("events")
  /\ UNCHANGED ReadKeeps

----------------------------------------------------------------------------
(* process_expired_timers: the two kinds of callback the gateway installs. *)

TimerKeeps == <<backlog, listenArmed, connections, due, flushing, cur, batch, completions, agent>>

FireIdle_Faulty ==                            \* skips connections without a protocol
  /\ pc = "timers" /\ sweep = {} /\ IdleTimer \in firing
  /\ firing' = firing \ {IdleTimer}
  /\ sweep' = {c \in Clients : Registered(c) /\ conn[c].idle /\ conn[c].handler # "none"}
  /\ UNCHANGED <<ioVars, eventfd, readyFds, pc, TimerKeeps>>

(* check_idle_connections collects the idle connections...                 *)
FireIdle ==
  /\ pc = "timers" /\ sweep = {} /\ IdleTimer \in firing
  /\ firing' = firing \ {IdleTimer}
  /\ sweep' = {c \in Clients : Registered(c) /\ conn[c].idle}
  /\ UNCHANGED <<ioVars, eventfd, readyFds, pc, TimerKeeps>>

(* ...and asks each of them to close.                                      *)
SweepOne(c) ==
  /\ pc = "timers" /\ c \in sweep
  /\ sweep' = sweep \ {c}
  /\ request_close(c)
  /\ UNCHANGED <<firing, eventfd, readyFds, pc, TimerKeeps>>

FireHeartbeat_Faulty(c) ==                    \* the flush list is not followed by a wake-up
  /\ pc = "timers" /\ sweep = {} /\ c \in firing
  /\ firing' = firing \ {c}
  /\ Set(c, [conn[c] EXCEPT !.pend = @ + 1])
  /\ readyFds' = IF Live(c) THEN readyFds \cup {conn[c].fd} ELSE readyFds
  /\ UNCHANGED <<eventfd, sock, epoll, fdEvents, pendingClose, sweep, pc, TimerKeeps>>

(* The heartbeat of /events: push_event, then wakeup() -> schedule_flush.  *)
FireHeartbeat(c) ==
  /\ pc = "timers" /\ sweep = {} /\ c \in firing
  /\ firing' = firing \ {c}
  /\ Set(c, [conn[c] EXCEPT !.pend = @ + 1])
  /\ IF Live(c) /\ conn[c].fd \notin readyFds
     THEN readyFds' = readyFds \cup {conn[c].fd} /\ eventfd' = TRUE
     ELSE UNCHANGED <<readyFds, eventfd>>
  /\ UNCHANGED <<sock, epoll, fdEvents, pendingClose, sweep, pc, TimerKeeps>>

TimersDone ==
  /\ pc = "timers" /\ firing = {} /\ sweep = {}
  /\ Goto("completions")
  /\ UNCHANGED <<ioVars, eventfd, readyFds, firing, sweep, TimerKeeps>>

----------------------------------------------------------------------------
(* process_completions: the lambdas of AgentLoop::make_emit_callback.      *)

CompletionKeeps == <<backlog, listenArmed, eventfd, tableVars, flushing, batch, firing, sweep, agent>>

(* The object is gone: weak_conn.lock() fails and the event is dropped. An *)
(* event of a stream is one chunk; "done" is followed by the last chunk    *)
(* and by the close.                                                       *)
Deliver ==
  /\ pc = "completions" /\ completions # <<>>
  /\ LET c == Head(completions)[1] IN
       IF ~Registered(c) THEN UNCHANGED <<ioVars, pc, cur>>
       ELSE /\ send_data(c, conn[c])
            /\ IF Head(completions)[2] = "done"
               THEN Goto("trailer") /\ cur' = [NoEvent EXCEPT !.c = c]
               ELSE UNCHANGED <<pc, cur>>
  /\ completions' = Tail(completions)
  /\ UNCHANGED CompletionKeeps

DeliverTrailer ==
  /\ pc = "trailer"
  /\ send_data(cur.c, conn[cur.c])
  /\ Goto("finishChat")
  /\ UNCHANGED <<cur, completions, CompletionKeeps>>

FinishChat_Faulty ==                          \* "done" does not close
  /\ pc = "finishChat"
  /\ Leave("completions")
  /\ UNCHANGED <<ioVars, completions, CompletionKeeps>>

FinishChat ==
  /\ pc = "finishChat"
  /\ request_close(cur.c)
  /\ Leave("completions")
  /\ UNCHANGED <<completions, CompletionKeeps>>

CompletionsDone ==
  /\ pc = "completions" /\ completions = <<>>
  /\ Goto("close")
  /\ UNCHANGED <<ioVars, cur, completions, CompletionKeeps>>

(* The deferred closes, by descriptor number.                              *)
DeferredClose(f) ==
  /\ pc = "close" /\ f \in pendingClose
  /\ remove_connection(f)
  /\ pendingClose' = pendingClose \ {f}
  /\ UNCHANGED <<backlog, listenArmed, eventfd, readyFds, turnVars, agentVars>>

TurnDone ==
  /\ pc = "close" /\ pendingClose = {}
  /\ Goto("wait")
  /\ UNCHANGED <<kernelVars, conn, fdEvents, pendingClose, tableVars, flushing, cur, batch,
                 firing, sweep, agentVars>>

----------------------------------------------------------------------------
(* The rest of the process and of the world.                               *)

EnvKeeps == <<conn, fdEvents, pendingClose, tableVars, turnVars, agentVars>>

Peer(c) ==
  /\ Connect(c) \/ ClientSend(c) \/ ClientFin(c) \/ ClientRst(c) \/ ClientRead(c)
  /\ UNCHANGED EnvKeeps

(* A timer expires. Turns are short against the 1 s and 3 s periods, so    *)
(* time passes while the loop waits.                                       *)
Expire(t) ==
  /\ pc = "wait" /\ t \notin due
  /\ t # IdleTimer => Registered(t) /\ conn[t].handler = "sse"
  /\ due' = due \cup {t}
  /\ UNCHANGED <<kernelVars, conn, fdEvents, pendingClose, connections, readyFds, turnVars,
                 agentVars>>

(* 60 s without traffic on c. Of no consequence once a close is asked for. *)
BecomeIdle(c) ==
  /\ pc = "wait" /\ Registered(c) /\ ~conn[c].idle /\ ~conn[c].closeReq
  /\ Set(c, [conn[c] EXCEPT !.idle = TRUE])
  /\ UNCHANGED <<kernelVars, fdEvents, pendingClose, tableVars, turnVars, agentVars>>

(* An agent emits (post_completion wakes the loop when the queue was       *)
(* empty), finishes with "done", or stops silently once it sees the flag.  *)
Post(c, kind) ==
  /\ agent[c].st = "running" /\ Len(completions) < MaxCompletions
  /\ completions' = Append(completions, <<c, kind>>)
  /\ eventfd' = (eventfd \/ completions = <<>>)
  /\ UNCHANGED <<sock, backlog, listenArmed, epoll, conn, fdEvents, pendingClose, tableVars,
                 turnVars>>

AgentEmit(c) ==
  /\ agent[c].left > 0 /\ Post(c, "chunk")
  /\ agent' = [agent EXCEPT ![c].left = @ - 1]
AgentDone(c) == Post(c, "done") /\ agent' = [agent EXCEPT ![c].st = "over"]
AgentStop(c) ==
  /\ agent[c].st = "running" /\ conn[c].canceled
  /\ agent' = [agent EXCEPT ![c].st = "over"]
  /\ UNCHANGED <<kernelVars, conn, fdEvents, pendingClose, tableVars, turnVars, completions>>

Crashed == pc = "crashed" /\ UNCHANGED vars

----------------------------------------------------------------------------
Init ==
  /\ KernelInit /\ ConnInit
  /\ connections = [f \in Fds |-> NoConn]
  /\ readyFds = {} /\ flushing = {} /\ batch = {}
  /\ due = {} /\ firing = {} /\ sweep = {}
  /\ pc = "wait" /\ cur = NoEvent
  /\ completions = <<>> /\ agent = [c \in Clients |-> [st |-> "none", left |-> MaxChunks]]

Loop ==
  \/ EpollWait \/ Dispatch \/ EventsDone
  \/ AcceptStop
  \/ \E c \in Clients : AcceptReject(c) \/ \E f \in Fds : AcceptRegister(c, f)
  \/ \E f \in Fds : FlushNext(f) \/ FlushEvent(f)
  \/ FlushDone
  \/ RecvBytes \/ RecvAgain \/ RecvEof \/ RecvError \/ Process \/ ReadFinish \/ AfterRead
  \/ FireIdle \/ TimersDone
  \/ \E c \in Clients : SweepOne(c) \/ FireHeartbeat(c)
  \/ Deliver \/ DeliverTrailer \/ FinishChat \/ CompletionsDone
  \/ \E f \in Fds : DeferredClose(f)
  \/ TurnDone

Environment ==
  \/ \E c \in Clients :
       Peer(c) \/ BecomeIdle(c) \/ AgentEmit(c) \/ AgentDone(c) \/ AgentStop(c)
  \/ \E t \in Timers : Expire(t)

Next == Loop \/ Environment \/ Crashed

Spec == Init /\ [][Next]_vars

(* The reactor thread is scheduled, the idle timer keeps expiring and an   *)
(* agent's LLM call ends (curl has a timeout). Nothing is assumed of peers.*)
Fairness ==
  /\ WF_vars(Loop)
  /\ WF_vars(Expire(IdleTimer))
  /\ \A c \in Clients : WF_vars(AgentDone(c) \/ AgentStop(c))

FairSpec == Spec /\ Fairness

(* ... and of the peers only that they read what they are sent.            *)
Reads(c) == ClientRead(c) /\ UNCHANGED EnvKeeps
ReadingSpec == FairSpec /\ \A c \in Clients : WF_vars(Reads(c))
----------------------------------------------------------------------------
(* Safety.                                                                 *)

TypeOK ==
  /\ KernelTypeOK /\ ConnTypeOK
  /\ connections \in [Fds -> Clients \cup {NoConn}]
  /\ readyFds \subseteq Fds /\ flushing \subseteq Fds
  /\ pc \in PCs
  /\ cur \in [f : Fds \cup {NoFd}, c : Clients \cup {NoConn}, ev : SUBSET Events,
              need : BOOLEAN, eof : BOOLEAN]
  /\ batch \subseteq [src : Fds \cup {Listen, Wakeup}, ev : SUBSET Events]
  /\ due \subseteq Timers /\ firing \subseteq Timers /\ sweep \subseteq Clients
  /\ completions \in Seq(Clients \X {"chunk", "done"})
  /\ Len(completions) <= MaxCompletions
  /\ agent \in [Clients -> [st : {"none", "running", "over"}, left : 0..MaxChunks]]

(* The table, the objects and the kernel agree although descriptors are    *)
(* closed before their table entry is erased and reused at once: a live    *)
(* object is in the table under its own descriptor, every accepted socket  *)
(* has a live owner (nothing leaks), and the loop's copy of the epoll      *)
(* interest is the kernel's.                                               *)
TablesAgree ==
  /\ \A f \in Fds : epoll[f].owner # NoConn =>
       /\ connections[f] = epoll[f].owner
       /\ conn[epoll[f].owner].fd = f
       /\ fdEvents[f] = epoll[f].interest
  /\ \A c \in Clients : Live(c) => epoll[conn[c].fd].owner = c
  /\ \A f, g \in Fds : connections[f] = connections[g] /\ f # g => connections[f] = NoConn

(* Edge-triggered epoll forgets: whenever the loop goes to sleep, input it *)
(* has not read, output it could send and a reset it has not seen each     *)
(* still hold an undelivered edge, so the sleep ends.                      *)
NoLostEdge ==
  pc = "wait" => \A f \in Fds : epoll[f].owner # NoConn =>
    LET c == epoll[f].owner IN
    /\ sock[c].rcvq # <<>> \/ sock[c].peer = "rst" => epoll[f].armed
    /\ conn[c].wbuf > 0 => /\ "OUT" \in epoll[f].interest
                           /\ sock[c].space > 0 => epoll[f].armed

(* A half-close the loop has seen is acted upon whatever the connection    *)
(* was doing: it is closed or asked to close.                              *)
EofIsAnswered ==
  pc = "wait" => \A f \in Fds :
    epoll[f].owner # NoConn /\ sock[epoll[f].owner].peer = "fin" /\ ~epoll[f].armed
      => conn[epoll[f].owner].closeReq

(* No turn leaves a closed connection in the table or a deferred close     *)
(* behind, whichever of the six places closed it.                          *)
TurnEndsClean ==
  pc = "wait" => /\ pendingClose = {}
                 /\ \A f \in Fds : connections[f] # NoConn => Live(connections[f])

(* Whichever way a connection ends, an agent still working for it finds    *)
(* the cancellation flag set.                                              *)
CancelReachesAgent ==
  \A c \in Clients : agent[c].st = "running" /\ ~Live(c) => conn[c].canceled

(* A heartbeat is flushed before the next one is pushed, so the limit of   *)
(* 64 queued events is never what closes a stream; and the flush list,     *)
(* which holds descriptor numbers, never reaches a request parser of a     *)
(* connection that took the number over.                                   *)
FlushFindsSse ==
  /\ \A c \in Clients : conn[c].pend <= 1
  /\ pc = "flush" => \A f \in flushing :
       connections[f] # NoConn => conn[connections[f]].handler \in {"none", "sse"}

----------------------------------------------------------------------------
(* What the documents say of the loop; see README.md, "Findings".          *)

(* class-diagram.md 3.1: a connection is erased after it disconnected.     *)
EraseOnlyClosed ==
  pc = "close" => \A f \in pendingClose : connections[f] # NoConn => ~Live(connections[f])

(* README: a reset is handled correctly.                                   *)
ResetIsHandled == pc # "crashed"

(* README: a half-close is handled correctly: output already accepted for  *)
(* a peer that only stopped sending is not thrown away by the read side.   *)
HalfCloseKeepsOutput ==
  [][\A c \in Clients :
       pc = "recv" /\ cur.c = c /\ sock[c].peer = "fin" /\ conn[c].wbuf > 0 => Live(c)' ]_vars

----------------------------------------------------------------------------
(* Liveness. A crash is the finding above and ends every obligation.       *)

Gone(c) == ~Registered(c) \/ pc = "crashed"

(* README: idle connections are closed.                                    *)
IdleIsClosed ==
  \A c \in Clients : Registered(c) /\ conn[c].idle ~> Gone(c) \/ ~conn[c].idle

(* Once a close is requested the rest of the output is sent and the        *)
(* connection goes away.                                                   *)
CloseCompletes == \A c \in Clients : conn[c].closeReq ~> Gone(c)

(* No peer waits for ever to be accepted or refused.                        *)
BacklogIsServed == \A c \in Clients : c \in backlog ~> c \notin backlog \/ pc = "crashed"

(* A chat whose agent ended is ended: "done" is delivered and the          *)
(* connection closed, or it was gone already.                              *)
ChatIsClosed == \A c \in Clients : agent[c].st = "over" ~> Gone(c)
=============================================================================

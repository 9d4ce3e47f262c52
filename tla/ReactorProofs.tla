---------------------------- MODULE ReactorProofs ----------------------------
(***************************************************************************)
(* Theorems about the reactor, for any clients, descriptors, scripts and   *)
(* sizes of buffers and queues.                                            *)
(***************************************************************************)
EXTENDS EpollLoop, SequenceTheorems, TLAPS

----------------------------------------------------------------------------
(* The invariant.                                                          *)

Sock == [peer : Peers, rcvq : Seq(Frames), space : 0..SockCap, todo : Seq(Frames)]
Entry == [owner : Clients \cup {NoConn}, interest : SUBSET {"IN", "OUT"}, armed : BOOLEAN]
Obj == [fd : Fds \cup {NoFd}, rbuf : Seq(Frames), wbuf : 0..MaxWrite, wreg : BOOLEAN,
        closeReq : BOOLEAN, handler : Handlers, pend : Nat, idle : BOOLEAN, canceled : BOOLEAN]

Reading == {"recv", "process", "finish"}
EventPCs == Reading \cup {"events", "accept", "after"}

(* Where the turn stands decides which locals are in use.                  *)
ControlInv ==
  /\ pc \in Reading => cur.f \in Fds /\ cur.c \in Clients /\ connections[cur.f] = cur.c
  /\ pc = "after" => cur.f \in Fds
  /\ pc \in {"trailer", "finishChat"} => cur.c \in Clients
  /\ pc # "flush" => flushing = {}
  /\ pc # "timers" => firing = {} /\ sweep = {}
  /\ pc \notin EventPCs \cup {"flush", "crashed"} => batch = {}
  /\ pc = "wait" => pendingClose = {}

(* TablesAgree, with what accept and the deferred closes rely on: who is   *)
(* in the backlog is in no table, and a closed object still in the table   *)
(* is waiting for its deferred close.                                      *)
TablesInv ==
  /\ \A f \in Fds : epoll[f].owner # NoConn =>
       /\ connections[f] = epoll[f].owner /\ conn[epoll[f].owner].fd = f
       /\ fdEvents[f] = epoll[f].interest /\ "IN" \in epoll[f].interest
  /\ \A f \in Fds : epoll[f].owner = NoConn => ~epoll[f].armed
  /\ \A c \in Clients : Live(c) => epoll[conn[c].fd].owner = c
  /\ \A f, g \in Fds : connections[f] = connections[g] /\ f # g => connections[f] = NoConn
  /\ \A c \in Clients : c \in backlog => sock[c].peer # "off"
  /\ \A c \in Clients : c \in backlog \/ sock[c].peer = "off" => ~Live(c) /\ ~Registered(c)
  /\ \A f \in Fds : connections[f] # NoConn /\ ~Live(connections[f]) =>
        f \in pendingClose /\ conn[connections[f]].canceled
  /\ \A c \in Clients : agent[c].st = "running" /\ ~Live(c) => conn[c].canceled

(* Input, a reset, output that could go, a half-close not answered: what   *)
(* nobody would hear of any more, since no edge is left.                   *)
Unarmed(c) == Live(c) /\ ~epoll[conn[c].fd].armed
InDebt(c)  == Unarmed(c) /\ sock[c].rcvq # <<>>
HupDebt(c) == Unarmed(c) /\ sock[c].peer = "rst"
OutDebt(c) == Unarmed(c) /\ sock[c].space > 0 /\ conn[c].wbuf > 0
FinDebt(c) == Unarmed(c) /\ sock[c].peer = "fin" /\ ~conn[c].closeReq

(* The descriptor of a live object.                                        *)
LEMMA LiveOwns ==
  ASSUME TypeOK, TablesInv, NEW c \in Clients, Live(c)
  PROVE  LET f == conn[c].fd IN
         /\ f \in Fds /\ epoll[f].owner = c /\ connections[f] = c
         /\ fdEvents[f] = epoll[f].interest /\ "IN" \in epoll[f].interest
         /\ \A g \in Fds : epoll[g].owner = c => g = f
BY KernelAssumption DEF TypeOK, KernelTypeOK, ConnTypeOK, TablesInv, Live

----------------------------------------------------------------------------
(* What a member function does to the object c, its socket and its         *)
(* descriptor: either the descriptor stays, or it is closed.               *)

Others(c) ==
  /\ conn' \in [Clients -> Obj] /\ sock' \in [Clients -> Sock]
  /\ epoll' \in [Fds -> Entry] /\ fdEvents' \in [Fds -> SUBSET {"IN", "OUT"}]
  /\ \A d \in Clients \ {c} : conn'[d] = conn[d] /\ sock'[d] = sock[d]
  /\ \A g \in Fds \ {conn[c].fd} : epoll'[g] = epoll[g] /\ fdEvents'[g] = fdEvents[g]

Keeps(c) ==
  /\ conn'[c].fd = conn[c].fd /\ conn'[c].canceled = conn[c].canceled
  /\ pendingClose' = pendingClose
  /\ sock'[c].peer = sock[c].peer /\ Len(sock'[c].rcvq) <= Len(sock[c].rcvq)
  /\ sock[c].rcvq = <<>> => sock'[c].rcvq = <<>>
  /\ Live(c) => LET f == conn[c].fd IN
       /\ epoll'[f].owner = c /\ fdEvents'[f] = epoll'[f].interest /\ "IN" \in epoll'[f].interest
       /\ ("OUT" \in epoll[f].interest \/ conn[c].wbuf = 0 =>
             "OUT" \in epoll'[f].interest \/ conn'[c].wbuf = 0)
       /\ (InDebt(c)' => InDebt(c)) /\ (HupDebt(c)' => HupDebt(c))
       /\ (OutDebt(c)' => OutDebt(c)) /\ (FinDebt(c)' => FinDebt(c))

Closes(c) ==
  /\ Live(c) /\ conn'[c].fd = NoFd /\ conn'[c].canceled
  /\ pendingClose' = pendingClose \cup {conn[c].fd}
  /\ sock'[c] = ClosedSocket /\ epoll'[conn[c].fd] = FreeFd

Touches(c) == Others(c) /\ (Keeps(c) \/ Closes(c))

(* An object as a caller may leave it before it calls.                     *)
Edited(c, o) ==
  /\ o \in Obj /\ o.fd = conn[c].fd /\ o.wbuf = conn[c].wbuf
  /\ o.closeReq = conn[c].closeReq /\ o.canceled = conn[c].canceled

(* What no member function changes of the object it was given.             *)
Carries(c, o) ==
  conn'[c].handler = o.handler /\ conn'[c].pend = o.pend /\ conn'[c].rbuf = o.rbuf

LEMMA SetTouches ==
  ASSUME TypeOK, TablesInv, NEW c \in Clients, NEW o, Edited(c, o),
         Set(c, o), UNCHANGED <<sock, epoll, fdEvents, pendingClose>>
  PROVE  Touches(c) /\ conn'[c] = o
<1>1. conn'[c] = o /\ Others(c)
  BY DEF Others, Set, Edited, TypeOK, KernelTypeOK, ConnTypeOK, Obj, Sock, Entry
<1>2. Keeps(c)
  BY <1>1, LiveOwns DEF Keeps, Edited, InDebt, OutDebt, HupDebt, FinDebt, Unarmed, Live
<1> QED
  BY <1>1, <1>2 DEF Touches

(* close_connection and schedule_close.                                    *)
LEMMA CloseTouches ==
  ASSUME TypeOK, TablesInv, NEW c \in Clients, Live(c), NEW o \in Obj, o.fd = conn[c].fd,
         close_connection(c, o), pendingClose' = pendingClose \cup {o.fd},
         fdEvents' \in [Fds -> SUBSET {"IN", "OUT"}],
         \A g \in Fds \ {o.fd} : fdEvents'[g] = fdEvents[g]
  PROVE  Touches(c) /\ Closes(c) /\ Carries(c, o)
<1>1. epoll[o.fd].owner = c /\ o.fd \in Fds
  BY LiveOwns
<1>2. /\ conn \in [Clients -> Obj] /\ sock \in [Clients -> Sock] /\ epoll \in [Fds -> Entry]
  BY DEF TypeOK, KernelTypeOK, ConnTypeOK, Obj, Sock, Entry
<1>3. ClosedSocket \in Sock /\ FreeFd \in Entry
  BY KernelAssumption, EmptySeq DEF ClosedSocket, Sock, Peers, FreeFd, Entry
<1>4. /\ conn' = [conn EXCEPT ![c] = [o EXCEPT !.fd = NoFd, !.canceled = TRUE]]
      /\ sock' = [sock EXCEPT ![c] = ClosedSocket] /\ epoll' = [epoll EXCEPT ![o.fd] = FreeFd]
  BY <1>1 DEF close_connection, CloseFd, Set
<1>5. [o EXCEPT !.fd = NoFd, !.canceled = TRUE] \in Obj
  BY DEF Obj
<1>6. Others(c)
  BY <1>1, <1>2, <1>3, <1>4, <1>5 DEF Others
<1>7. Closes(c) /\ Carries(c, o)
  BY <1>1, <1>2, <1>4 DEF Closes, Carries, Obj
<1> QED
  BY <1>6, <1>7 DEF Touches

LEMMA FailCloseTouches ==
  ASSUME TypeOK, TablesInv, NEW c \in Clients, Live(c), NEW o \in Obj, o.fd = conn[c].fd,
         FailClose(c, o)
  PROVE  Touches(c) /\ Closes(c) /\ Carries(c, o)
BY CloseTouches DEF FailClose, TypeOK, ConnTypeOK

(* EPOLL_CTL_MOD looks at the socket, so that no debt is left.             *)
LEMMA WatchPays ==
  ASSUME TypeOK, TablesInv, NEW c \in Clients, Live(c), NEW ev \in SUBSET {"IN", "OUT"},
         "IN" \in ev, NEW o \in Obj, o.fd = conn[c].fd, o.canceled = conn[c].canceled,
         "OUT" \in ev \/ o.wbuf = 0, Set(c, o),
         sock' \in [Clients -> Sock], \A d \in Clients \ {c} : sock'[d] = sock[d],
         sock'[c].peer = sock[c].peer, sock'[c].rcvq = sock[c].rcvq,
         o.wbuf = 0 \/ sock' = sock,
         SetInterest(o.fd, ev), UNCHANGED pendingClose
  PROVE  Touches(c) /\ Keeps(c) /\ conn'[c] = o /\ ~OutDebt(c)'
<1> DEFINE f == conn[c].fd
<1>1. f \in Fds /\ epoll[f].owner = c /\ o.fd = f
  BY LiveOwns
<1>2. conn \in [Clients -> Obj] /\ epoll \in [Fds -> Entry] /\ fdEvents \in [Fds -> SUBSET {"IN", "OUT"}]
  BY DEF TypeOK, KernelTypeOK, ConnTypeOK, Obj, Entry
<1>3. /\ conn' = [conn EXCEPT ![c] = o] /\ fdEvents' = [fdEvents EXCEPT ![f] = ev]
      /\ epoll' = [epoll EXCEPT ![f] = [owner |-> c, interest |-> ev,
                     armed |-> Ready(c) \cap (ev \cup {"HUP"}) # {}]]
  BY <1>1 DEF Set, SetInterest, Watch
<1>4. Others(c)
  BY <1>1, <1>2, <1>3 DEF Others, Entry
<1>5. /\ conn'[c] = o /\ fdEvents'[f] = ev
      /\ epoll'[f] = [owner |-> c, interest |-> ev, armed |-> Ready(c) \cap (ev \cup {"HUP"}) # {}]
  BY <1>1, <1>2, <1>3
<1>5a. \A e \in ev : e \in Ready(c) => epoll'[f].armed
  <2>1. ASSUME NEW e \in ev, e \in Ready(c) PROVE Ready(c) \cap (ev \cup {"HUP"}) # {}
    BY <2>1
  <2>2. epoll'[f].armed = (Ready(c) \cap (ev \cup {"HUP"}) # {})
    BY <1>5
  <2> QED
    BY <2>1, <2>2
<1>6. ~InDebt(c)' /\ ~HupDebt(c)' /\ ~FinDebt(c)' /\ ~OutDebt(c)'
  <2>1. ~epoll'[f].armed => sock[c].rcvq = <<>> /\ sock[c].peer # "fin" /\ sock[c].peer # "rst"
    <3>1. sock[c].rcvq # <<>> \/ sock[c].peer \in {"fin", "rst"} => "IN" \in Ready(c)
      BY DEF Ready
    <3> QED
      BY <3>1, <1>5a
  <2>2. ~epoll'[f].armed /\ o.wbuf # 0 => ~(sock[c].space > 0)
    <3>1. sock[c].space > 0 => "OUT" \in Ready(c)
      BY DEF Ready
    <3> QED
      BY <3>1, <1>5a
  <2>3. ~(o.wbuf > 0) \/ o.wbuf # 0
    OBVIOUS
  <2> QED
    BY <2>1, <2>2, <2>3, <1>5 DEF InDebt, HupDebt, FinDebt, OutDebt, Unarmed, Live
<1>7. Keeps(c)
  BY <1>1, <1>5, <1>6 DEF Keeps
<1> QED
  BY <1>1, <1>4, <1>5, <1>6, <1>7 DEF Touches

(* The first send into an empty write buffer.                              *)
LEMMA SendNowTouches ==
  ASSUME TypeOK, TablesInv, NEW c \in Clients, Live(c), NEW o, Edited(c, o), o.wbuf = 0,
         SendNow(c, [o EXCEPT !.idle = FALSE])
  PROVE  Touches(c) /\ Carries(c, o)
<1> DEFINE p == [o EXCEPT !.idle = FALSE]
           q == [p EXCEPT !.wbuf = 1]
           r == [p EXCEPT !.wbuf = 1, !.wreg = TRUE]
<1>1. /\ p \in Obj /\ q \in Obj /\ r \in Obj /\ p.fd = o.fd /\ q.fd = o.fd /\ r.fd = o.fd
      /\ p.wbuf = 0 /\ p.closeReq = o.closeReq /\ p.canceled = o.canceled /\ r.canceled = o.canceled
  <2>1. 1 \in 0..MaxWrite
    BY BufferAssumption
  <2> QED
    BY <2>1 DEF Edited, Obj
<1>2. /\ p.handler = o.handler /\ p.pend = o.pend /\ p.rbuf = o.rbuf
      /\ q.handler = o.handler /\ q.pend = o.pend /\ q.rbuf = o.rbuf
      /\ r.handler = o.handler /\ r.pend = o.pend /\ r.rbuf = o.rbuf
  BY DEF Edited, Obj
<1>3. /\ conn \in [Clients -> Obj] /\ sock \in [Clients -> Sock]
      /\ epoll \in [Fds -> Entry] /\ fdEvents \in [Fds -> SUBSET {"IN", "OUT"}]
  BY DEF TypeOK, KernelTypeOK, ConnTypeOK, Obj, Sock, Entry
<1>4. CASE sock[c].peer = "rst" /\ FailClose(c, q)
  <2>1. Touches(c) /\ Carries(c, q)
    BY <1>1, <1>4, FailCloseTouches DEF Edited
  <2> QED
    BY <1>2, <2>1 DEF Carries
<1>5. CASE /\ sock[c].peer # "rst" /\ sock[c].space > 0
           /\ sock' = [sock EXCEPT ![c].space = @ - 1]
           /\ Set(c, p) /\ UNCHANGED <<epoll, fdEvents, pendingClose>>
  <2>1. conn' = [conn EXCEPT ![c] = p] /\ conn'[c] = p
    BY <1>3, <1>5 DEF Set
  <2>2. [sock[c] EXCEPT !.space = @ - 1] \in Sock
    <3>1. sock[c] \in Sock
      BY <1>3
    <3>2. sock[c].space - 1 \in 0..SockCap
      BY <1>5, <3>1, KernelAssumption DEF Sock
    <3> QED
      BY <3>1, <3>2 DEF Sock
  <2>3. Others(c)
    BY <1>1, <1>3, <1>5, <2>1, <2>2 DEF Others
  <2>4. sock'[c].peer = sock[c].peer /\ sock'[c].rcvq = sock[c].rcvq
    BY <1>3, <1>5 DEF Sock
  <2>5. Keeps(c)
    BY <1>1, <1>3, <1>5, <2>1, <2>4, LiveOwns DEF Keeps, InDebt, OutDebt, HupDebt, FinDebt, Unarmed, Live, Edited
  <2> QED
    BY <1>2, <2>1, <2>3, <2>5 DEF Touches, Carries
<1>6. CASE /\ sock[c].peer # "rst" /\ sock[c].space = 0
           /\ Set(c, r) /\ add_write_event(p.fd) /\ UNCHANGED <<sock, pendingClose>>
  <2> DEFINE ev == fdEvents[o.fd] \cup {"OUT"}
  <2>1. o.fd = conn[c].fd /\ o.fd \in Fds /\ "IN" \in fdEvents[o.fd]
    BY LiveOwns DEF Edited
  <2>2. ev \in SUBSET {"IN", "OUT"} /\ "IN" \in ev /\ "OUT" \in ev /\ SetInterest(r.fd, ev)
    BY <1>1, <1>3, <1>6, <2>1 DEF add_write_event
  <2>3. r.canceled = conn[c].canceled /\ r.fd = conn[c].fd
    BY <1>1 DEF Edited
  <2> HIDE DEF r
  <2>4. Touches(c) /\ conn'[c] = r
    BY <1>1, <1>3, <1>6, <2>2, <2>3, WatchPays
  <2> QED
    BY <1>2, <2>4 DEF Carries
<1> QED
  BY <1>4, <1>5, <1>6 DEF SendNow

LEMMA SendTouches ==
  ASSUME TypeOK, TablesInv, NEW c \in Clients, NEW o, Edited(c, o), send_data(c, o)
  PROVE  Touches(c) /\ Carries(c, o)
<1>1. CASE o.fd = NoFd \/ o.closeReq
  BY <1>1, SetTouches DEF send_data, Carries
<1>2. CASE ~(o.fd = NoFd \/ o.closeReq)
  <2> DEFINE p == [o EXCEPT !.idle = FALSE]
  <2>0. Live(c) /\ o \in Obj /\ p \in Obj /\ p.fd = conn[c].fd
    BY <1>2 DEF Edited, Live, Obj
  <2>1. CASE o.wbuf + 1 > MaxWrite /\ FailClose(c, o)
    BY <2>0, <2>1, FailCloseTouches DEF Edited
  <2>2. CASE /\ o.wbuf + 1 <= MaxWrite /\ o.wbuf > 0
             /\ Set(c, [o EXCEPT !.wbuf = @ + 1, !.idle = FALSE])
             /\ UNCHANGED <<sock, epoll, fdEvents, pendingClose>>
    <3> DEFINE q == [o EXCEPT !.wbuf = @ + 1, !.idle = FALSE]
    <3>1. /\ q \in Obj /\ q.fd = conn[c].fd /\ q.canceled = conn[c].canceled /\ q.closeReq = conn[c].closeReq
          /\ q.handler = o.handler /\ q.pend = o.pend /\ q.rbuf = o.rbuf /\ conn[c].wbuf > 0
      <4>1. o.wbuf + 1 \in 0..MaxWrite
        BY <2>2, BufferAssumption DEF Edited, Obj
      <4> QED
        BY <2>2, <4>1 DEF Edited, Obj
    <3>2. conn \in [Clients -> Obj] /\ sock \in [Clients -> Sock] /\ epoll \in [Fds -> Entry]
          /\ fdEvents \in [Fds -> SUBSET {"IN", "OUT"}]
      BY DEF TypeOK, KernelTypeOK, ConnTypeOK, Obj, Sock, Entry
    <3>3. conn' = [conn EXCEPT ![c] = q] /\ conn'[c] = q
      BY <2>2, <3>2 DEF Set
    <3>4. Others(c)
      BY <2>2, <3>1, <3>2, <3>3 DEF Others
    <3>5. Keeps(c)
      BY <2>2, <3>1, <3>3, LiveOwns, <2>0 DEF Keeps, InDebt, OutDebt, HupDebt, FinDebt, Unarmed, Live
    <3> QED
      BY <3>1, <3>3, <3>4, <3>5 DEF Touches, Carries
  <2>3. CASE o.wbuf = 0 /\ SendNow(c, p)
    BY <2>0, <2>3, SendNowTouches DEF Edited, Obj
  <2> QED
    BY <1>2, <2>1, <2>2, <2>3 DEF send_data
<1> QED
  BY <1>1, <1>2

LEMMA RequestCloseTouches ==
  ASSUME TypeOK, TablesInv, NEW c \in Clients, request_close(c)
  PROVE  Touches(c) /\ Carries(c, conn[c]) /\ (conn'[c].closeReq \/ conn'[c].fd = NoFd)
<1> DEFINE o == [conn[c] EXCEPT !.closeReq = TRUE]
           r == [o EXCEPT !.wreg = TRUE]
<1>1. /\ conn \in [Clients -> Obj] /\ sock \in [Clients -> Sock]
      /\ epoll \in [Fds -> Entry] /\ fdEvents \in [Fds -> SUBSET {"IN", "OUT"}]
  BY DEF TypeOK, KernelTypeOK, ConnTypeOK, Obj, Sock, Entry
<1>2. /\ o \in Obj /\ r \in Obj /\ o.fd = conn[c].fd /\ r.fd = conn[c].fd /\ r.canceled = conn[c].canceled
      /\ o.wbuf = conn[c].wbuf /\ r.closeReq
      /\ o.handler = conn[c].handler /\ o.pend = conn[c].pend /\ o.rbuf = conn[c].rbuf
      /\ r.handler = conn[c].handler /\ r.pend = conn[c].pend /\ r.rbuf = conn[c].rbuf
  BY <1>1 DEF Obj
<1>3. CASE conn[c].fd = NoFd \/ conn[c].closeReq
  <2>1. UNCHANGED ioVars
    BY <1>3 DEF request_close
  <2> QED
    BY <1>1, <1>3, <2>1, LiveOwns
    DEF ioVars, Touches, Others, Keeps, Carries, InDebt, OutDebt, HupDebt, FinDebt, Unarmed, Live
<1>4. CASE ~(conn[c].fd = NoFd \/ conn[c].closeReq)
  <2>1. Live(c)
    BY <1>4 DEF Live
  <2>2. CASE o.wbuf = 0
    <3>1. FailClose(c, o)
      BY <1>4, <2>2 DEF request_close
    <3>2. Touches(c) /\ Closes(c) /\ Carries(c, o)
      BY <1>2, <2>1, <3>1, FailCloseTouches
    <3> QED
      BY <1>2, <3>2 DEF Carries, Closes
  <2>3. CASE o.wbuf # 0
    <3> DEFINE ev == fdEvents[conn[c].fd] \cup {"OUT"}
    <3>1. Set(c, r) /\ add_write_event(o.fd) /\ UNCHANGED <<sock, pendingClose>>
      BY <1>4, <2>3 DEF request_close
    <3>2. conn[c].fd \in Fds /\ "IN" \in fdEvents[conn[c].fd]
      BY <2>1, LiveOwns
    <3>3. ev \in SUBSET {"IN", "OUT"} /\ "IN" \in ev /\ "OUT" \in ev /\ SetInterest(r.fd, ev)
      BY <1>1, <1>2, <3>1, <3>2 DEF add_write_event
    <3>4. Touches(c) /\ conn'[c] = r
      BY <1>1, <1>2, <2>1, <3>1, <3>2, <3>3, WatchPays
    <3> QED
      BY <1>2, <3>4 DEF Carries
  <2> QED
    BY <2>2, <2>3
<1> QED
  BY <1>3, <1>4

(* handle_write leaves nothing that could be sent.                         *)
LEMMA HandleWriteTouches ==
  ASSUME TypeOK, TablesInv, NEW c \in Clients, handle_write(c)
  PROVE  Touches(c) /\ Carries(c, conn[c]) /\ ~OutDebt(c)'
<1> DEFINE o == conn[c]
           f == conn[c].fd
<1>1. /\ conn \in [Clients -> Obj] /\ sock \in [Clients -> Sock]
      /\ epoll \in [Fds -> Entry] /\ fdEvents \in [Fds -> SUBSET {"IN", "OUT"}]
  BY DEF TypeOK, KernelTypeOK, ConnTypeOK, Obj, Sock, Entry
<1>2. o \in Obj
  BY <1>1
<1>3. UNCHANGED ioVars => Touches(c) /\ Carries(c, o)
  BY <1>1, LiveOwns DEF ioVars, Touches, Others, Keeps, Carries, InDebt, OutDebt, HupDebt, FinDebt, Unarmed, Live
<1>4. CASE f = NoFd
  <2>1. UNCHANGED ioVars
    BY <1>4 DEF handle_write
  <2> QED
    BY <1>3, <1>4, <2>1 DEF ioVars, OutDebt, Unarmed, Live
<1>5. CASE f # NoFd
  <2>1. Live(c) /\ f \in Fds /\ epoll[f].owner = c /\ "IN" \in fdEvents[f]
    BY <1>5, LiveOwns DEF Live
  <2> DEFINE ev == fdEvents[f] \ {"OUT"}
  <2>2. ev \in SUBSET {"IN", "OUT"} /\ "IN" \in ev
    BY <1>1, <2>1
  <2>3. CASE o.wbuf = 0
    <3> DEFINE r == [o EXCEPT !.wreg = FALSE]
    <3>1. r \in Obj /\ r.fd = f /\ r.canceled = o.canceled /\ r.wbuf = 0
          /\ r.handler = o.handler /\ r.pend = o.pend /\ r.rbuf = o.rbuf
      BY <1>2, <2>3 DEF Obj
    <3>2. CASE o.wreg
      <4>1. Set(c, r) /\ remove_write_event(f) /\ UNCHANGED <<sock, pendingClose>>
        BY <1>5, <2>3, <3>2 DEF handle_write
      <4>2. SetInterest(r.fd, ev)
        BY <3>1, <4>1 DEF remove_write_event
      <4>3. Touches(c) /\ conn'[c] = r /\ ~OutDebt(c)'
        BY <1>1, <2>1, <2>2, <3>1, <4>1, <4>2, WatchPays
      <4> QED
        BY <3>1, <4>3 DEF Carries
    <3>3. CASE ~o.wreg
      <4>1. UNCHANGED ioVars
        BY <1>5, <2>3, <3>3 DEF handle_write
      <4> QED
        BY <1>3, <2>1, <2>3, <4>1 DEF ioVars, OutDebt, Unarmed, Live
    <3> QED
      BY <3>2, <3>3
  <2>4. CASE o.wbuf # 0 /\ sock[c].peer = "rst"
    <3>1. FailClose(c, o)
      BY <1>5, <2>4 DEF handle_write
    <3>2. Touches(c) /\ Closes(c) /\ Carries(c, o)
      BY <1>2, <2>1, <3>1, FailCloseTouches
    <3> QED
      BY <3>2 DEF Closes, OutDebt, Unarmed, Live
  <2>5. CASE o.wbuf # 0 /\ sock[c].peer # "rst" /\ sock[c].space = 0
    <3>1. UNCHANGED ioVars
      BY <1>5, <2>5 DEF handle_write
    <3> QED
      BY <1>3, <2>1, <2>5, <3>1 DEF ioVars, OutDebt, Unarmed, Live
  <2>6. CASE o.wbuf # 0 /\ sock[c].peer # "rst" /\ sock[c].space # 0
    <3>0. o.wbuf \in Nat /\ sock[c].space \in 0..SockCap /\ SockCap \in Nat
      BY <1>1, <1>2, KernelAssumption DEF Obj, Sock
    <3> DEFINE n == [o EXCEPT !.wbuf = 0, !.wreg = FALSE, !.idle = FALSE]
    <3>1. /\ n \in Obj /\ n.fd = f /\ n.canceled = o.canceled /\ n.wbuf = 0 /\ n.closeReq = o.closeReq
          /\ n.handler = o.handler /\ n.pend = o.pend /\ n.rbuf = o.rbuf
      <4>1. 0 \in 0..MaxWrite
        BY BufferAssumption
      <4> QED
        BY <1>2, <4>1 DEF Obj
    <3>2. CASE o.wbuf <= sock[c].space /\ o.closeReq
      <4>1. /\ close_connection(c, n) /\ pendingClose' = pendingClose \cup {n.fd}
            /\ fdEvents' = [fdEvents EXCEPT ![n.fd] = @ \ {"OUT"}]
        BY <1>5, <2>6, <3>1, <3>2 DEF handle_write, WriteAll
      <4>2. Touches(c) /\ Closes(c) /\ Carries(c, n)
        BY <1>1, <2>1, <3>1, <4>1, CloseTouches
      <4> QED
        BY <3>1, <4>2 DEF Closes, OutDebt, Unarmed, Live, Carries
    <3>3. CASE o.wbuf <= sock[c].space /\ ~o.closeReq
      <4>1. /\ sock' = [sock EXCEPT ![c].space = @ - o.wbuf] /\ Set(c, n)
            /\ IF o.wreg THEN remove_write_event(o.fd) ELSE UNCHANGED <<epoll, fdEvents>>
            /\ UNCHANGED pendingClose
        BY <1>5, <2>6, <3>3 DEF handle_write, WriteAll
      <4>2. [sock[c] EXCEPT !.space = @ - o.wbuf] \in Sock
        <5>1. sock[c].space - o.wbuf \in 0..SockCap
          BY <3>0, <3>3
        <5> QED
          BY <1>1, <5>1 DEF Sock
      <4>3. /\ sock' \in [Clients -> Sock] /\ \A d \in Clients \ {c} : sock'[d] = sock[d]
            /\ sock'[c].peer = sock[c].peer /\ sock'[c].rcvq = sock[c].rcvq
        BY <1>1, <4>1, <4>2 DEF Sock
      <4>4. CASE o.wreg
        <5>1. SetInterest(n.fd, ev)
          BY <3>1, <4>1, <4>4 DEF remove_write_event
        <5> HIDE DEF n
        <5>2. Touches(c) /\ conn'[c] = n /\ ~OutDebt(c)'
          BY <2>1, <2>2, <3>1, <4>1, <4>3, <5>1, WatchPays
        <5> QED
          BY <3>1, <5>2 DEF Carries
      <4>5. CASE ~o.wreg
        <5>1. conn' = [conn EXCEPT ![c] = n] /\ conn'[c] = n /\ UNCHANGED <<epoll, fdEvents, pendingClose>>
          BY <1>1, <4>1, <4>5 DEF Set
        <5> HIDE DEF n
        <5>2. Others(c)
          BY <1>1, <3>1, <4>3, <5>1 DEF Others
        <5>3. Keeps(c)
          BY <3>1, <4>3, <5>1, LiveOwns DEF Keeps, InDebt, OutDebt, HupDebt, FinDebt, Unarmed, Live
        <5> QED
          BY <2>1, <3>1, <5>1, <5>2, <5>3 DEF Touches, Carries, OutDebt, Unarmed, Live
      <4> QED
        BY <4>4, <4>5
    <3>4. CASE ~(o.wbuf <= sock[c].space)
      <4> DEFINE m == [o EXCEPT !.wbuf = @ - sock[c].space, !.idle = FALSE]
      <4>1. sock' = [sock EXCEPT ![c].space = 0] /\ Set(c, m) /\ UNCHANGED <<epoll, fdEvents, pendingClose>>
        BY <1>5, <2>6, <3>4 DEF handle_write, WritePart
      <4>2. /\ m \in Obj /\ m.fd = f /\ m.canceled = o.canceled /\ m.closeReq = o.closeReq
            /\ m.handler = o.handler /\ m.pend = o.pend /\ m.rbuf = o.rbuf
        <5>1. o.wbuf - sock[c].space \in 0..MaxWrite
          BY <1>2, <3>0, <3>4, BufferAssumption DEF Obj
        <5> QED
          BY <1>2, <5>1 DEF Obj
      <4>3. [sock[c] EXCEPT !.space = 0] \in Sock
        <5>1. 0 \in 0..SockCap
          BY KernelAssumption
        <5> QED
          BY <1>1, <5>1 DEF Sock
      <4>4. /\ conn' = [conn EXCEPT ![c] = m] /\ conn'[c] = m
            /\ sock'[c].peer = sock[c].peer /\ sock'[c].rcvq = sock[c].rcvq /\ sock'[c].space = 0
        BY <1>1, <4>1 DEF Set, Sock
      <4>5. Others(c)
        BY <1>1, <4>1, <4>2, <4>3, <4>4 DEF Others
      <4>6. Keeps(c) /\ ~OutDebt(c)'
        BY <2>1, <2>6, <4>1, <4>2, <4>4, LiveOwns DEF Keeps, InDebt, OutDebt, HupDebt, FinDebt, Unarmed, Live
      <4> QED
        BY <4>2, <4>4, <4>5, <4>6 DEF Touches, Carries
    <3> QED
      BY <3>2, <3>3, <3>4
  <2> QED
    BY <2>3, <2>4, <2>5, <2>6
<1> QED
  BY <1>4, <1>5

----------------------------------------------------------------------------
(* The steps of the loop by what they do to the tables.                    *)

Inv == TypeOK /\ ControlInv /\ TablesInv

(* No agent is started, or only c's, which is in the table.                *)
StartsOnly(c) ==
  \A d \in Clients : agent'[d].st = "running" => agent[d].st = "running" \/ (d = c /\ Registered(c))

TouchStep(c) ==
  /\ Touches(c) /\ Len(conn'[c].rbuf) <= MaxRead
  /\ StartsOnly(c) /\ UNCHANGED <<connections, backlog>>

LEMMA TouchesType ==
  ASSUME TypeOK, NEW c \in Clients, TouchStep(c)
  PROVE  /\ KernelTypeOK' = (listenArmed' \in BOOLEAN /\ eventfd' \in BOOLEAN)
         /\ ConnTypeOK'
<1>1. \A d \in Clients : Len(sock'[d].rcvq) <= MaxInFlight /\ Len(conn'[d].rbuf) <= MaxRead
  <2>1. ASSUME NEW d \in Clients \ {c} PROVE Len(sock'[d].rcvq) <= MaxInFlight /\ Len(conn'[d].rbuf) <= MaxRead
    BY DEF TouchStep, Touches, Others, TypeOK, KernelTypeOK, ConnTypeOK
  <2>2. CASE Keeps(c)
    <3>1. /\ Len(sock[c].rcvq) \in Nat /\ Len(sock'[c].rcvq) \in Nat /\ MaxInFlight \in Nat
          /\ Len(sock[c].rcvq) <= MaxInFlight
      BY KernelAssumption, LenProperties DEF TypeOK, KernelTypeOK, TouchStep, Touches, Others, Sock
    <3>2. Len(sock'[c].rcvq) <= MaxInFlight
      BY <2>2, <3>1 DEF Keeps
    <3> QED
      BY <2>1, <3>2 DEF TouchStep
  <2>3. CASE Closes(c)
    <3>1. Len(sock'[c].rcvq) = 0
      BY <2>3 DEF Closes, ClosedSocket
    <3> QED
      BY <2>1, <3>1, KernelAssumption DEF TouchStep
  <2> QED
    BY <2>2, <2>3 DEF TouchStep, Touches
<1>2. pendingClose' \subseteq Fds
  BY LiveOwns DEF TouchStep, Touches, Keeps, Closes, Live, TypeOK, ConnTypeOK
<1>3. backlog' \subseteq Clients
  BY DEF TouchStep, TypeOK, KernelTypeOK
<1> QED
  BY <1>1, <1>2, <1>3 DEF TouchStep, Touches, Others, KernelTypeOK, ConnTypeOK, Obj, Sock, Entry

LEMMA TouchesKeepTables ==
  ASSUME TypeOK, TablesInv, NEW c \in Clients, TouchStep(c)
  PROVE  TablesInv'
<1>0. /\ conn \in [Clients -> Obj] /\ sock \in [Clients -> Sock] /\ epoll \in [Fds -> Entry]
      /\ connections \in [Fds -> Clients \cup {NoConn}] /\ NoConn \notin Clients /\ NoFd \notin Fds
      /\ connections' = connections /\ backlog' = backlog /\ Others(c)
  BY KernelAssumption
  DEF TypeOK, KernelTypeOK, ConnTypeOK, Obj, Sock, Entry, TouchStep, Touches
<1>1. \A d \in Clients : agent'[d].st = "running" /\ ~Live(d)' => conn'[d].canceled
  <2>1. ASSUME NEW d \in Clients, agent'[d].st = "running", ~Live(d)' PROVE conn'[d].canceled
    <3>1. CASE Closes(c) /\ d = c
      BY <3>1 DEF Closes
    <3>2. CASE Keeps(c) \/ d # c
      <4>1. conn'[d].fd = conn[d].fd /\ conn'[d].canceled = conn[d].canceled
        BY <1>0, <3>2 DEF Keeps, Others
      <4>2. ~Live(d)
        BY <2>1, <4>1 DEF Live
      <4>3. agent[d].st = "running" \/ Registered(d)
        BY <2>1 DEF TouchStep, StartsOnly
      <4> QED
        BY <1>0, <4>1, <4>2, <4>3 DEF TablesInv, Registered
    <3> QED
      BY <3>1, <3>2 DEF TouchStep, Touches
  <2> QED
    BY <2>1
<1>2. CASE Keeps(c)
  <2>1. \A d \in Clients : conn'[d].fd = conn[d].fd /\ conn'[d].canceled = conn[d].canceled
                           /\ sock'[d].peer = sock[d].peer
    BY <1>0, <1>2 DEF Keeps, Others
  <2>2. \A g \in Fds : /\ epoll'[g].owner = epoll[g].owner
                       /\ epoll[g].owner # NoConn => fdEvents'[g] = epoll'[g].interest /\ "IN" \in epoll'[g].interest
                       /\ epoll[g].owner = NoConn => epoll'[g] = epoll[g]
    <3>1. ASSUME NEW g \in Fds, g # conn[c].fd
          PROVE /\ epoll'[g].owner = epoll[g].owner
                /\ epoll[g].owner # NoConn => fdEvents'[g] = epoll'[g].interest /\ "IN" \in epoll'[g].interest
                /\ epoll[g].owner = NoConn => epoll'[g] = epoll[g]
      BY <1>0, <3>1 DEF Others, TablesInv
    <3>2. ASSUME NEW g \in Fds, g = conn[c].fd
          PROVE /\ epoll'[g].owner = epoll[g].owner /\ epoll[g].owner # NoConn
                /\ fdEvents'[g] = epoll'[g].interest /\ "IN" \in epoll'[g].interest
      <4>1. Live(c)
        BY <1>0, <3>2 DEF Live
      <4> QED
        BY <1>0, <1>2, <3>2, <4>1, LiveOwns DEF Keeps
    <3> QED
      BY <3>1, <3>2
  <2>3. \A g \in Fds : epoll[g].owner # NoConn => epoll[g].owner \in Clients
    BY <1>0 DEF Entry
  <2>4. \A g \in Fds : connections[g] # NoConn => connections[g] \in Clients
    BY <1>0
  <2>5. \A g \in Fds : epoll'[g].owner # NoConn =>
          /\ connections'[g] = epoll'[g].owner /\ conn'[epoll'[g].owner].fd = g
          /\ fdEvents'[g] = epoll'[g].interest /\ "IN" \in epoll'[g].interest
    BY <1>0, <2>1, <2>2, <2>3 DEF TablesInv
  <2>6. \A d \in Clients : Live(d)' => epoll'[conn'[d].fd].owner = d
    <3>1. ASSUME NEW d \in Clients, Live(d)' PROVE epoll'[conn'[d].fd].owner = d
      <4>1. conn'[d].fd = conn[d].fd /\ Live(d) /\ conn[d].fd \in Fds
        BY <1>0, <2>1, <3>1 DEF Live, Obj
      <4> QED
        BY <2>2, <4>1 DEF TablesInv
    <3> QED
      BY <3>1
  <2>7. \A d \in Clients : /\ d \in backlog' => sock'[d].peer # "off"
                           /\ d \in backlog' \/ sock'[d].peer = "off" => ~Live(d)' /\ ~Registered(d)'
    BY <1>0, <2>1 DEF TablesInv, Live, Registered
  <2>8. \A g \in Fds : connections'[g] # NoConn /\ ~(conn'[connections'[g]].fd # NoFd) =>
          g \in pendingClose' /\ conn'[connections'[g]].canceled
    BY <1>0, <1>2, <2>1, <2>4 DEF TablesInv, Keeps, Live
  <2>9. \A g \in Fds : epoll'[g].owner = NoConn => ~epoll'[g].armed
    BY <2>2 DEF TablesInv
  <2> QED
    BY <1>0, <1>1, <2>5, <2>6, <2>7, <2>8, <2>9 DEF TablesInv, Live
<1>3. CASE Closes(c)
  <2> DEFINE f == conn[c].fd
  <2>1. /\ Live(c) /\ f \in Fds /\ epoll[f].owner = c /\ connections[f] = c
        /\ \A g \in Fds : epoll[g].owner = c => g = f
    BY <1>3, LiveOwns DEF Closes
  <2>2. /\ conn'[c].fd = NoFd /\ conn'[c].canceled /\ f \in pendingClose' /\ pendingClose \subseteq pendingClose'
        /\ epoll'[f].owner = NoConn /\ ~epoll'[f].armed /\ sock'[c].peer # "off" /\ sock[c].peer # "off"
    BY <1>3, <2>1 DEF Closes, FreeFd, ClosedSocket, TablesInv
  <2>3. \A d \in Clients \ {c} : /\ conn'[d] = conn[d] /\ sock'[d] = sock[d]
                                 /\ conn[d].fd # f
    BY <1>0, <2>1 DEF Others, TablesInv, Live
  <2>4. \A g \in Fds \ {f} : epoll'[g] = epoll[g] /\ fdEvents'[g] = fdEvents[g]
    BY <1>0 DEF Others
  <2> HIDE DEF f
  <2>5. \A g \in Fds : epoll'[g].owner # NoConn =>
          /\ connections'[g] = epoll'[g].owner /\ conn'[epoll'[g].owner].fd = g
          /\ fdEvents'[g] = epoll'[g].interest /\ "IN" \in epoll'[g].interest
    <3>1. ASSUME NEW g \in Fds, epoll'[g].owner # NoConn
          PROVE g # f /\ epoll'[g] = epoll[g] /\ fdEvents'[g] = fdEvents[g]
                /\ epoll[g].owner \in Clients \ {c}
      BY <1>0, <2>1, <2>2, <2>4, <3>1 DEF Entry
    <3> QED
      BY <1>0, <2>3, <3>1 DEF TablesInv
  <2>6. \A d \in Clients : Live(d)' => d # c /\ epoll'[conn'[d].fd].owner = d
    <3>1. ASSUME NEW d \in Clients, Live(d)' PROVE d # c /\ epoll'[conn'[d].fd].owner = d
      <4>1. d # c /\ conn'[d] = conn[d] /\ Live(d) /\ conn[d].fd \in Fds \ {f}
        BY <1>0, <2>2, <2>3, <3>1 DEF Live, Obj
      <4> QED
        BY <2>4, <4>1 DEF TablesInv
    <3> QED
      BY <3>1
  <2>7. \A d \in Clients : d \in backlog' \/ sock'[d].peer = "off" => ~Live(d)' /\ ~Registered(d)'
    <3>1. ASSUME NEW d \in Clients, d \in backlog' \/ sock'[d].peer = "off"
          PROVE  ~Live(d)' /\ ~Registered(d)'
      <4>1. d # c /\ conn'[d] = conn[d] /\ sock'[d] = sock[d]
        BY <1>0, <2>1, <2>2, <2>3, <3>1 DEF TablesInv
      <4> QED
        BY <1>0, <3>1, <4>1 DEF TablesInv, Live, Registered
    <3> QED
      BY <3>1
  <2>8. \A g \in Fds : connections'[g] # NoConn /\ ~(conn'[connections'[g]].fd # NoFd) =>
          g \in pendingClose' /\ conn'[connections'[g]].canceled
    <3>1. ASSUME NEW g \in Fds, connections[g] # NoConn, conn'[connections[g]].fd = NoFd
          PROVE  g \in pendingClose' /\ conn'[connections[g]].canceled
      <4>1. CASE connections[g] = c
        BY <1>0, <2>1, <2>2, <3>1, <4>1 DEF TablesInv
      <4>2. CASE connections[g] # c
        BY <1>0, <2>2, <2>3, <3>1, <4>2 DEF TablesInv, Live
      <4> QED
        BY <4>1, <4>2
    <3> QED
      BY <1>0, <3>1
  <2>9. \A g \in Fds : epoll'[g].owner = NoConn => ~epoll'[g].armed
    BY <2>2, <2>4 DEF TablesInv
  <2>10. \A d \in Clients : d \in backlog' => sock'[d].peer # "off"
    BY <1>0, <2>2, <2>3 DEF TablesInv
  <2> QED
    BY <1>0, <1>1, <2>5, <2>6, <2>7, <2>8, <2>9, <2>10 DEF TablesInv, Live
<1> QED
  BY <1>2, <1>3 DEF TouchStep, Touches

(* remove_connection: the object of f, alive or closed earlier, is gone,   *)
(* and so are its descriptor and its table entry.                          *)
Removes(f) ==
  LET c == connections[f] IN
  /\ c \in Clients /\ (Live(c) => conn[c].fd = f)
  /\ conn' \in [Clients -> Obj] /\ sock' \in [Clients -> Sock]
  /\ epoll' \in [Fds -> Entry] /\ fdEvents' \in [Fds -> SUBSET {"IN", "OUT"}]
  /\ connections' \in [Fds -> Clients \cup {NoConn}]
  /\ conn'[c] = Destroyed /\ connections'[f] = NoConn
  /\ epoll'[f].owner = NoConn /\ ~epoll'[f].armed
  /\ sock'[c] = ClosedSocket \/ sock'[c] = sock[c]
  /\ \A d \in Clients \ {c} : conn'[d] = conn[d] /\ sock'[d] = sock[d] /\ conn[d].fd # f
  /\ \A g \in Fds \ {f} : /\ epoll'[g] = epoll[g] /\ fdEvents'[g] = fdEvents[g]
                          /\ connections'[g] = connections[g] /\ connections[g] # c

LEMMA RemoveConnection ==
  ASSUME TypeOK, TablesInv, NEW f \in Fds, connections[f] # NoConn, remove_connection(f)
  PROVE  Removes(f)
<1> DEFINE c == connections[f]
<1>0. /\ conn \in [Clients -> Obj] /\ sock \in [Clients -> Sock] /\ epoll \in [Fds -> Entry]
      /\ fdEvents \in [Fds -> SUBSET {"IN", "OUT"}]
      /\ connections \in [Fds -> Clients \cup {NoConn}] /\ NoConn \notin Clients /\ NoFd \notin Fds
  BY KernelAssumption DEF TypeOK, KernelTypeOK, ConnTypeOK, Obj, Sock, Entry
<1>1. c \in Clients /\ \A g \in Fds \ {f} : connections[g] # c
  BY <1>0 DEF TablesInv
<1>2. \A d \in Clients : Live(d) => conn[d].fd \in Fds /\ connections[conn[d].fd] = d
  BY LiveOwns
<1>3. (Live(c) => conn[c].fd = f) /\ \A d \in Clients \ {c} : conn[d].fd # f
  BY <1>0, <1>1, <1>2 DEF Live
<1>4. Destroyed \in Obj /\ ClosedSocket \in Sock /\ FreeFd \in Entry
  <2>1. 0 \in 0..MaxWrite /\ 0 \in 0..SockCap /\ 0 \in Nat
    BY KernelAssumption, BufferAssumption
  <2>2. ClosedSocket \in Sock /\ FreeFd \in Entry
    BY <2>1, EmptySeq DEF ClosedSocket, FreeFd, Sock, Entry, Peers
  <2>3. Object(NoFd) \in Obj
    BY <2>1, EmptySeq DEF Object, Obj, Handlers
  <2> QED
    BY <2>2, <2>3 DEF Destroyed, Obj
<1>5. /\ connections' = [connections EXCEPT ![f] = NoConn] /\ fdEvents' = [fdEvents EXCEPT ![f] = {}]
      /\ conn' = [conn EXCEPT ![c] = Destroyed]
      /\ IF Live(c) THEN CloseFd(conn[c].fd) ELSE UNCHANGED <<sock, epoll>>
  BY DEF remove_connection
<1>6. CASE Live(c)
  <2>1. /\ sock' = [sock EXCEPT ![c] = ClosedSocket] /\ epoll' = [epoll EXCEPT ![f] = FreeFd]
        /\ FreeFd.owner = NoConn /\ ~FreeFd.armed
    BY <1>1, <1>3, <1>5, <1>6, LiveOwns DEF CloseFd, FreeFd
  <2> HIDE DEF c
  <2> QED
    BY <1>0, <1>1, <1>3, <1>4, <1>5, <2>1 DEF Removes, c
<1>7. CASE ~Live(c)
  <2>1. epoll[f].owner = NoConn /\ ~epoll[f].armed
    BY <1>0, <1>1, <1>7 DEF TablesInv, Live
  <2>2. UNCHANGED <<sock, epoll>>
    BY <1>5, <1>7
  <2> QED
    BY <1>0, <1>1, <1>3, <1>4, <1>5, <2>1, <2>2 DEF Removes
<1> QED
  BY <1>6, <1>7

StartsNone == \A d \in Clients : agent'[d].st = "running" => agent[d].st = "running"

(* What TypeOK says of the connections, when a step is known to keep it.   *)
WorldTypes ==
  /\ KernelTypeOK' = (listenArmed' \in BOOLEAN /\ eventfd' \in BOOLEAN)
  /\ ConnTypeOK' /\ connections' \in [Fds -> Clients \cup {NoConn}]

LEMMA RemovesKeepTables ==
  ASSUME TypeOK, TablesInv, NEW f \in Fds, connections[f] # NoConn, Removes(f),
         pendingClose \ {f} \subseteq pendingClose', pendingClose' \subseteq pendingClose \cup {f},
         UNCHANGED backlog, StartsNone
  PROVE  TablesInv' /\ WorldTypes
<1> DEFINE c == connections[f]
<1>0. /\ conn \in [Clients -> Obj] /\ sock \in [Clients -> Sock] /\ epoll \in [Fds -> Entry]
      /\ conn' \in [Clients -> Obj] /\ sock' \in [Clients -> Sock] /\ epoll' \in [Fds -> Entry]
      /\ fdEvents' \in [Fds -> SUBSET {"IN", "OUT"}] /\ backlog' = backlog
      /\ connections \in [Fds -> Clients \cup {NoConn}] /\ connections' \in [Fds -> Clients \cup {NoConn}]
      /\ NoConn \notin Clients /\ NoFd \notin Fds /\ c \in Clients
  BY KernelAssumption DEF TypeOK, KernelTypeOK, ConnTypeOK, Obj, Sock, Entry, Removes
<1>1. /\ conn'[c].fd = NoFd /\ conn'[c].canceled /\ Len(conn'[c].rbuf) = 0
      /\ sock'[c] = ClosedSocket \/ sock'[c] = sock[c]
      /\ epoll'[f].owner = NoConn /\ ~epoll'[f].armed /\ connections'[f] = NoConn
      /\ Live(c) => conn[c].fd = f
  BY DEF Removes, Destroyed, Object
<1>2. \A d \in Clients \ {c} : conn'[d] = conn[d] /\ sock'[d] = sock[d] /\ conn[d].fd # f
  BY DEF Removes
<1>3. \A g \in Fds \ {f} : /\ epoll'[g] = epoll[g] /\ fdEvents'[g] = fdEvents[g]
                           /\ connections'[g] = connections[g] /\ connections[g] # c
  BY DEF Removes
<1>4. sock[c].peer # "off" /\ c \notin backlog /\ sock'[c].peer # "off" /\ Len(sock'[c].rcvq) <= MaxInFlight
  <2>1. sock[c].peer # "off" /\ c \notin backlog
    BY <1>0 DEF TablesInv, Registered
  <2>2. Len(ClosedSocket.rcvq) <= MaxInFlight /\ ClosedSocket.peer # "off"
    BY KernelAssumption DEF ClosedSocket
  <2> QED
    BY <1>0, <1>1, <2>1, <2>2 DEF TypeOK, KernelTypeOK
<1> HIDE DEF c
<1>5. WorldTypes
  <2>1. \A d \in Clients : Len(sock'[d].rcvq) <= MaxInFlight /\ Len(conn'[d].rbuf) <= MaxRead
    <3>1. \A d \in Clients \ {c} : Len(sock'[d].rcvq) <= MaxInFlight /\ Len(conn'[d].rbuf) <= MaxRead
      BY <1>2 DEF TypeOK, KernelTypeOK, ConnTypeOK
    <3>2. Len(conn'[c].rbuf) <= MaxRead
      BY <1>1, BufferAssumption
    <3> QED
      BY <1>4, <3>1, <3>2
  <2>2. pendingClose' \subseteq Fds
    BY DEF TypeOK, ConnTypeOK
  <2>3. backlog' \subseteq Clients
    BY <1>0 DEF TypeOK, KernelTypeOK
  <2> QED
    BY <1>0, <2>1, <2>2, <2>3 DEF WorldTypes, KernelTypeOK, ConnTypeOK, Obj, Sock, Entry
<1>6. \A g \in Fds : epoll'[g].owner # NoConn =>
        /\ connections'[g] = epoll'[g].owner /\ conn'[epoll'[g].owner].fd = g
        /\ fdEvents'[g] = epoll'[g].interest /\ "IN" \in epoll'[g].interest
  <2>1. ASSUME NEW g \in Fds, epoll'[g].owner # NoConn
        PROVE  g # f /\ epoll'[g] = epoll[g] /\ epoll[g].owner \in Clients \ {c}
    BY <1>0, <1>1, <1>3, <2>1 DEF TablesInv, Entry
  <2> QED
    BY <1>2, <1>3, <2>1 DEF TablesInv
<1>7. \A d \in Clients : Live(d)' => epoll'[conn'[d].fd].owner = d
  <2>1. ASSUME NEW d \in Clients, Live(d)' PROVE epoll'[conn'[d].fd].owner = d
    <3>1. d # c /\ conn'[d] = conn[d] /\ Live(d) /\ conn[d].fd \in Fds \ {f}
      BY <1>0, <1>1, <1>2, <2>1 DEF Live, Obj
    <3> QED
      BY <1>3, <3>1 DEF TablesInv
  <2> QED
    BY <2>1
<1>8. \A g, h \in Fds : connections'[g] = connections'[h] /\ g # h => connections'[g] = NoConn
  BY <1>1, <1>3 DEF TablesInv
<1>9. \A d \in Clients : /\ d \in backlog' => sock'[d].peer # "off"
                         /\ d \in backlog' \/ sock'[d].peer = "off" => ~Live(d)' /\ ~Registered(d)'
  <2>1. ASSUME NEW d \in Clients, d # c
        PROVE  /\ d \in backlog' => sock'[d].peer # "off"
               /\ d \in backlog' \/ sock'[d].peer = "off" => ~Live(d)' /\ ~Registered(d)'
    BY <1>0, <1>1, <1>2, <1>3, <2>1 DEF TablesInv, Live, Registered
  <2> QED
    BY <1>0, <1>4, <2>1
<1>10. \A g \in Fds : connections'[g] # NoConn /\ ~(conn'[connections'[g]].fd # NoFd) =>
          g \in pendingClose' /\ conn'[connections'[g]].canceled
  <2>1. ASSUME NEW g \in Fds, connections'[g] # NoConn PROVE g # f /\ connections'[g] = connections[g]
          /\ conn'[connections[g]] = conn[connections[g]]
    BY <1>0, <1>1, <1>2, <1>3, <2>1
  <2> QED
    BY <2>1 DEF TablesInv, Live
<1>11. \A d \in Clients : agent'[d].st = "running" /\ ~Live(d)' => conn'[d].canceled
  BY <1>1, <1>2 DEF TablesInv, Live, StartsNone
<1>12. \A g \in Fds : epoll'[g].owner = NoConn => ~epoll'[g].armed
  BY <1>1, <1>3 DEF TablesInv
<1> QED
  BY <1>5, <1>6, <1>7, <1>8, <1>9, <1>10, <1>11, <1>12 DEF TablesInv, Live

(* A step that touches none of it, except for edges that are delivered and *)
(* deferred closes of descriptors that are not in the table.               *)
QuietStep ==
  /\ UNCHANGED <<sock, conn, fdEvents, connections, backlog>> /\ StartsNone
  /\ epoll' \in [Fds -> Entry]
  /\ \A f \in Fds : /\ epoll'[f].owner = epoll[f].owner /\ epoll'[f].interest = epoll[f].interest
                    /\ epoll'[f].armed => epoll[f].armed
  /\ pendingClose' \subseteq Fds
  /\ \A f \in pendingClose : connections[f] # NoConn => f \in pendingClose'

LEMMA QuietKeepsTables ==
  ASSUME TypeOK, TablesInv, QuietStep
  PROVE  TablesInv' /\ WorldTypes
<1>1. WorldTypes
  BY DEF QuietStep, WorldTypes, TypeOK, KernelTypeOK, ConnTypeOK, Entry
<1>2. TablesInv'
  <2>1. UNCHANGED <<sock, conn, fdEvents, connections, backlog>> /\ StartsNone
    BY DEF QuietStep
  <2>2. \A f \in Fds : /\ epoll'[f].owner = epoll[f].owner /\ epoll'[f].interest = epoll[f].interest
                       /\ epoll'[f].armed => epoll[f].armed
    BY DEF QuietStep
  <2>3. \A c \in Clients : Live(c) => conn[c].fd \in Fds
    BY LiveOwns
  <2>4. \A f \in Fds : connections[f] # NoConn /\ ~Live(connections[f]) =>
           f \in pendingClose' /\ conn[connections[f]].canceled
    BY DEF QuietStep, TablesInv
  <2> QED
    BY <2>1, <2>2, <2>3, <2>4 DEF TablesInv, Live, Registered, StartsNone
<1> QED
  BY <1>1, <1>2

----------------------------------------------------------------------------
(* accept and the peers.                                                   *)

LEMMA RejectKeepsTables ==
  ASSUME TypeOK, TablesInv, NEW c \in Clients, AcceptReject(c)
  PROVE  TablesInv' /\ WorldTypes
<1>1. /\ c \in backlog /\ backlog' = backlog \ {c} /\ sock' = [sock EXCEPT ![c] = ClosedSocket]
      /\ UNCHANGED <<epoll, conn, fdEvents, pendingClose, connections, agent>>
  BY DEF AcceptReject, tableVars, agentVars
<1>2. sock \in [Clients -> Sock]
  BY DEF TypeOK, KernelTypeOK, Sock
<1>3. /\ ClosedSocket \in Sock /\ ClosedSocket.peer # "off" /\ Len(ClosedSocket.rcvq) <= MaxInFlight
  BY KernelAssumption, EmptySeq DEF ClosedSocket, Sock, Peers
<1>4. /\ \A d \in Clients : sock'[d] = IF d = c THEN ClosedSocket ELSE sock[d]
      /\ sock' \in [Clients -> Sock]
  BY <1>1, <1>2, <1>3
<1>5. WorldTypes
  BY <1>1, <1>3, <1>4 DEF WorldTypes, TypeOK, KernelTypeOK, ConnTypeOK, Sock
<1>6. TablesInv'
  <2>1. \A d \in Clients : /\ d \in backlog' => sock'[d].peer # "off"
                           /\ d \in backlog' \/ sock'[d].peer = "off" => ~Live(d) /\ ~Registered(d)
    BY <1>1, <1>3, <1>4 DEF TablesInv
  <2> QED
    BY <1>1, <2>1 DEF TablesInv, Live, Registered
<1> QED
  BY <1>5, <1>6

(* A new object under a free descriptor; what the table held there is a    *)
(* closed object, destroyed by the assignment.                             *)
LEMMA RegisterKeepsTables ==
  ASSUME TypeOK, TablesInv, NEW c \in Clients, NEW f \in Fds, AcceptRegister(c, f)
  PROVE  /\ TablesInv' /\ WorldTypes
         /\ conn' \in [Clients -> Obj] /\ epoll' \in [Fds -> Entry] /\ sock' = sock
         /\ ~Live(c) /\ ~Registered(c) /\ connections[f] # c /\ epoll[f].owner = NoConn
         /\ (connections[f] # NoConn => ~Live(connections[f]))
         /\ conn'[c] = Object(f) /\ (connections[f] # NoConn => conn'[connections[f]] = Destroyed)
         /\ \A d \in Clients \ {c, connections[f]} : conn'[d] = conn[d]
         /\ epoll'[f].armed = (Ready(c) \cap {"IN", "HUP"} # {})
         /\ \A g \in Fds \ {f} : epoll'[g] = epoll[g] /\ conn[c].fd # g
<1> DEFINE old == connections[f]
<1>0. /\ conn \in [Clients -> Obj] /\ sock \in [Clients -> Sock] /\ epoll \in [Fds -> Entry]
      /\ fdEvents \in [Fds -> SUBSET {"IN", "OUT"}]
      /\ connections \in [Fds -> Clients \cup {NoConn}] /\ NoConn \notin Clients /\ NoFd \notin Fds
  BY KernelAssumption DEF TypeOK, KernelTypeOK, ConnTypeOK, Obj, Sock, Entry
<1>1. /\ c \in backlog /\ epoll[f].owner = NoConn /\ backlog' = backlog \ {c}
      /\ epoll' = [epoll EXCEPT ![f] = [owner |-> c, interest |-> {"IN"},
                     armed |-> Ready(c) \cap ({"IN"} \cup {"HUP"}) # {}]]
      /\ connections' = [connections EXCEPT ![f] = c]
      /\ fdEvents' = [fdEvents EXCEPT ![f] = {"IN"}]
      /\ conn' = [d \in Clients |-> IF d = c THEN Object(f) ELSE IF d = old THEN Destroyed ELSE conn[d]]
      /\ UNCHANGED <<sock, pendingClose, agent>>
  BY DEF AcceptRegister, FreeFds, Watch, agentVars
<1>2. ~Live(c) /\ ~Registered(c) /\ sock[c].peer # "off" /\ old # c
  BY <1>1 DEF TablesInv, Registered
<1>3. \A d \in Clients : Live(d) => conn[d].fd \in Fds \ {f} /\ connections[conn[d].fd] = d /\ d # old
  BY <1>0, <1>1, LiveOwns DEF TablesInv
<1>4. Object(f) \in Obj /\ Destroyed \in Obj /\ Object(f).fd = f /\ Destroyed.fd = NoFd /\ Destroyed.canceled
      /\ Len(Object(f).rbuf) = 0 /\ Len(Destroyed.rbuf) = 0
  <2>1. 0 \in 0..MaxWrite /\ 0 \in Nat
    BY BufferAssumption
  <2>2. Object(f) \in Obj /\ Object(NoFd) \in Obj
    BY <2>1, EmptySeq DEF Object, Obj, Handlers
  <2> QED
    BY <2>2 DEF Destroyed, Obj, Object
<1>5. /\ conn'[c] = Object(f) /\ (old # NoConn => conn'[old] = Destroyed)
      /\ \A d \in Clients \ {c, old} : conn'[d] = conn[d]
      /\ conn' \in [Clients -> Obj]
  BY <1>0, <1>1, <1>2, <1>4
<1>6. /\ epoll'[f].owner = c /\ epoll'[f].interest = {"IN"} /\ fdEvents'[f] = {"IN"} /\ connections'[f] = c
      /\ epoll'[f].armed = (Ready(c) \cap {"IN", "HUP"} # {})
      /\ \A g \in Fds \ {f} : epoll'[g] = epoll[g] /\ fdEvents'[g] = fdEvents[g] /\ connections'[g] = connections[g]
      /\ epoll' \in [Fds -> Entry] /\ fdEvents' \in [Fds -> SUBSET {"IN", "OUT"}]
      /\ connections' \in [Fds -> Clients \cup {NoConn}]
  BY <1>0, <1>1 DEF Entry
<1> HIDE DEF old
<1>7. WorldTypes
  <2>1. \A d \in Clients : Len(conn'[d].rbuf) <= MaxRead
    <3>1. \A d \in Clients : conn'[d] = conn[d] \/ Len(conn'[d].rbuf) = 0
      BY <1>0, <1>4, <1>5
    <3>2. \A d \in Clients : Len(conn[d].rbuf) <= MaxRead /\ 0 <= MaxRead
      BY BufferAssumption DEF TypeOK, ConnTypeOK
    <3> QED
      BY <3>1, <3>2
  <2>2. pendingClose' \subseteq Fds /\ backlog' \subseteq Clients
    BY <1>1 DEF TypeOK, ConnTypeOK, KernelTypeOK
  <2> QED
    BY <1>0, <1>1, <1>5, <1>6, <2>1, <2>2 DEF WorldTypes, KernelTypeOK, ConnTypeOK, Obj, Entry, TypeOK
<1>8. \A g \in Fds : epoll'[g].owner # NoConn =>
        /\ connections'[g] = epoll'[g].owner /\ conn'[epoll'[g].owner].fd = g
        /\ fdEvents'[g] = epoll'[g].interest /\ "IN" \in epoll'[g].interest
  <2>1. ASSUME NEW g \in Fds \ {f}, epoll'[g].owner # NoConn
        PROVE  epoll'[g] = epoll[g] /\ epoll[g].owner \in Clients \ {c, old}
    <3>1. epoll[g].owner \in Clients /\ conn[epoll[g].owner].fd = g
      BY <1>0, <1>6, <2>1 DEF Entry, TablesInv
    <3> QED
      BY <1>0, <1>2, <1>3, <1>6, <3>1 DEF Live
  <2>2. ASSUME NEW g \in Fds \ {f}, epoll'[g].owner # NoConn
        PROVE  /\ connections'[g] = epoll'[g].owner /\ conn'[epoll'[g].owner].fd = g
               /\ fdEvents'[g] = epoll'[g].interest /\ "IN" \in epoll'[g].interest
    BY <1>5, <1>6, <2>1, <2>2 DEF TablesInv
  <2>3. conn'[c].fd = f
    BY <1>4, <1>5
  <2>4. /\ connections'[f] = epoll'[f].owner /\ conn'[epoll'[f].owner].fd = f
        /\ fdEvents'[f] = epoll'[f].interest /\ "IN" \in epoll'[f].interest
    BY <1>6, <2>3
  <2> QED
    BY <2>2, <2>4
<1>9. \A d \in Clients : Live(d)' => epoll'[conn'[d].fd].owner = d
  <2>1. ASSUME NEW d \in Clients \ {c}, Live(d)' PROVE epoll'[conn'[d].fd].owner = d
    <3>1. conn'[d] = conn[d] /\ Live(d)
      BY <1>0, <1>4, <1>5, <2>1 DEF Live
    <3> QED
      BY <1>3, <1>6, <3>1 DEF TablesInv
  <2> QED
    BY <1>4, <1>5, <1>6, <2>1
<1>10. \A g, h \in Fds : connections'[g] = connections'[h] /\ g # h => connections'[g] = NoConn
  BY <1>2, <1>6 DEF TablesInv, Registered
<1>11. \A d \in Clients : /\ d \in backlog' => sock'[d].peer # "off"
                          /\ d \in backlog' \/ sock'[d].peer = "off" => ~Live(d)' /\ ~Registered(d)'
  <2>1. ASSUME NEW d \in Clients \ {c} PROVE /\ Live(d)' => Live(d)
                                             /\ Registered(d)' => Registered(d)
    BY <1>0, <1>4, <1>5, <1>6, <2>1 DEF Live, Registered
  <2> QED
    BY <1>1, <1>2, <2>1 DEF TablesInv
<1>12. \A g \in Fds : connections'[g] # NoConn /\ ~(conn'[connections'[g]].fd # NoFd) =>
          g \in pendingClose' /\ conn'[connections'[g]].canceled
  <2>1. ASSUME NEW g \in Fds \ {f}, connections'[g] # NoConn
        PROVE  connections'[g] = connections[g] /\ conn'[connections[g]] = conn[connections[g]]
    BY <1>0, <1>2, <1>5, <1>6, <2>1 DEF TablesInv, Registered, old
  <2>2. conn'[connections'[f]].fd # NoFd
    BY <1>0, <1>4, <1>5, <1>6
  <2>3. \A g \in Fds : connections[g] # NoConn /\ conn[connections[g]].fd = NoFd =>
          g \in pendingClose /\ conn[connections[g]].canceled
    BY DEF TablesInv, Live
  <2>4. ASSUME NEW g \in Fds \ {f}, connections'[g] # NoConn, conn'[connections'[g]].fd = NoFd
        PROVE  g \in pendingClose' /\ conn'[connections'[g]].canceled
    BY <1>1, <2>1, <2>3, <2>4
  <2> QED
    BY <2>2, <2>4
<1>13. \A d \in Clients : agent'[d].st = "running" /\ ~Live(d)' => conn'[d].canceled
  <2>1. ASSUME NEW d \in Clients, agent'[d].st = "running", ~Live(d)' PROVE conn'[d].canceled
    <3>1. d # c
      BY <1>0, <1>4, <1>5, <2>1 DEF Live
    <3> QED
      BY <1>1, <1>4, <1>5, <2>1, <3>1 DEF TablesInv, Live
  <2> QED
    BY <2>1
<1>14. \A g \in Fds : epoll'[g].owner = NoConn => ~epoll'[g].armed
  BY <1>0, <1>6 DEF TablesInv
<1>15. TablesInv'
  BY <1>8, <1>9, <1>10, <1>11, <1>12, <1>13, <1>14 DEF TablesInv, Live
<1> QED
  BY <1>0, <1>1, <1>2, <1>3, <1>5, <1>6, <1>7, <1>15 DEF old, Live

(* Whatever a peer does, edges only come.                                  *)
Arrives(c) ==
  /\ sock' \in [Clients -> Sock] /\ epoll' \in [Fds -> Entry]
  /\ \A d \in Clients \ {c} : sock'[d] = sock[d]
  /\ \A f \in Fds : /\ epoll'[f].owner = epoll[f].owner /\ epoll'[f].interest = epoll[f].interest
                    /\ epoll[f].armed => epoll'[f].armed
                    /\ epoll[f].owner = NoConn => epoll'[f] = epoll[f]
  /\ sock'[c].peer # "off" /\ Len(sock'[c].rcvq) <= MaxInFlight
  /\ backlog' = backlog \/ (sock[c].peer = "off" /\ backlog' = backlog \cup {c})
  /\ sock'[c].peer = "rst" => sock'[c].rcvq = <<>>
  /\ (InDebt(c)' => InDebt(c)) /\ (HupDebt(c)' => HupDebt(c)) /\ (FinDebt(c)' => FinDebt(c))
  /\ OutDebt(c)' => OutDebt(c) \/ "OUT" \notin epoll[conn[c].fd].interest

LEMMA EdgeArms ==
  ASSUME TypeOK, TablesInv, NEW c \in Clients, NEW e \in Events, Edge(c, e)
  PROVE  /\ epoll' \in [Fds -> Entry]
         /\ \A f \in Fds : /\ epoll'[f].owner = epoll[f].owner /\ epoll'[f].interest = epoll[f].interest
                           /\ epoll[f].armed => epoll'[f].armed
                           /\ epoll[f].owner = NoConn => epoll'[f] = epoll[f]
         /\ Live(c) /\ (e \in epoll[conn[c].fd].interest \/ e = "HUP") => epoll'[conn[c].fd].armed
<1>1. epoll \in [Fds -> Entry] /\ NoConn \notin Clients
  BY KernelAssumption DEF TypeOK, KernelTypeOK, Entry
<1>2. /\ epoll' = [f \in Fds |-> IF epoll[f].owner = c /\ e \in epoll[f].interest \cup {"HUP"}
                                THEN [epoll[f] EXCEPT !.armed = TRUE] ELSE epoll[f]]
  BY DEF Edge
<1>3. Live(c) => conn[c].fd \in Fds /\ epoll[conn[c].fd].owner = c
  BY LiveOwns
<1>4. ASSUME NEW f \in Fds
      PROVE  /\ epoll'[f] \in Entry
             /\ epoll'[f].owner = epoll[f].owner /\ epoll'[f].interest = epoll[f].interest
             /\ epoll[f].armed => epoll'[f].armed
             /\ epoll[f].owner # c => epoll'[f] = epoll[f]
             /\ epoll[f].owner = c /\ (e \in epoll[f].interest \/ e = "HUP") => epoll'[f].armed
  <2>1. PICK p \in Entry : p = epoll[f]
    BY <1>1
  <2>2. CASE p.owner = c /\ e \in p.interest \cup {"HUP"}
    <3>1. epoll'[f] = [p EXCEPT !.armed = TRUE]
      BY <1>2, <2>1, <2>2
    <3> QED
      BY <2>1, <2>2, <3>1 DEF Entry
  <2>3. CASE ~(p.owner = c /\ e \in p.interest \cup {"HUP"})
    <3>1. epoll'[f] = p
      BY <1>2, <2>1, <2>3
    <3> QED
      BY <2>1, <2>3, <3>1 DEF Entry
  <2> QED
    BY <2>2, <2>3
<1>5. epoll' \in [Fds -> Entry]
  BY <1>2, <1>4
<1> QED
  BY <1>1, <1>3, <1>4, <1>5

LEMMA PeerArrives ==
  ASSUME TypeOK, TablesInv, NEW c \in Clients, Peer(c)
  PROVE  /\ Arrives(c)
         /\ UNCHANGED <<eventfd, conn, fdEvents, pendingClose, tableVars, turnVars, agentVars>>
         /\ listenArmed' \in BOOLEAN
<1>0. /\ conn \in [Clients -> Obj] /\ sock \in [Clients -> Sock] /\ epoll \in [Fds -> Entry]
      /\ Len(sock[c].rcvq) <= MaxInFlight /\ Len(sock[c].rcvq) \in Nat /\ MaxInFlight \in Nat /\ 0 <= MaxInFlight
      /\ SockCap \in Nat
  <2>1. /\ conn \in [Clients -> Obj] /\ sock \in [Clients -> Sock] /\ epoll \in [Fds -> Entry]
        /\ Len(sock[c].rcvq) <= MaxInFlight
    BY DEF TypeOK, KernelTypeOK, ConnTypeOK, Obj, Sock, Entry
  <2>2. Len(sock[c].rcvq) \in Nat
    BY <2>1, LenProperties DEF Sock
  <2> QED
    BY <2>1, <2>2, KernelAssumption
<1>1. UNCHANGED <<eventfd, conn, fdEvents, pendingClose, tableVars, turnVars, agentVars>>
  BY DEF Peer, EnvKeeps, Connect, ClientSend, ClientFin, ClientRst, ClientRead
<1>2. listenArmed' \in BOOLEAN
  BY DEF Peer, Connect, ClientSend, ClientFin, ClientRst, ClientRead, TypeOK, KernelTypeOK
<1> SUFFICES Arrives(c)
  BY <1>1, <1>2
<1>3. Live(c) => /\ conn[c].fd \in Fds /\ "IN" \in epoll[conn[c].fd].interest
                 /\ sock[c].peer # "off"
  BY LiveOwns DEF TablesInv
<1>4. conn' = conn /\ (Unarmed(c)' => Live(c) /\ ~epoll'[conn[c].fd].armed)
  BY <1>1 DEF Unarmed, Live
<1>4a. ASSUME ~Unarmed(c)'
       PROVE  ~InDebt(c)' /\ ~HupDebt(c)' /\ ~FinDebt(c)' /\ ~OutDebt(c)'
  BY <1>4a DEF InDebt, HupDebt, OutDebt, FinDebt
<1>5. CASE Connect(c)
  <2>1. /\ sock' = [sock EXCEPT ![c].peer = "open"] /\ epoll' = epoll /\ sock[c].peer = "off"
        /\ backlog' = backlog \cup {c}
    BY <1>5 DEF Connect
  <2>2. [sock[c] EXCEPT !.peer = "open"] \in Sock
    BY <1>0 DEF Sock, Peers
  <2>3. sock'[c].peer = "open" /\ sock'[c].rcvq = sock[c].rcvq /\ ~Live(c)
    BY <1>0, <1>3, <2>1 DEF Sock
  <2>4. sock' \in [Clients -> Sock] /\ \A d \in Clients \ {c} : sock'[d] = sock[d]
    BY <1>0, <2>1, <2>2
  <2>5. ~Unarmed(c)' /\ Len(sock'[c].rcvq) <= MaxInFlight
    BY <1>0, <1>4, <2>3
  <2> QED
    BY <1>0, <1>4a, <2>1, <2>3, <2>4, <2>5 DEF Arrives
<1>6. CASE ClientSend(c)
  <2> DEFINE s == [sock[c] EXCEPT !.rcvq = Append(@, Head(sock[c].todo)), !.todo = Tail(@)]
  <2>1. /\ sock' = [sock EXCEPT ![c] = s] /\ Edge(c, "IN") /\ backlog' = backlog
        /\ sock[c].peer = "open" /\ sock[c].todo # <<>> /\ Len(sock[c].rcvq) < MaxInFlight
    BY <1>0, <1>6 DEF ClientSend, Sock
  <2>2. s \in Sock /\ Len(s.rcvq) <= MaxInFlight
    <3>1. /\ Head(sock[c].todo) \in Frames /\ Tail(sock[c].todo) \in Seq(Frames)
          /\ Append(sock[c].rcvq, Head(sock[c].todo)) \in Seq(Frames)
          /\ Len(Append(sock[c].rcvq, Head(sock[c].todo))) = Len(sock[c].rcvq) + 1
      BY <1>0, <2>1, HeadTailProperties, AppendProperties DEF Sock
    <3>2. Len(sock[c].rcvq) + 1 <= MaxInFlight
      BY <1>0, <2>1
    <3>3. sock[c] \in Sock /\ s.rcvq = Append(sock[c].rcvq, Head(sock[c].todo))
      BY <1>0 DEF Sock
    <3>4. s \in Sock
      BY <3>1, <3>3 DEF Sock
    <3> HIDE DEF s
    <3> QED
      BY <3>1, <3>2, <3>3, <3>4
  <2>3. sock'[c] = s /\ s.peer = "open" /\ sock' \in [Clients -> Sock]
        /\ \A d \in Clients \ {c} : sock'[d] = sock[d]
    BY <1>0, <2>1, <2>2 DEF Sock
  <2> HIDE DEF s
  <2>4. Live(c) => epoll'[conn[c].fd].armed
    BY <1>3, <2>1, EdgeArms DEF Events
  <2>5. ~Unarmed(c)'
    BY <1>4, <2>4
  <2>6. sock'[c].peer = "open" /\ Len(sock'[c].rcvq) <= MaxInFlight
    BY <2>2, <2>3
  <2>7. /\ epoll' \in [Fds -> Entry]
        /\ \A f \in Fds : /\ epoll'[f].owner = epoll[f].owner /\ epoll'[f].interest = epoll[f].interest
                          /\ epoll[f].armed => epoll'[f].armed
                          /\ epoll[f].owner = NoConn => epoll'[f] = epoll[f]
    BY <2>1, EdgeArms DEF Events
  <2> QED
    BY <1>4a, <2>1, <2>3, <2>5, <2>6, <2>7 DEF Arrives
<1>7. CASE ClientFin(c)
  <2>1. /\ sock' = [sock EXCEPT ![c].peer = "fin"] /\ Edge(c, "IN") /\ backlog' = backlog
    BY <1>7 DEF ClientFin
  <2>2. [sock[c] EXCEPT !.peer = "fin"] \in Sock
    BY <1>0 DEF Sock, Peers
  <2>3. sock'[c].peer = "fin" /\ sock'[c].rcvq = sock[c].rcvq
    BY <1>0, <2>1 DEF Sock
  <2>4. Live(c) => epoll'[conn[c].fd].armed
    BY <1>3, <2>1, EdgeArms DEF Events
  <2>5. ~Unarmed(c)'
    BY <1>4, <2>4
  <2>6. sock' \in [Clients -> Sock] /\ \A d \in Clients \ {c} : sock'[d] = sock[d]
    BY <1>0, <2>1, <2>2
  <2>7. /\ epoll' \in [Fds -> Entry]
        /\ \A f \in Fds : /\ epoll'[f].owner = epoll[f].owner /\ epoll'[f].interest = epoll[f].interest
                          /\ epoll[f].armed => epoll'[f].armed
                          /\ epoll[f].owner = NoConn => epoll'[f] = epoll[f]
    BY <2>1, EdgeArms DEF Events
  <2> QED
    BY <1>0, <1>4a, <2>1, <2>3, <2>5, <2>6, <2>7 DEF Arrives
<1>8. CASE ClientRst(c)
  <2>1. /\ sock' = [sock EXCEPT ![c].peer = "rst", ![c].rcvq = <<>>] /\ Edge(c, "HUP") /\ backlog' = backlog
    BY <1>8 DEF ClientRst
  <2>2. [sock[c] EXCEPT !.peer = "rst", !.rcvq = <<>>] \in Sock
    BY <1>0, EmptySeq DEF Sock, Peers
  <2>3. sock'[c].peer = "rst" /\ sock'[c].rcvq = <<>> /\ Len(sock'[c].rcvq) = 0
    BY <1>0, <2>1 DEF Sock
  <2>4. Live(c) => epoll'[conn[c].fd].armed
    BY <1>3, <2>1, EdgeArms DEF Events
  <2>5. ~Unarmed(c)'
    BY <1>4, <2>4
  <2>6. sock' \in [Clients -> Sock] /\ \A d \in Clients \ {c} : sock'[d] = sock[d]
    BY <1>0, <2>1, <2>2
  <2>7. /\ epoll' \in [Fds -> Entry]
        /\ \A f \in Fds : /\ epoll'[f].owner = epoll[f].owner /\ epoll'[f].interest = epoll[f].interest
                          /\ epoll[f].armed => epoll'[f].armed
                          /\ epoll[f].owner = NoConn => epoll'[f] = epoll[f]
    BY <2>1, EdgeArms DEF Events
  <2> QED
    BY <1>0, <1>4a, <2>1, <2>3, <2>5, <2>6, <2>7 DEF Arrives
<1>9. CASE ClientRead(c)
  <2>1. /\ sock' = [sock EXCEPT ![c].space = @ + 1] /\ backlog' = backlog /\ sock[c].space < SockCap
        /\ sock[c].peer \in {"open", "fin"}
        /\ IF sock[c].space = 0 THEN Edge(c, "OUT") ELSE UNCHANGED epoll
    BY <1>9 DEF ClientRead
  <2>2. sock[c].space \in Nat /\ sock[c].space + 1 \in 0..SockCap
    BY <1>0, <2>1 DEF Sock
  <2>3. [sock[c] EXCEPT !.space = @ + 1] \in Sock
    BY <1>0, <2>2 DEF Sock
  <2>4. /\ sock'[c].peer = sock[c].peer /\ sock'[c].rcvq = sock[c].rcvq
        /\ sock' \in [Clients -> Sock] /\ \A d \in Clients \ {c} : sock'[d] = sock[d]
    BY <1>0, <2>1, <2>3 DEF Sock
  <2>5. CASE sock[c].space = 0
    <3>1. Edge(c, "OUT")
      BY <2>1, <2>5
    <3>2. /\ epoll' \in [Fds -> Entry]
          /\ \A f \in Fds : /\ epoll'[f].owner = epoll[f].owner /\ epoll'[f].interest = epoll[f].interest
                            /\ epoll[f].armed => epoll'[f].armed
                            /\ epoll[f].owner = NoConn => epoll'[f] = epoll[f]
          /\ Live(c) /\ "OUT" \in epoll[conn[c].fd].interest => epoll'[conn[c].fd].armed
      BY <3>1, EdgeArms DEF Events
    <3>3. /\ (InDebt(c)' => InDebt(c)) /\ (HupDebt(c)' => HupDebt(c)) /\ (FinDebt(c)' => FinDebt(c))
          /\ OutDebt(c)' => "OUT" \notin epoll[conn[c].fd].interest
      <4>1. Unarmed(c)' => Unarmed(c) /\ "OUT" \notin epoll[conn[c].fd].interest
        BY <1>3, <1>4, <3>2 DEF Unarmed
      <4>2. conn'[c].closeReq = conn[c].closeReq
        BY <1>1
      <4> QED
        BY <2>4, <4>1, <4>2 DEF InDebt, HupDebt, OutDebt, FinDebt
    <3>4. sock'[c].peer # "off" /\ sock'[c].peer # "rst" /\ Len(sock'[c].rcvq) <= MaxInFlight
      BY <1>0, <2>1, <2>4
    <3> QED
      BY <2>1, <2>4, <3>2, <3>3, <3>4 DEF Arrives
  <2>6. CASE sock[c].space # 0
    <3>1. epoll' = epoll /\ sock[c].space > 0
      BY <2>1, <2>2, <2>6
    <3>2. /\ (InDebt(c)' => InDebt(c)) /\ (HupDebt(c)' => HupDebt(c)) /\ (FinDebt(c)' => FinDebt(c))
          /\ OutDebt(c)' => OutDebt(c)
      <4>1. Unarmed(c)' => Unarmed(c)
        BY <1>4, <3>1 DEF Unarmed
      <4>2. conn'[c] = conn[c]
        BY <1>1
      <4> QED
        BY <2>4, <3>1, <4>1, <4>2 DEF InDebt, HupDebt, OutDebt, FinDebt
    <3>3. sock'[c].peer # "off" /\ sock'[c].peer # "rst" /\ Len(sock'[c].rcvq) <= MaxInFlight
      BY <1>0, <2>1, <2>4
    <3> QED
      BY <1>0, <2>1, <2>4, <3>1, <3>2, <3>3 DEF Arrives
  <2> QED
    BY <2>5, <2>6
<1> QED
  BY <1>5, <1>6, <1>7, <1>8, <1>9 DEF Peer

LEMMA PeerKeepsTables ==
  ASSUME TypeOK, TablesInv, NEW c \in Clients, Peer(c)
  PROVE  TablesInv' /\ WorldTypes
<1>1. /\ Arrives(c) /\ UNCHANGED <<conn, fdEvents, pendingClose, connections, agent>>
  BY PeerArrives DEF tableVars, agentVars
<1>2. WorldTypes
  <2>1. \A d \in Clients : Len(sock'[d].rcvq) <= MaxInFlight
    BY <1>1 DEF Arrives, TypeOK, KernelTypeOK
  <2> QED
    BY <1>1, <2>1 DEF Arrives, WorldTypes, TypeOK, KernelTypeOK, ConnTypeOK, Sock, Entry
<1>3. TablesInv'
  <2>1. \A f \in Fds : /\ epoll'[f].owner = epoll[f].owner /\ epoll'[f].interest = epoll[f].interest
                       /\ epoll[f].owner = NoConn => epoll'[f] = epoll[f]
    BY <1>1 DEF Arrives
  <2>2. \A d \in Clients : Live(d) => conn[d].fd \in Fds
    BY LiveOwns
  <2>3. \A d \in Clients : /\ d \in backlog' => sock'[d].peer # "off"
                           /\ d \in backlog' \/ sock'[d].peer = "off" => ~Live(d) /\ ~Registered(d)
    BY <1>1 DEF Arrives, TablesInv
  <2> QED
    BY <1>1, <2>1, <2>2, <2>3 DEF TablesInv, Live, Registered
<1> QED
  BY <1>2, <1>3

----------------------------------------------------------------------------
(* What each action does to the connections, in these terms.               *)

RemoveStep(f) ==
  /\ connections[f] # NoConn /\ Removes(f)
  /\ pendingClose \ {f} \subseteq pendingClose' /\ pendingClose' \subseteq pendingClose \cup {f}
  /\ UNCHANGED backlog /\ StartsNone

Untouched == UNCHANGED <<ioVars, connections, backlog, agent>>

LEMMA UntouchedIsQuiet ==
  ASSUME TypeOK, Untouched
  PROVE  QuietStep
BY DEF Untouched, ioVars, QuietStep, StartsNone, TypeOK, KernelTypeOK, ConnTypeOK, Entry

LEMMA SendStep ==
  ASSUME TypeOK, TablesInv, NEW c \in Clients, NEW o, Edited(c, o), Len(o.rbuf) <= MaxRead,
         send_data(c, o), StartsOnly(c), UNCHANGED <<connections, backlog>>
  PROVE  TouchStep(c) /\ Carries(c, o)
BY SendTouches DEF TouchStep, Carries

LEMMA SetStep ==
  ASSUME TypeOK, TablesInv, NEW c \in Clients, NEW o, Edited(c, o), Len(o.rbuf) <= MaxRead,
         Set(c, o), UNCHANGED <<sock, epoll, fdEvents, pendingClose, connections, backlog, agent>>
  PROVE  TouchStep(c) /\ conn'[c] = o
BY SetTouches DEF TouchStep, StartsOnly

LEMMA RequestCloseStep ==
  ASSUME TypeOK, TablesInv, NEW c \in Clients, request_close(c),
         UNCHANGED <<connections, backlog, agent>>
  PROVE  TouchStep(c) /\ Carries(c, conn[c]) /\ (conn'[c].closeReq \/ conn'[c].fd = NoFd)
BY RequestCloseTouches DEF TouchStep, Carries, StartsOnly, TypeOK, ConnTypeOK

LEMMA RemoveStepOf ==
  ASSUME TypeOK, TablesInv, NEW f \in Fds, connections[f] # NoConn, remove_connection(f),
         pendingClose \ {f} \subseteq pendingClose', pendingClose' \subseteq pendingClose \cup {f},
         UNCHANGED <<backlog, agent>>
  PROVE  RemoveStep(f)
BY RemoveConnection DEF RemoveStep, StartsNone

(* An object edited in the fields no member function looks at.             *)
LEMMA EditedFields ==
  ASSUME TypeOK, NEW c \in Clients, NEW h \in Handlers, NEW n \in Nat, NEW b \in Seq(Frames),
         NEW i \in BOOLEAN
  PROVE  LET o == [conn[c] EXCEPT !.handler = h, !.pend = n, !.rbuf = b, !.idle = i] IN
         Edited(c, o) /\ o.handler = h /\ o.pend = n /\ o.rbuf = b
<1>1. conn[c] \in Obj
  BY DEF Obj, TypeOK, ConnTypeOK
<1> QED
  BY <1>1 DEF Edited, Obj

LEMMA FlushEventStep ==
  ASSUME Inv, NEW f \in Fds, FlushEvent(f), NEW c, c = connections[f]
  PROVE  /\ c \in Clients /\ conn[c].pend > 0 /\ TouchStep(c)
         /\ Carries(c, [conn[c] EXCEPT !.pend = @ - 1])
<1> DEFINE o == [conn[c] EXCEPT !.pend = @ - 1]
<1>1. c \in Clients /\ conn[c].pend > 0 /\ send_data(c, o)
  BY DEF Inv, TypeOK, FlushEvent
<1>2. conn[c] \in Obj /\ Len(conn[c].rbuf) <= MaxRead
  BY <1>1 DEF Inv, TypeOK, ConnTypeOK, Obj
<1>3. Edited(c, o) /\ Len(o.rbuf) <= MaxRead
  <2>1. conn[c].pend - 1 \in Nat
    BY <1>1, <1>2 DEF Obj
  <2> QED
    BY <1>2, <2>1 DEF Edited, Obj
<1>4. UNCHANGED <<connections, backlog, agent>> /\ StartsOnly(c)
  BY DEF FlushEvent, tableVars, agentVars, StartsOnly
<1> QED
  BY <1>1, <1>3, <1>4, SendStep DEF Inv

(* The reads of on_readable.                                               *)
LEMMA RecvBytesStep ==
  ASSUME Inv, RecvBytes, NEW c, c = cur.c
  PROVE  /\ cur.f \in Fds /\ c \in Clients
         /\ \/ RemoveStep(cur.f) /\ Return /\ due' = due \ {c}
            \/ TouchStep(c) /\ UNCHANGED <<pc, cur, due>>
               /\ conn'[c].handler = conn[c].handler /\ conn'[c].pend = conn[c].pend
<1> DEFINE s == [sock[c] EXCEPT !.rcvq = Tail(@)]
           buf == AppendBytes(conn[c].rbuf, Head(sock[c].rcvq))
           o == [conn[c] EXCEPT !.rbuf = buf, !.idle = FALSE]
<1>1. /\ TypeOK /\ TablesInv /\ cur.f \in Fds /\ c \in Clients /\ connections[cur.f] = c
      /\ Live(c) /\ sock[c].rcvq # <<>> /\ c # NoConn
  BY KernelAssumption DEF Inv, ControlInv, Reading, RecvBytes, EventPCs
<1>2. UNCHANGED <<backlog, agent>>
  BY DEF RecvBytes, ReadKeeps, agentVars
<1>3. CASE Len(buf) > MaxRead
  <2>1. /\ remove_connection(cur.f) /\ pendingClose' = pendingClose \cup {cur.f}
        /\ Return
    BY <1>3 DEF RecvBytes
  <2>2. due' = due \ {c}
    BY <1>1, <2>1 DEF remove_connection
  <2> QED
    BY <1>1, <1>2, <2>1, <2>2, RemoveStepOf
<1>4. CASE ~(Len(buf) > MaxRead)
  <2>1. /\ sock' = [sock EXCEPT ![c].rcvq = Tail(@)] /\ conn' = [conn EXCEPT ![c] = o]
        /\ UNCHANGED <<epoll, fdEvents, pendingClose, connections, due, pc, cur>>
    BY <1>4 DEF RecvBytes, Set
  <2>2. /\ conn \in [Clients -> Obj] /\ sock \in [Clients -> Sock]
        /\ epoll \in [Fds -> Entry] /\ fdEvents \in [Fds -> SUBSET {"IN", "OUT"}]
    BY <1>1 DEF TypeOK, KernelTypeOK, ConnTypeOK, Obj, Sock, Entry
  <2>3. /\ Head(sock[c].rcvq) \in Frames /\ Tail(sock[c].rcvq) \in Seq(Frames)
        /\ Len(Tail(sock[c].rcvq)) <= Len(sock[c].rcvq)
    <3>1. sock[c].rcvq \in Seq(Frames)
      BY <1>1, <2>2 DEF Sock
    <3> QED
      BY <1>1, <3>1, HeadTailProperties, LenProperties
  <2>4. buf \in Seq(Frames)
    <3>1. conn[c].rbuf \in Seq(Frames)
      BY <1>1, <2>2 DEF Obj
    <3>2. CASE conn[c].rbuf # <<>> /\ conn[c].rbuf[Len(conn[c].rbuf)] = "part"
      BY <2>3, <3>1, <3>2, ExceptSeq DEF AppendBytes
    <3>3. CASE ~(conn[c].rbuf # <<>> /\ conn[c].rbuf[Len(conn[c].rbuf)] = "part")
      BY <2>3, <3>1, <3>3, AppendProperties DEF AppendBytes
    <3> QED
      BY <3>2, <3>3
  <2>5. Len(buf) <= MaxRead
    BY <1>4, <2>4, BufferAssumption, LenProperties
  <2> HIDE DEF buf
  <2>6. /\ o \in Obj /\ o.fd = conn[c].fd /\ o.canceled = conn[c].canceled /\ o.wbuf = conn[c].wbuf
        /\ o.closeReq = conn[c].closeReq /\ o.handler = conn[c].handler /\ o.pend = conn[c].pend
        /\ o.rbuf = buf
    BY <1>1, <2>2, <2>4 DEF Obj
  <2>7. /\ s \in Sock /\ sock' = [sock EXCEPT ![c] = s] /\ s.peer = sock[c].peer /\ s.space = sock[c].space
        /\ s.rcvq = Tail(sock[c].rcvq)
    BY <1>1, <2>1, <2>2, <2>3 DEF Sock
  <2> HIDE DEF o, s
  <2>8. conn'[c] = o /\ sock'[c] = s /\ epoll' = epoll
    BY <1>1, <2>1, <2>2, <2>7
  <2>9. Others(c)
    BY <1>1, <2>1, <2>2, <2>6, <2>7 DEF Others
  <2>10. Keeps(c)
    <3>1. (Unarmed(c)' => Unarmed(c)) /\ conn'[c].fd = conn[c].fd
      BY <2>6, <2>8 DEF Unarmed, Live
    <3> QED
      BY <1>1, <2>1, <2>3, <2>6, <2>7, <2>8, <3>1, LiveOwns DEF Keeps, InDebt, OutDebt, HupDebt, FinDebt
  <2> QED
    BY <1>1, <1>2, <2>1, <2>5, <2>6, <2>8, <2>9, <2>10 DEF TouchStep, Touches, StartsOnly
<1> QED
  BY <1>3, <1>4

Serve == ServeKeepAlive \/ ServeLast \/ Refuse \/ ServeAgain \/ UpgradeSse \/ UpgradeChat

(* One request served: what is queued for the stream stays, on_readable    *)
(* remembers an end of input.                                              *)
LEMMA ServeStep ==
  ASSUME Inv, Serve, NEW c, c = cur.c
  PROVE  /\ pc = "process" /\ cur.f \in Fds /\ c \in Clients /\ connections[cur.f] = c
         /\ conn[c].handler \in {"http", "httpDone"}
         /\ TouchStep(c) /\ conn'[c].pend = conn[c].pend
         /\ cur' \in [f : {cur.f}, c : {c}, ev : {cur.ev}, need : BOOLEAN, eof : {cur.eof}]
         /\ pc' \in {"process", "finish"}
         /\ agent' \in [Clients -> [st : {"none", "running", "over"}, left : 0..MaxChunks]]
         /\ UNCHANGED <<connections, due, backlog, listenArmed, eventfd, readyFds, flushing,
                        batch, firing, sweep, completions>>
<1>1. /\ TypeOK /\ TablesInv /\ pc = "process" /\ c \in Clients /\ cur.f \in Fds /\ connections[cur.f] = c
      /\ UNCHANGED <<connections, due, backlog, listenArmed, eventfd, readyFds, flushing,
                     batch, firing, sweep, completions>>
  BY DEF Inv, ControlInv, Reading, Serve, ServeKeepAlive, ServeLast, Refuse, ServeAgain, UpgradeSse,
         UpgradeChat, Request, ReadKeeps, agentVars
<1>2. /\ conn[c] \in Obj /\ Len(conn[c].rbuf) <= MaxRead /\ Registered(c)
      /\ cur \in [f : {cur.f}, c : {c}, ev : {cur.ev}, need : BOOLEAN, eof : {cur.eof}]
      /\ agent \in [Clients -> [st : {"none", "running", "over"}, left : 0..MaxChunks]]
  BY <1>1 DEF TypeOK, ConnTypeOK, Obj, Registered
<1>3. conn[c].handler \in {"http", "httpDone"}
  BY <1>1 DEF Serve, ServeKeepAlive, ServeLast, Refuse, ServeAgain, UpgradeSse, UpgradeChat, Request
<1>4. cur' \in [f : {cur.f}, c : {c}, ev : {cur.ev}, need : BOOLEAN, eof : {cur.eof}]
  BY <1>2 DEF Serve, ServeKeepAlive, ServeLast, Refuse, ServeAgain, UpgradeSse, UpgradeChat
<1>5. pc' \in {"process", "finish"}
  BY <1>1 DEF Serve, ServeKeepAlive, ServeLast, Refuse, ServeAgain, UpgradeSse, UpgradeChat, Goto
<1>6. /\ agent' \in [Clients -> [st : {"none", "running", "over"}, left : 0..MaxChunks]]
      /\ StartsOnly(c)
  <2>1. CASE UpgradeChat
    <3>1. agent' = [agent EXCEPT ![c].st = "running"]
      BY <2>1 DEF UpgradeChat
    <3> QED
      BY <1>1, <1>2, <3>1 DEF StartsOnly
  <2>2. CASE ~UpgradeChat
    <3>1. agent' = agent
      BY <2>2 DEF Serve, ServeKeepAlive, ServeLast, Refuse, ServeAgain, UpgradeSse, ReadKeeps, agentVars
    <3> QED
      BY <1>2, <3>1 DEF StartsOnly
  <2> QED
    BY <2>1, <2>2
<1>7. First(c) # "empty" => Consumed \in Obj /\ Edited(c, Consumed) /\ Len(Consumed.rbuf) <= MaxRead
                            /\ Consumed.pend = conn[c].pend
  <2>1. ASSUME First(c) # "empty"
        PROVE  Tail(conn[c].rbuf) \in Seq(Frames) /\ Len(Tail(conn[c].rbuf)) <= MaxRead
    <3>1. conn[c].rbuf # <<>> /\ conn[c].rbuf \in Seq(Frames)
      BY <1>2, <2>1 DEF First, Obj
    <3>2. /\ Tail(conn[c].rbuf) \in Seq(Frames) /\ Len(Tail(conn[c].rbuf)) = Len(conn[c].rbuf) - 1
          /\ Len(conn[c].rbuf) \in Nat
      BY <3>1, HeadTailProperties, LenProperties
    <3> QED
      BY <1>2, <3>2, BufferAssumption
  <2> QED
    BY <1>2, <2>1 DEF Consumed, Edited, Obj
<1>8. ASSUME NEW o, Edited(c, o), Len(o.rbuf) <= MaxRead, o.pend = conn[c].pend, send_data(c, o)
      PROVE  TouchStep(c) /\ conn'[c].pend = conn[c].pend
  BY <1>1, <1>6, <1>8, SendStep DEF Carries
<1>9. ASSUME NEW h \in Handlers, First(c) # "empty", send_data(c, [Consumed EXCEPT !.handler = h])
      PROVE  TouchStep(c) /\ conn'[c].pend = conn[c].pend
  <2> DEFINE o == [Consumed EXCEPT !.handler = h]
  <2>1. Edited(c, o) /\ Len(o.rbuf) <= MaxRead /\ o.pend = conn[c].pend
    BY <1>7, <1>9 DEF Edited, Obj
  <2> QED
    BY <1>8, <1>9, <2>1
<1>10. TouchStep(c) /\ conn'[c].pend = conn[c].pend
  <2>1. CASE ServeKeepAlive
    BY <1>7, <1>8, <2>1 DEF ServeKeepAlive, Request
  <2>2. CASE ServeLast
    BY <1>9, <2>1, <2>2 DEF ServeLast, Request, Handlers
  <2>3. CASE Refuse
    <3>1. /\ Set(c, Consumed) /\ First(c) # "empty"
          /\ UNCHANGED <<sock, epoll, fdEvents, pendingClose, agent>>
      BY <2>3 DEF Refuse, Request, ReadKeeps, agentVars
    <3> QED
      BY <1>1, <1>7, <3>1, SetStep
  <2>4. CASE ServeAgain
    BY <1>2, <1>8, <2>4 DEF ServeAgain, Edited
  <2>5. CASE UpgradeSse
    BY <1>9, <2>5 DEF UpgradeSse, Request, Handlers
  <2>6. CASE UpgradeChat
    BY <1>9, <2>6 DEF UpgradeChat, Request, Handlers
  <2> QED
    BY <2>1, <2>2, <2>3, <2>4, <2>5, <2>6 DEF Serve
<1> QED
  BY <1>1, <1>3, <1>4, <1>5, <1>6, <1>10

LEMMA DetectStep ==
  ASSUME Inv, Detect, NEW c, c = cur.c
  PROVE  /\ pc = "process" /\ cur.f \in Fds /\ c \in Clients /\ connections[cur.f] = c
         /\ conn[c].handler = "none" /\ UNCHANGED ReadKeeps
         /\ \/ Untouched /\ UNCHANGED due /\ Leave("crashed")
            \/ Untouched /\ UNCHANGED due /\ Return /\ ~cur.eof
            \/ /\ TouchStep(c) /\ UNCHANGED <<connections, due>> /\ Return
               /\ conn'[c].closeReq \/ conn'[c].fd = NoFd
               /\ conn'[c].pend = conn[c].pend /\ conn'[c].handler = "none"
            \/ RemoveStep(cur.f) /\ due' = due \ {c} /\ Return
            \/ /\ TouchStep(c) /\ UNCHANGED <<connections, due, pc, cur>>
               /\ conn'[c].pend = conn[c].pend
<1>1. /\ TypeOK /\ TablesInv /\ pc = "process" /\ c \in Clients /\ cur.f \in Fds /\ connections[cur.f] = c
      /\ c # NoConn /\ conn[c].handler = "none" /\ UNCHANGED ReadKeeps /\ UNCHANGED <<backlog, agent>>
  BY KernelAssumption DEF Inv, ControlInv, Reading, Detect, ReadKeeps, agentVars
<1>2. CASE First(c) = "empty"
  BY <1>1, <1>2 DEF Detect, Untouched
<1>3. CASE First(c) = "part" /\ ~cur.eof
  BY <1>1, <1>3 DEF Detect, Untouched
<1>4. CASE First(c) = "part" /\ cur.eof
  <2>1. request_close(c) /\ UNCHANGED <<connections, due>> /\ Return
    BY <1>4 DEF Detect
  <2>2. TouchStep(c) /\ Carries(c, conn[c]) /\ (conn'[c].closeReq \/ conn'[c].fd = NoFd)
    BY <1>1, <2>1, RequestCloseStep
  <2> QED
    BY <1>1, <2>1, <2>2 DEF Carries
<1>5. CASE First(c) = "junk"
  <2>1. remove_connection(cur.f) /\ Return /\ UNCHANGED pendingClose
    BY <1>5 DEF Detect
  <2>2. due' = due \ {c}
    BY <1>1, <2>1 DEF remove_connection
  <2> QED
    BY <1>1, <2>1, <2>2, RemoveStepOf
<1>6. CASE First(c) \notin {"empty", "part", "junk"}
  <2> DEFINE o == [conn[c] EXCEPT !.handler = "http"]
  <2>1. Set(c, o) /\ UNCHANGED <<sock, epoll, fdEvents, pendingClose, connections, due, pc, cur>>
    BY <1>6 DEF Detect
  <2>2. conn[c] \in Obj /\ Len(conn[c].rbuf) <= MaxRead
    BY <1>1 DEF TypeOK, ConnTypeOK, Obj
  <2>3. Edited(c, o) /\ Len(o.rbuf) <= MaxRead /\ o.pend = conn[c].pend
    BY <2>2 DEF Edited, Obj, Handlers
  <2>4. TouchStep(c) /\ conn'[c] = o
    BY <1>1, <2>1, <2>3, SetStep
  <2> QED
    BY <1>1, <2>1, <2>3, <2>4
<1> QED
  BY <1>2, <1>3, <1>4, <1>5, <1>6

LEMMA RecvEofStep ==
  ASSUME Inv, RecvEof, NEW c, c = cur.c
  PROVE  /\ pc = "recv" /\ cur.f \in Fds /\ c \in Clients /\ connections[cur.f] = c
         /\ UNCHANGED ReadKeeps
         /\ \/ RemoveStep(cur.f) /\ due' = due \ {c} /\ Return
            \/ /\ Untouched /\ UNCHANGED due
               /\ cur' = [cur EXCEPT !.eof = TRUE] /\ pc' = "process"
<1>1. /\ TypeOK /\ TablesInv /\ pc = "recv" /\ c \in Clients /\ cur.f \in Fds /\ connections[cur.f] = c
      /\ c # NoConn /\ UNCHANGED ReadKeeps /\ UNCHANGED <<backlog, agent, pendingClose>>
  BY KernelAssumption DEF Inv, ControlInv, Reading, RecvEof, ReadKeeps, agentVars
<1>2. CASE conn[c].rbuf = <<>>
  <2>1. remove_connection(cur.f) /\ Return
    BY <1>2 DEF RecvEof
  <2>2. due' = due \ {c}
    BY <1>1, <2>1 DEF remove_connection
  <2> QED
    BY <1>1, <2>1, <2>2, RemoveStepOf
<1>3. CASE conn[c].rbuf # <<>>
  BY <1>1, <1>3 DEF RecvEof, Untouched, ioVars, Goto
<1> QED
  BY <1>2, <1>3

LEMMA ReadFinishStep ==
  ASSUME Inv, ReadFinish, NEW c, c = cur.c
  PROVE  /\ pc = "finish" /\ cur.f \in Fds /\ c \in Clients /\ connections[cur.f] = c
         /\ Return /\ UNCHANGED ReadKeeps /\ UNCHANGED <<connections, due>>
         /\ \/ Untouched /\ ~cur.eof
            \/ /\ TouchStep(c) /\ Carries(c, conn[c])
               /\ conn'[c].closeReq \/ conn'[c].fd = NoFd
<1>1. /\ TypeOK /\ TablesInv /\ pc = "finish" /\ c \in Clients /\ cur.f \in Fds /\ connections[cur.f] = c
      /\ Return /\ UNCHANGED ReadKeeps /\ UNCHANGED <<connections, due, backlog, agent>>
  BY DEF Inv, ControlInv, Reading, ReadFinish, ReadKeeps, agentVars
<1>2. CASE cur.need \/ cur.eof
  <2>1. request_close(c)
    BY <1>2 DEF ReadFinish
  <2> QED
    BY <1>1, <2>1, RequestCloseStep
<1>3. CASE ~(cur.need \/ cur.eof)
  BY <1>1, <1>3 DEF ReadFinish, Untouched
<1> QED
  BY <1>2, <1>3

LEMMA AfterReadStep ==
  ASSUME Inv, AfterRead, NEW c, c = connections[cur.f]
  PROVE  /\ pc = "after" /\ cur.f \in Fds /\ Leave("events") /\ UNCHANGED ReadKeeps
         /\ \/ /\ Untouched /\ UNCHANGED due
               /\ c = NoConn \/ ({"HUP", "OUT"} \cap cur.ev = {})
            \/ RemoveStep(cur.f) /\ due' = due \ {c}
            \/ /\ c \in Clients /\ TouchStep(c) /\ Carries(c, conn[c]) /\ ~OutDebt(c)'
               /\ "HUP" \notin cur.ev /\ UNCHANGED <<connections, due>>
<1>1. /\ TypeOK /\ TablesInv /\ pc = "after" /\ cur.f \in Fds /\ c \in Clients \cup {NoConn}
      /\ Leave("events") /\ UNCHANGED ReadKeeps /\ UNCHANGED <<backlog, agent>>
  BY DEF Inv, ControlInv, AfterRead, ReadKeeps, agentVars, TypeOK
<1>2. CASE c # NoConn /\ "HUP" \in cur.ev
  <2>1. remove_connection(cur.f) /\ UNCHANGED pendingClose
    BY <1>2 DEF AfterRead
  <2>2. due' = due \ {c}
    BY <1>2, <2>1 DEF remove_connection
  <2> QED
    BY <1>1, <1>2, <2>1, <2>2, RemoveStepOf
<1>3. CASE c # NoConn /\ "HUP" \notin cur.ev /\ "OUT" \in cur.ev
  <2>1. handle_write(c) /\ UNCHANGED <<connections, due>>
    BY <1>3 DEF AfterRead
  <2>2. Touches(c) /\ Carries(c, conn[c]) /\ ~OutDebt(c)'
    BY <1>1, <1>3, <2>1, HandleWriteTouches
  <2>3. TouchStep(c)
    BY <1>1, <1>3, <2>1, <2>2 DEF TouchStep, Carries, StartsOnly, TypeOK, ConnTypeOK
  <2> QED
    BY <1>1, <1>3, <2>1, <2>2, <2>3
<1>4. CASE c = NoConn \/ ({"HUP", "OUT"} \cap cur.ev = {})
  <2>1. UNCHANGED <<ioVars, connections, due>>
    BY <1>4 DEF AfterRead
  <2> QED
    BY <1>1, <1>4, <2>1 DEF Untouched
<1> QED
  BY <1>2, <1>3, <1>4

LEMMA SweepOneStep ==
  ASSUME Inv, NEW c \in Clients, SweepOne(c)
  PROVE  TouchStep(c) /\ Carries(c, conn[c])
BY RequestCloseStep DEF Inv, SweepOne, TimerKeeps

LEMMA FireHeartbeatStep ==
  ASSUME Inv, NEW c \in Clients, FireHeartbeat(c)
  PROVE  /\ TouchStep(c) /\ conn'[c].pend = conn[c].pend + 1
         /\ conn'[c].handler = conn[c].handler /\ conn'[c].fd = conn[c].fd
<1> DEFINE o == [conn[c] EXCEPT !.pend = @ + 1]
<1>1. conn[c] \in Obj /\ Len(conn[c].rbuf) <= MaxRead
  BY DEF Inv, TypeOK, ConnTypeOK, Obj
<1>2. /\ Edited(c, o) /\ Len(o.rbuf) <= MaxRead /\ o.pend = conn[c].pend + 1 /\ o.handler = conn[c].handler
      /\ o.fd = conn[c].fd
  BY <1>1 DEF Edited, Obj
<1>3. TouchStep(c) /\ conn'[c] = o
  BY <1>2, SetStep DEF FireHeartbeat, TimerKeeps, Inv
<1> QED
  BY <1>2, <1>3

LEMMA DeliverStep ==
  ASSUME Inv, Deliver
  PROVE  \E c \in Clients : c = Head(completions)[1] /\
           \/ Untouched /\ UNCHANGED <<pc, cur>>
           \/ /\ TouchStep(c) /\ Carries(c, conn[c]) /\ UNCHANGED connections
              /\ \/ UNCHANGED <<pc, cur>>
                 \/ pc' = "trailer" /\ cur' = [NoEvent EXCEPT !.c = c]
<1> DEFINE e == Head(completions)
<1>1. e \in Clients \X {"chunk", "done"}
  BY HeadTailProperties DEF Inv, TypeOK, Deliver
<1>2. PICK c \in Clients : c = e[1]
  BY <1>1
<1>3. UNCHANGED <<connections, backlog, agent>>
  BY DEF Deliver, CompletionKeeps, tableVars
<1>4. CASE ~Registered(c)
  BY <1>2, <1>3, <1>4 DEF Deliver, Untouched
<1>5. CASE Registered(c)
  <2>1. send_data(c, conn[c])
    BY <1>2, <1>5 DEF Deliver
  <2>2. conn[c] \in Obj /\ Len(conn[c].rbuf) <= MaxRead
    BY DEF Inv, TypeOK, ConnTypeOK, Obj
  <2>3. TouchStep(c) /\ Carries(c, conn[c])
    BY <1>3, <2>1, <2>2, SendStep DEF Edited, StartsOnly, Inv
  <2> QED
    BY <1>2, <1>3, <1>5, <2>3 DEF Deliver, Goto
<1> QED
  BY <1>4, <1>5

LEMMA TrailerStep ==
  ASSUME Inv, DeliverTrailer \/ FinishChat, NEW c, c = cur.c
  PROVE  c \in Clients /\ TouchStep(c) /\ Carries(c, conn[c])
<1>1. c \in Clients /\ UNCHANGED <<connections, backlog, agent>>
  BY DEF Inv, ControlInv, DeliverTrailer, FinishChat, CompletionKeeps, tableVars
<1>2. conn[c] \in Obj /\ Len(conn[c].rbuf) <= MaxRead
  BY <1>1 DEF Inv, TypeOK, ConnTypeOK, Obj
<1>3. CASE DeliverTrailer
  BY <1>1, <1>2, <1>3, SendStep DEF DeliverTrailer, Edited, StartsOnly, Inv
<1>4. CASE FinishChat
  BY <1>1, <1>4, RequestCloseStep DEF FinishChat, Inv
<1> QED
  BY <1>3, <1>4

LEMMA BecomeIdleStep ==
  ASSUME Inv, NEW c \in Clients, BecomeIdle(c)
  PROVE  TouchStep(c) /\ Carries(c, conn[c])
<1> DEFINE o == [conn[c] EXCEPT !.idle = TRUE]
<1>1. conn[c] \in Obj /\ Len(conn[c].rbuf) <= MaxRead
  BY DEF Inv, TypeOK, ConnTypeOK, Obj
<1>2. /\ Edited(c, o) /\ Len(o.rbuf) <= MaxRead /\ o.pend = conn[c].pend /\ o.handler = conn[c].handler
      /\ o.rbuf = conn[c].rbuf
  BY <1>1 DEF Edited, Obj
<1>3. TouchStep(c) /\ conn'[c] = o
  BY <1>2, SetStep DEF BecomeIdle, kernelVars, tableVars, agentVars, Inv
<1> QED
  BY <1>2, <1>3 DEF Carries

LEMMA DeferredCloseStep ==
  ASSUME Inv, NEW f \in Fds, DeferredClose(f)
  PROVE  \/ QuietStep /\ UNCHANGED due
         \/ RemoveStep(f) /\ due' = due \ {connections[f]}
<1>1. /\ TypeOK /\ TablesInv /\ remove_connection(f) /\ pendingClose' = pendingClose \ {f}
      /\ UNCHANGED <<backlog, agent>>
  BY DEF Inv, DeferredClose, agentVars
<1>2. CASE connections[f] = NoConn
  <2>1. UNCHANGED <<connections, due, conn, fdEvents, sock, epoll>>
    BY <1>1, <1>2 DEF remove_connection
  <2> QED
    BY <1>1, <1>2, <2>1 DEF QuietStep, StartsNone, TypeOK, KernelTypeOK, ConnTypeOK, Entry
<1>3. CASE connections[f] # NoConn
  <2>1. due' = due \ {connections[f]}
    BY <1>1, <1>3 DEF remove_connection
  <2> QED
    BY <1>1, <1>3, <2>1, RemoveStepOf
<1> QED
  BY <1>2, <1>3

LEMMA EpollWaitStep ==
  ASSUME Inv, EpollWait
  PROVE  QuietStep /\ \A f \in Fds : ~epoll'[f].armed
<1>1. /\ epoll' = [f \in Fds |-> [epoll[f] EXCEPT !.armed = FALSE]]
      /\ UNCHANGED <<sock, backlog, conn, fdEvents, pendingClose, connections, agent>>
  BY DEF EpollWait, tableVars, agentVars
<1>2. epoll \in [Fds -> Entry] /\ pendingClose \subseteq Fds
  BY DEF Inv, TypeOK, KernelTypeOK, ConnTypeOK, Entry
<1>3. \A f \in Fds : /\ epoll'[f].owner = epoll[f].owner /\ epoll'[f].interest = epoll[f].interest
                     /\ ~epoll'[f].armed /\ epoll'[f] \in Entry
  BY <1>1, <1>2 DEF Entry
<1>4. epoll' \in [Fds -> Entry]
  BY <1>1, <1>3
<1> QED
  BY <1>1, <1>2, <1>3, <1>4 DEF QuietStep, StartsNone

----------------------------------------------------------------------------
(* Types, tables and control.                                              *)

(* The actions that touch no connection at all.                            *)
Bare ==
  \/ Dispatch \/ EventsDone \/ AcceptStop \/ FlushDone \/ (\E f \in Fds : FlushNext(f))
  \/ RecvAgain \/ RecvError \/ NeedMore \/ FireIdle \/ TimersDone \/ CompletionsDone \/ TurnDone
  \/ (\E t \in Timers : Expire(t)) \/ Crashed

LEMMA BareIsUntouched ==
  ASSUME Bare
  PROVE  Untouched
<1>1. CASE Dispatch
  BY <1>1 DEF Dispatch, Untouched, ioVars, agentVars
<1>2. CASE EventsDone \/ AcceptStop \/ FlushDone \/ (\E f \in Fds : FlushNext(f)) \/ TurnDone
  BY <1>2 DEF EventsDone, AcceptStop, FlushDone, FlushNext, TurnDone, Untouched, ioVars, agentVars,
              kernelVars, tableVars
<1>3. CASE RecvAgain \/ RecvError \/ NeedMore
  BY <1>3 DEF RecvAgain, RecvError, NeedMore, Untouched, ioVars, ReadKeeps, agentVars
<1>4. CASE FireIdle \/ TimersDone
  BY <1>4 DEF FireIdle, TimersDone, Untouched, ioVars, TimerKeeps
<1>5. CASE CompletionsDone
  BY <1>5 DEF CompletionsDone, Untouched, ioVars, CompletionKeeps, tableVars
<1>6. CASE (\E t \in Timers : Expire(t)) \/ Crashed
  BY <1>6 DEF Expire, Crashed, Untouched, vars, ioVars, agentVars, kernelVars, turnVars, tableVars
<1> QED
  BY <1>1, <1>2, <1>3, <1>4, <1>5, <1>6 DEF Bare

Emits(c) == AgentEmit(c) \/ AgentDone(c) \/ AgentStop(c)

LEMMA EmitsIsQuiet ==
  ASSUME Inv, NEW c \in Clients, Emits(c)
  PROVE  QuietStep /\ agent' \in [Clients -> [st : {"none", "running", "over"}, left : 0..MaxChunks]]
<1>1. agent \in [Clients -> [st : {"none", "running", "over"}, left : 0..MaxChunks]]
  BY DEF Inv, TypeOK
<1>2. UNCHANGED <<sock, conn, fdEvents, connections, backlog, epoll, pendingClose>>
  BY DEF Emits, AgentEmit, AgentDone, AgentStop, Post, kernelVars, tableVars
<1>3. ASSUME StartsNone PROVE QuietStep
  BY <1>2, <1>3 DEF QuietStep, Inv, TypeOK, KernelTypeOK, ConnTypeOK, Entry
<1>4. CASE agent' = [agent EXCEPT ![c].left = @ - 1] /\ agent[c].left > 0
  <2>1. agent[c].left - 1 \in 0..MaxChunks
    BY <1>1, <1>4, LoopAssumption
  <2>2. [agent[c] EXCEPT !.left = @ - 1] \in [st : {"none", "running", "over"}, left : 0..MaxChunks]
    BY <1>1, <2>1
  <2>3. agent' \in [Clients -> [st : {"none", "running", "over"}, left : 0..MaxChunks]]
    BY <1>1, <1>4, <2>2
  <2>4. StartsNone
    BY <1>1, <1>4 DEF StartsNone
  <2> QED
    BY <1>3, <2>3, <2>4
<1>5. CASE agent' = [agent EXCEPT ![c].st = "over"]
  <2>1. agent' \in [Clients -> [st : {"none", "running", "over"}, left : 0..MaxChunks]]
    BY <1>1, <1>5
  <2>2. StartsNone
    BY <1>1, <1>5 DEF StartsNone
  <2> QED
    BY <1>3, <2>1, <2>2
<1> QED
  BY <1>4, <1>5 DEF Emits, AgentEmit, AgentDone, AgentStop

(* Every step is one of these.                                             *)
Shape ==
  \/ \E c \in Clients : TouchStep(c)
  \/ \E f \in Fds : RemoveStep(f)
  \/ QuietStep /\ (UNCHANGED epoll \/ EpollWait)
  \/ \E c \in Clients : AcceptReject(c) \/ Peer(c) \/ \E f \in Fds : AcceptRegister(c, f)

LEMMA EveryStepHasAShape ==
  ASSUME Inv, Next
  PROVE  Shape
<1>0. TypeOK /\ (Untouched => Shape)
  BY UntouchedIsQuiet DEF Inv, Shape, Untouched, ioVars
<1>1. CASE Bare
  BY <1>0, <1>1, BareIsUntouched
<1>2. CASE EpollWait
  BY <1>2, EpollWaitStep DEF Shape
<1>3. CASE \E c \in Clients : AcceptReject(c) \/ Peer(c) \/ \E f \in Fds : AcceptRegister(c, f)
  BY <1>3 DEF Shape
<1>4. CASE \E f \in Fds : FlushEvent(f)
  BY <1>4, FlushEventStep DEF Shape
<1>5. CASE RecvBytes
  BY <1>5, RecvBytesStep DEF Shape
<1>6. CASE RecvEof
  BY <1>0, <1>6, RecvEofStep DEF Shape
<1>7. CASE Detect
  BY <1>0, <1>7, DetectStep DEF Shape
<1>8. CASE Serve
  BY <1>8, ServeStep DEF Shape
<1>9. CASE ReadFinish
  BY <1>0, <1>9, ReadFinishStep DEF Shape
<1>10. CASE AfterRead
  BY <1>0, <1>10, AfterReadStep DEF Shape
<1>11. CASE \E c \in Clients : SweepOne(c) \/ FireHeartbeat(c) \/ BecomeIdle(c)
  BY <1>11, SweepOneStep, FireHeartbeatStep, BecomeIdleStep DEF Shape
<1>12. CASE Deliver
  BY <1>0, <1>12, DeliverStep DEF Shape
<1>13. CASE DeliverTrailer \/ FinishChat
  BY <1>13, TrailerStep DEF Shape
<1>14. CASE \E f \in Fds : DeferredClose(f)
  <2>1. PICK f \in Fds : DeferredClose(f)
    BY <1>14
  <2>2. CASE connections[f] = NoConn
    <3>1. UNCHANGED epoll
      BY <2>1, <2>2 DEF DeferredClose, remove_connection
    <3>2. ~RemoveStep(f)
      BY <2>2 DEF RemoveStep
    <3> QED
      BY <2>1, <3>1, <3>2, DeferredCloseStep DEF Shape
  <2>3. CASE connections[f] # NoConn
    <3>1. RemoveStep(f)
      BY <2>1, <2>3, RemoveStepOf DEF Inv, DeferredClose, agentVars
    <3> QED
      BY <3>1 DEF Shape
  <2> QED
    BY <2>2, <2>3
<1>15. CASE \E c \in Clients : Emits(c)
  <2>1. UNCHANGED epoll
    BY <1>15 DEF Emits, AgentEmit, AgentDone, AgentStop, Post, kernelVars
  <2> QED
    BY <1>15, <2>1, EmitsIsQuiet DEF Shape
<1> QED
  BY <1>1, <1>2, <1>3, <1>4, <1>5, <1>6, <1>7, <1>8, <1>9, <1>10, <1>11, <1>12, <1>13, <1>14, <1>15
  DEF Next, Loop, Environment, Process, Bare, Serve, Emits

LEMMA StepKeepsTables ==
  ASSUME Inv, Next
  PROVE  TablesInv' /\ WorldTypes
<1>0. TypeOK /\ TablesInv /\ Shape
  BY EveryStepHasAShape DEF Inv
<1>1. CASE \E c \in Clients : TouchStep(c)
  <2>1. connections' \in [Fds -> Clients \cup {NoConn}]
    BY <1>0, <1>1 DEF TouchStep, TypeOK
  <2> QED
    BY <1>0, <1>1, <2>1, TouchesKeepTables, TouchesType DEF WorldTypes
<1>2. CASE \E f \in Fds : RemoveStep(f)
  BY <1>0, <1>2, RemovesKeepTables DEF RemoveStep
<1>3. CASE QuietStep
  BY <1>0, <1>3, QuietKeepsTables
<1>4. CASE \E c \in Clients : AcceptReject(c) \/ Peer(c) \/ \E f \in Fds : AcceptRegister(c, f)
  BY <1>0, <1>4, RejectKeepsTables, PeerKeepsTables, RegisterKeepsTables
<1> QED
  BY <1>0, <1>1, <1>2, <1>3, <1>4 DEF Shape

(* The variables of the turn.                                              *)
LocalTypes ==
  /\ listenArmed \in BOOLEAN /\ eventfd \in BOOLEAN
  /\ readyFds \subseteq Fds /\ flushing \subseteq Fds
  /\ pc \in PCs
  /\ cur \in [f : Fds \cup {NoFd}, c : Clients \cup {NoConn}, ev : SUBSET Events,
              need : BOOLEAN, eof : BOOLEAN]
  /\ batch \subseteq [src : Fds \cup {Listen, Wakeup}, ev : SUBSET Events]
  /\ due \subseteq Timers /\ firing \subseteq Timers /\ sweep \subseteq Clients
  /\ completions \in Seq(Clients \X {"chunk", "done"})
  /\ Len(completions) <= MaxCompletions
  /\ agent \in [Clients -> [st : {"none", "running", "over"}, left : 0..MaxChunks]]

LEMMA TypeParts == (TypeOK => LocalTypes) /\ (WorldTypes /\ LocalTypes' => TypeOK')
BY DEF TypeOK, LocalTypes, WorldTypes, KernelTypeOK

LEMMA EventTypes ==
  ASSUME TypeOK, NEW e, e \in Delivered
  PROVE  e \in [src : Fds \cup {Listen, Wakeup}, ev : SUBSET Events]
<1>1. \A c : Ready(c) \subseteq Events
  BY DEF Ready, Events
<1>2. \A f \in Fds : FdEvents(f) \in [src : Fds \cup {Listen, Wakeup}, ev : SUBSET Events]
  BY <1>1 DEF FdEvents
<1>3. {"IN"} \in SUBSET Events
  BY DEF Events
<1> QED
  BY <1>2, <1>3 DEF Delivered

LEMMA StepKeepsLocalTypes ==
  ASSUME Inv, Next
  PROVE  LocalTypes'
<1>0. /\ TypeOK /\ LocalTypes /\ NoFd \notin Fds /\ NoConn \notin Clients
      /\ \A f \in Fds : connections[f] \in Clients \cup {NoConn}
      /\ \A c \in Clients : conn[c].fd \in Fds \cup {NoFd}
  BY TypeParts, KernelAssumption DEF Inv, TypeOK, ConnTypeOK
<1>1. NoEvent \in [f : Fds \cup {NoFd}, c : Clients \cup {NoConn}, ev : SUBSET Events,
                   need : BOOLEAN, eof : BOOLEAN]
  BY DEF NoEvent
<1>r. Return \/ (\E l \in PCs : Leave(l)) =>
        pc' \in PCs /\ cur' \in [f : Fds \cup {NoFd}, c : Clients \cup {NoConn}, ev : SUBSET Events,
                                 need : BOOLEAN, eof : BOOLEAN]
  BY <1>0, <1>1 DEF Return, Leave, LocalTypes, PCs
<1>2. CASE EpollWait
  BY <1>0, <1>2, EventTypes DEF EpollWait, LocalTypes, tableVars, agentVars, Goto, PCs
<1>3. CASE Dispatch
  <2>1. PICK e \in batch : /\ batch' = batch \ {e}
                           /\ DispatchListen(e) \/ DispatchWakeup(e) \/ DispatchSocket(e)
    BY <1>3 DEF Dispatch
  <2>2. e.ev \in SUBSET Events
    BY <1>0, <2>1 DEF LocalTypes
  <2>3. CASE DispatchListen(e)
    BY <1>0, <1>3, <2>1, <2>3 DEF Dispatch, DispatchListen, LocalTypes, agentVars, Goto, PCs
  <2>5. CASE DispatchWakeup(e)
    BY <1>0, <1>3, <2>1, <2>5 DEF Dispatch, DispatchWakeup, LocalTypes, agentVars, Goto, PCs
  <2>4. CASE DispatchSocket(e)
    BY <1>0, <1>1, <1>3, <2>1, <2>2, <2>4 DEF Dispatch, DispatchSocket, LocalTypes, agentVars, Goto, PCs
  <2> QED
    BY <2>1, <2>3, <2>4, <2>5
<1>4. CASE EventsDone \/ AcceptStop \/ FlushDone \/ (\E f \in Fds : FlushNext(f)) \/ TurnDone
  BY <1>0, <1>4 DEF EventsDone, AcceptStop, FlushDone, FlushNext, TurnDone, LocalTypes, agentVars,
     kernelVars, tableVars, Goto, PCs
<1>5. CASE RecvAgain \/ RecvError \/ NeedMore
  BY <1>0, <1>5 DEF RecvAgain, RecvError, NeedMore, LocalTypes, ReadKeeps, agentVars, Goto, PCs
<1>6. CASE FireIdle \/ TimersDone \/ \E c \in Clients : SweepOne(c)
  BY <1>0, <1>6 DEF FireIdle, TimersDone, SweepOne, LocalTypes, TimerKeeps, Goto, PCs
<1>7. CASE \E c \in Clients : FireHeartbeat(c)
  <2>1. PICK c \in Clients : FireHeartbeat(c)
    BY <1>7
  <2>2. firing' \subseteq firing /\ sweep' = sweep /\ pc' = pc /\ UNCHANGED TimerKeeps
    BY <2>1 DEF FireHeartbeat
  <2>3. readyFds' \subseteq Fds /\ eventfd' \in BOOLEAN
    <3>1. \/ conn[c].fd # NoFd /\ readyFds' = readyFds \cup {conn[c].fd} /\ eventfd' = TRUE
          \/ readyFds' = readyFds /\ eventfd' = eventfd
      BY <2>1 DEF FireHeartbeat, Live
    <3>2. readyFds \subseteq Fds /\ eventfd \in BOOLEAN
      BY <1>0 DEF LocalTypes
    <3> QED
      BY <1>0, <3>1, <3>2
  <2> QED
    BY <1>0, <2>2, <2>3 DEF LocalTypes, TimerKeeps
<1>8. CASE CompletionsDone \/ DeliverTrailer \/ FinishChat
  BY <1>0, <1>1, <1>8 DEF CompletionsDone, DeliverTrailer, FinishChat, LocalTypes, CompletionKeeps, tableVars,
     Goto, Leave, PCs
<1>9. CASE Deliver
  <2>1. /\ completions # <<>> /\ completions' = Tail(completions)
        /\ UNCHANGED CompletionKeeps
    BY <1>9 DEF Deliver
  <2>2. completions' \in Seq(Clients \X {"chunk", "done"}) /\ Len(completions') <= MaxCompletions
    <3>1. /\ Tail(completions) \in Seq(Clients \X {"chunk", "done"}) /\ Len(completions) \in Nat
          /\ Len(Tail(completions)) = Len(completions) - 1
      BY <1>0, <2>1, HeadTailProperties, LenProperties DEF LocalTypes
    <3> QED
      BY <1>0, <2>1, <3>1, LoopAssumption DEF LocalTypes
  <2>3. pc' \in PCs /\ cur' \in [f : Fds \cup {NoFd}, c : Clients \cup {NoConn}, ev : SUBSET Events,
                                  need : BOOLEAN, eof : BOOLEAN]
    BY <1>0, <1>1, <1>9, DeliverStep DEF LocalTypes, PCs
  <2> QED
    BY <1>0, <2>1, <2>2, <2>3 DEF LocalTypes, CompletionKeeps, tableVars
<1>10. CASE \E t \in Timers : Expire(t)
  BY <1>0, <1>10 DEF Expire, LocalTypes, kernelVars, turnVars, agentVars
<1>11. CASE Crashed
  BY <1>0, <1>11 DEF Crashed, LocalTypes, vars, kernelVars, tableVars, turnVars, agentVars
<1>12. CASE \E c \in Clients : AcceptReject(c) \/ (\E f \in Fds : AcceptRegister(c, f))
  <2>1. CASE \E c \in Clients : AcceptReject(c)
    BY <1>0, <2>1 DEF AcceptReject, LocalTypes, tableVars, turnVars, agentVars
  <2>2. CASE \E c \in Clients, f \in Fds : AcceptRegister(c, f)
    BY <1>0, <2>2 DEF AcceptRegister, LocalTypes, turnVars, agentVars
  <2> QED
    BY <1>12, <2>1, <2>2
<1>13. CASE \E f \in Fds : FlushEvent(f)
  BY <1>0, <1>13 DEF FlushEvent, LocalTypes, tableVars, turnVars, agentVars
<1>14. CASE RecvBytes \/ RecvEof
  <2>1. UNCHANGED ReadKeeps
    BY <1>14 DEF RecvBytes, RecvEof
  <2>2. /\ due' \subseteq due
        /\ pc' \in PCs /\ cur' \in [f : Fds \cup {NoFd}, c : Clients \cup {NoConn}, ev : SUBSET Events,
                                  need : BOOLEAN, eof : BOOLEAN]
    <3>1. PICK c : c = cur.c
      OBVIOUS
    <3>2. CASE RecvBytes
      BY <1>0, <1>r, <3>1, <3>2, RecvBytesStep DEF LocalTypes
    <3>3. CASE RecvEof
      <4>1. \/ Return /\ due' = due \ {cur.c}
            \/ due' = due /\ cur' = [cur EXCEPT !.eof = TRUE] /\ pc' = "process"
        BY <3>1, <3>3, RecvEofStep
      <4>2. CASE Return /\ due' = due \ {cur.c}
        BY <1>0, <1>r, <4>2 DEF LocalTypes
      <4>3. CASE due' = due /\ cur' = [cur EXCEPT !.eof = TRUE] /\ pc' = "process"
        BY <1>0, <4>3 DEF LocalTypes, PCs
      <4> QED
        BY <4>1, <4>2, <4>3
    <3> QED
      BY <1>14, <3>2, <3>3
  <2> QED
    BY <1>0, <2>1, <2>2 DEF LocalTypes, ReadKeeps, agentVars
<1>15. CASE Detect \/ ReadFinish
  <2>1. UNCHANGED ReadKeeps
    BY <1>15 DEF Detect, ReadFinish
  <2>2. /\ due' \subseteq due
        /\ pc' \in PCs /\ cur' \in [f : Fds \cup {NoFd}, c : Clients \cup {NoConn}, ev : SUBSET Events,
                                  need : BOOLEAN, eof : BOOLEAN]
    <3>1. PICK c : c = cur.c
      OBVIOUS
    <3>2. CASE Detect
      <4>1. /\ due' = due \/ due' = due \ {cur.c}
            /\ Return \/ Leave("crashed") \/ UNCHANGED <<pc, cur>>
        BY <3>1, <3>2, DetectStep
      <4>2. "crashed" \in PCs
        BY DEF PCs
      <4>3. due' \subseteq due
        BY <4>1
      <4> QED
        BY <1>0, <1>r, <4>1, <4>2, <4>3 DEF LocalTypes
    <3>3. CASE ReadFinish
      BY <1>0, <1>1, <3>1, <3>3, ReadFinishStep DEF LocalTypes, PCs, Return, Leave
    <3> QED
      BY <1>15, <3>2, <3>3
  <2> QED
    BY <1>0, <2>1, <2>2 DEF LocalTypes, ReadKeeps, agentVars
<1>16. CASE Serve
  <2>1. cur' \in [f : Fds \cup {NoFd}, c : Clients \cup {NoConn}, ev : SUBSET Events,
                  need : BOOLEAN, eof : BOOLEAN]
    BY <1>0, <1>16, ServeStep DEF LocalTypes
  <2> QED
    BY <1>0, <1>16, <2>1, ServeStep DEF LocalTypes, PCs
<1>17. CASE AfterRead
  BY <1>0, <1>1, <1>17, AfterReadStep DEF LocalTypes, PCs, Leave, ReadKeeps, agentVars, Untouched
<1>18. CASE \E c \in Clients : BecomeIdle(c) \/ Peer(c)
  BY <1>0, <1>18, PeerArrives DEF BecomeIdle, LocalTypes, tableVars, turnVars, agentVars, kernelVars, Inv
<1>19. CASE \E f \in Fds : DeferredClose(f)
  BY <1>0, <1>19, DeferredCloseStep DEF DeferredClose, LocalTypes, tableVars, turnVars, agentVars
<1>20. CASE \E c \in Clients : Emits(c)
  <2>1. PICK c \in Clients : Emits(c)
    BY <1>20
  <2>2. UNCHANGED <<listenArmed, tableVars, turnVars>>
    BY <2>1 DEF Emits, AgentEmit, AgentDone, AgentStop, Post, kernelVars
  <2>3. /\ completions' \in Seq(Clients \X {"chunk", "done"}) /\ Len(completions') <= MaxCompletions
        /\ eventfd' \in BOOLEAN
    <3>1. CASE completions' = completions /\ UNCHANGED kernelVars
      BY <1>0, <3>1 DEF LocalTypes, kernelVars
    <3>2. CASE \E k \in {"chunk", "done"} : Post(c, k)
      <4>1. PICK k \in {"chunk", "done"} : Post(c, k)
        BY <3>2
      <4>2. /\ completions \in Seq(Clients \X {"chunk", "done"}) /\ <<c, k>> \in Clients \X {"chunk", "done"}
            /\ Len(completions) < MaxCompletions /\ completions' = Append(completions, <<c, k>>)
            /\ eventfd' \in BOOLEAN
        BY <1>0, <4>1 DEF Post, LocalTypes
      <4> QED
        BY <4>2, AppendProperties, LenProperties, LoopAssumption
    <3> QED
      BY <2>1, <3>1, <3>2 DEF Emits, AgentEmit, AgentDone, AgentStop
  <2> QED
    BY <1>0, <2>1, <2>2, <2>3, EmitsIsQuiet DEF LocalTypes, tableVars, turnVars
<1> QED
  BY <1>2, <1>3, <1>4, <1>5, <1>6, <1>7, <1>8, <1>9, <1>10, <1>11, <1>12, <1>13, <1>14, <1>15, <1>16,
     <1>17, <1>18, <1>19, <1>20
  DEF Next, Loop, Environment, Process, Serve, Emits

LEMMA StepKeepsControl ==
  ASSUME Inv, Next
  PROVE  ControlInv'
<1>0. TypeOK /\ ControlInv /\ connections \in [Fds -> Clients \cup {NoConn}] /\ NoConn \notin Clients
  BY KernelAssumption DEF Inv, TypeOK
<1>1. CASE EpollWait
  BY <1>0, <1>1 DEF EpollWait, ControlInv, Reading, EventPCs, Goto
<1>2. CASE Dispatch
  <2>1. PICK e \in batch : /\ batch' = batch \ {e}
                           /\ DispatchListen(e) \/ DispatchWakeup(e) \/ DispatchSocket(e)
    BY <1>2 DEF Dispatch
  <2> QED
    BY <1>0, <1>2, <2>1 DEF Dispatch, DispatchListen, DispatchWakeup, DispatchSocket, ControlInv,
       Reading, EventPCs, Goto, NoEvent
<1>3. CASE EventsDone \/ AcceptStop \/ FlushDone \/ (\E f \in Fds : FlushNext(f)) \/ TurnDone
  BY <1>0, <1>3 DEF EventsDone, AcceptStop, FlushDone, FlushNext, TurnDone, ControlInv, Reading, EventPCs,
     tableVars, Goto
<1>4. CASE RecvAgain \/ RecvError \/ NeedMore
  BY <1>0, <1>4 DEF RecvAgain, RecvError, NeedMore, ControlInv, Reading, EventPCs, ReadKeeps, ioVars, Goto,
     TypeOK
<1>5. CASE FireIdle \/ TimersDone \/ \E c \in Clients : SweepOne(c) \/ FireHeartbeat(c)
  BY <1>0, <1>5 DEF FireIdle, TimersDone, SweepOne, FireHeartbeat, ControlInv, Reading, EventPCs, TimerKeeps, Goto
<1>6. CASE CompletionsDone \/ DeliverTrailer \/ FinishChat
  BY <1>0, <1>6 DEF CompletionsDone, DeliverTrailer, FinishChat, ControlInv, Reading, EventPCs,
     CompletionKeeps, tableVars, Goto, Leave
<1>7. CASE Deliver
  <2>1. pc = "completions" /\ UNCHANGED CompletionKeeps
    BY <1>7 DEF Deliver
  <2>2. \/ UNCHANGED <<pc, cur>>
        \/ pc' = "trailer" /\ cur'.c \in Clients
    BY <1>7, DeliverStep DEF NoEvent
  <2> QED
    BY <1>0, <2>1, <2>2 DEF ControlInv, Reading, EventPCs, CompletionKeeps, tableVars
<1>8. CASE \E t \in Timers : Expire(t)
  BY <1>0, <1>8 DEF Expire, ControlInv, Reading, EventPCs, turnVars
<1>9. CASE Crashed
  BY <1>0, <1>9 DEF Crashed, ControlInv, Reading, EventPCs, vars, tableVars, turnVars
<1>10. CASE \E c \in Clients : AcceptReject(c) \/ (\E f \in Fds : AcceptRegister(c, f))
  BY <1>0, <1>10 DEF AcceptReject, AcceptRegister, ControlInv, Reading, EventPCs, tableVars, turnVars
<1>11. CASE \E f \in Fds : FlushEvent(f)
  BY <1>0, <1>11 DEF FlushEvent, ControlInv, Reading, EventPCs, tableVars, turnVars
<1>12. CASE RecvBytes \/ RecvEof
  <2>1. pc = "recv" /\ UNCHANGED ReadKeeps
    BY <1>12 DEF RecvBytes, RecvEof
  <2>2. \/ pc' = "after" /\ cur'.f = cur.f
        \/ UNCHANGED connections /\ pc' \in {"recv", "process"} /\ cur'.f = cur.f /\ cur'.c = cur.c
    BY <1>0, <1>12, <2>1, RecvBytesStep, RecvEofStep DEF Return, NoEvent, TouchStep, Untouched, TypeOK
  <2> QED
    BY <1>0, <2>1, <2>2 DEF ControlInv, Reading, EventPCs, ReadKeeps
<1>13. CASE Detect \/ ReadFinish
  <2>1. pc \in {"process", "finish"} /\ UNCHANGED ReadKeeps
    BY <1>13 DEF Detect, ReadFinish
  <2>2. \/ pc' = "after" /\ cur'.f = cur.f
        \/ pc' = "crashed"
        \/ UNCHANGED <<pc, cur, connections>>
    BY <1>13, DetectStep, ReadFinishStep DEF Return, Leave, NoEvent
  <2> QED
    BY <1>0, <2>1, <2>2 DEF ControlInv, Reading, EventPCs, ReadKeeps
<1>14. CASE Serve
  <2>1. /\ pc = "process" /\ pc' \in {"process", "finish"} /\ cur'.f = cur.f /\ cur'.c = cur.c
        /\ UNCHANGED <<connections, flushing, batch, firing, sweep>>
    BY <1>14, ServeStep
  <2> QED
    BY <1>0, <2>1 DEF ControlInv, Reading, EventPCs
<1>15. CASE AfterRead
  BY <1>0, <1>15 DEF AfterRead, Leave, ControlInv, Reading, EventPCs, ReadKeeps
<1>16. CASE \E c \in Clients : BecomeIdle(c) \/ Peer(c)
  BY <1>0, <1>16 DEF BecomeIdle, Peer, EnvKeeps, ControlInv, Reading, EventPCs, tableVars, turnVars
<1>17. CASE \E f \in Fds : DeferredClose(f)
  BY <1>0, <1>17 DEF DeferredClose, ControlInv, Reading, EventPCs, turnVars
<1>18. CASE \E c \in Clients : Emits(c)
  BY <1>0, <1>18 DEF Emits, AgentEmit, AgentDone, AgentStop, Post, ControlInv, Reading, EventPCs,
     tableVars, turnVars
<1> QED
  BY <1>1, <1>2, <1>3, <1>4, <1>5, <1>6, <1>7, <1>8, <1>9, <1>10, <1>11, <1>12, <1>13, <1>14, <1>15, <1>16,
     <1>17, <1>18
  DEF Next, Loop, Environment, Process, Serve, Emits

LEMMA InitInv == Init => Inv
<1> SUFFICES ASSUME Init PROVE Inv
  OBVIOUS
<1>1. /\ sock \in [Clients -> Sock] /\ \A c \in Clients : sock[c].peer = "off" /\ Len(sock[c].rcvq) = 0
  <2>1. PICK script \in [Clients -> UNION {Scripts[c] : c \in Clients}] :
          /\ \A c \in Clients : script[c] \in Scripts[c]
          /\ sock = [c \in Clients |-> [peer |-> "off", rcvq |-> <<>>, space |-> SockCap, todo |-> script[c]]]
    BY DEF Init, KernelInit
  <2>2. \A c \in Clients : script[c] \in Seq(Frames)
    BY <2>1, KernelAssumption
  <2>3. SockCap \in 0..SockCap
    BY KernelAssumption
  <2> QED
    BY <2>1, <2>2, <2>3, EmptySeq DEF Sock, Peers
<1>2. KernelTypeOK
  <2>1. FreeFd \in Entry
    BY DEF FreeFd, Entry
  <2>2. epoll \in [Fds -> Entry] /\ backlog \subseteq Clients /\ listenArmed \in BOOLEAN /\ eventfd \in BOOLEAN
    BY <2>1 DEF Init, KernelInit
  <2>3. \A c \in Clients : Len(sock[c].rcvq) <= MaxInFlight
    <3>1. 0 <= MaxInFlight
      BY KernelAssumption
    <3>2. \A c \in Clients : Len(sock[c].rcvq) = 0
      BY <1>1
    <3> QED
      BY <3>1, <3>2
  <2> QED
    BY <1>1, <2>2, <2>3 DEF KernelTypeOK, Sock, Entry
<1>3. ConnTypeOK /\ \A c \in Clients : conn[c].fd = NoFd
  <2>1. 0 \in 0..MaxWrite /\ 0 \in Nat /\ 0 <= MaxRead
    BY BufferAssumption
  <2>2. Object(NoFd) \in Obj /\ Object(NoFd).fd = NoFd /\ Len(Object(NoFd).rbuf) = 0
    BY <2>1, EmptySeq DEF Object, Obj, Handlers
  <2> QED
    BY <2>1, <2>2 DEF Init, ConnInit, ConnTypeOK, Obj
<1>4. LocalTypes
  <2>1. MaxChunks \in 0..MaxChunks /\ 0 <= MaxCompletions
    BY LoopAssumption
  <2>2. <<>> \in Seq(Clients \X {"chunk", "done"}) /\ Len(<<>>) = 0
    BY EmptySeq
  <2> QED
    BY <2>1, <2>2 DEF Init, KernelInit, LocalTypes, NoEvent, PCs
<1>5. TypeOK
  BY <1>2, <1>3, <1>4 DEF Init, LocalTypes, TypeOK
<1>6. ControlInv
  BY DEF Init, ConnInit, ControlInv, Reading, EventPCs
<1>7. TablesInv
  <2>1. \A f \in Fds : epoll[f].owner = NoConn /\ ~epoll[f].armed /\ connections[f] = NoConn
    BY DEF Init, KernelInit, FreeFd
  <2>2. \A c \in Clients : agent[c].st = "none" /\ ~Registered(c) /\ ~Live(c) /\ c \notin backlog
    BY <1>3, <2>1, KernelAssumption DEF Init, KernelInit, Registered, Live
  <2> QED
    BY <2>1, <2>2 DEF TablesInv
<1> QED
  BY <1>5, <1>6, <1>7 DEF Inv

LEMMA StutterKeepsInv == Inv /\ UNCHANGED vars => Inv'
BY DEF Inv, TypeOK, KernelTypeOK, ConnTypeOK, ControlInv, TablesInv, Live, Registered, vars, kernelVars,
       tableVars, turnVars, agentVars

(* What run() relies on at each of its places: which locals are in use,    *)
(* and that connections_, the objects, epoll's interest and the backlog    *)
(* describe the same set of live connections.                              *)
THEOREM ReactorInvariant == Spec => []Inv
<1>1. Inv /\ [Next]_vars => Inv'
  BY StepKeepsTables, StepKeepsLocalTypes, StepKeepsControl, TypeParts, StutterKeepsInv DEF Inv
<1> QED
  BY <1>1, InitInv, PTL DEF Spec

----------------------------------------------------------------------------
(* Edges.                                                                  *)

(* Who has output waits for EPOLLOUT; a reset socket has nothing to read.  *)
FlowInv ==
  /\ \A c \in Clients : Live(c) /\ conn[c].wbuf > 0 => "OUT" \in epoll[conn[c].fd].interest
  /\ \A c \in Clients : sock[c].peer = "rst" => sock[c].rcvq = <<>>

NoNewDebt(d) ==
  /\ InDebt(d)'  => InDebt(d)  /\ conn'[d].fd = conn[d].fd
  /\ HupDebt(d)' => HupDebt(d) /\ conn'[d].fd = conn[d].fd
  /\ OutDebt(d)' => OutDebt(d) /\ conn'[d].fd = conn[d].fd
  /\ FinDebt(d)' => FinDebt(d) /\ conn'[d].fd = conn[d].fd

LEMMA SameNoNewDebt ==
  ASSUME NEW d \in Clients, conn'[d] = conn[d], sock'[d] = sock[d],
         Live(d) => epoll'[conn[d].fd] = epoll[conn[d].fd]
  PROVE  NoNewDebt(d)
<1>1. Unarmed(d)' => Unarmed(d)
  BY DEF Unarmed, Live
<1> QED
  BY <1>1 DEF NoNewDebt, InDebt, HupDebt, OutDebt, FinDebt

LEMMA DeadNoNewDebt ==
  ASSUME NEW d \in Clients, conn'[d].fd = NoFd
  PROVE  NoNewDebt(d)
BY DEF NoNewDebt, InDebt, HupDebt, OutDebt, FinDebt, Unarmed, Live

LEMMA ShapeMakesNoDebt ==
  ASSUME Inv, FlowInv, Shape, ~EpollWait, NEW d \in Clients
  PROVE  NoNewDebt(d)
<1>0. TypeOK /\ TablesInv /\ Destroyed.fd = NoFd /\ d # NoConn
  BY KernelAssumption DEF Inv, Destroyed, Object
<1>1. ASSUME NEW c \in Clients, TouchStep(c) PROVE NoNewDebt(d)
  <2>1. CASE d # c
    <3>1. conn'[d] = conn[d] /\ sock'[d] = sock[d]
      BY <1>1, <2>1 DEF TouchStep, Touches, Others
    <3>2. Live(d) => conn[d].fd \in Fds /\ conn[d].fd # conn[c].fd
      BY <1>0, <2>1, LiveOwns DEF Live
    <3>3. Live(d) => epoll'[conn[d].fd] = epoll[conn[d].fd]
      BY <1>1, <3>2 DEF TouchStep, Touches, Others
    <3> QED
      BY <3>1, <3>3, SameNoNewDebt
  <2>2. CASE d = c /\ Closes(c)
    BY <2>2, DeadNoNewDebt DEF Closes
  <2>3. CASE d = c /\ Keeps(c) /\ ~Live(c)
    BY <2>3, DeadNoNewDebt DEF Keeps, Live
  <2>4. CASE d = c /\ Keeps(c) /\ Live(c)
    BY <2>4 DEF Keeps, NoNewDebt
  <2> QED
    BY <1>1, <2>1, <2>2, <2>3, <2>4 DEF TouchStep, Touches
<1>2. ASSUME NEW f \in Fds, RemoveStep(f) PROVE NoNewDebt(d)
  <2>1. CASE d = connections[f]
    BY <1>0, <1>2, <2>1, DeadNoNewDebt DEF RemoveStep, Removes
  <2>2. CASE d # connections[f]
    <3>1. conn'[d] = conn[d] /\ sock'[d] = sock[d] /\ conn[d].fd # f
      BY <1>2, <2>2 DEF RemoveStep, Removes
    <3>2. Live(d) => conn[d].fd \in Fds \ {f}
      BY <1>0, <3>1, LiveOwns
    <3>3. Live(d) => epoll'[conn[d].fd] = epoll[conn[d].fd]
      BY <1>2, <3>2 DEF RemoveStep, Removes
    <3> QED
      BY <3>1, <3>3, SameNoNewDebt
  <2> QED
    BY <2>1, <2>2
<1>3. CASE QuietStep /\ UNCHANGED epoll
  BY <1>3, SameNoNewDebt DEF QuietStep
<1>4. ASSUME NEW c \in Clients, AcceptReject(c) PROVE NoNewDebt(d)
  <2>1. c \in backlog /\ sock' = [sock EXCEPT ![c] = ClosedSocket] /\ UNCHANGED <<epoll, conn>>
    BY <1>4 DEF AcceptReject
  <2>2. CASE d = c
    <3>1. ~Live(c)
      BY <1>0, <2>1 DEF TablesInv
    <3> QED
      BY <2>1, <2>2, <3>1, DeadNoNewDebt DEF Live
  <2>3. CASE d # c
    BY <2>1, <2>3, SameNoNewDebt DEF Inv, TypeOK, KernelTypeOK
  <2> QED
    BY <2>2, <2>3
<1>5. ASSUME NEW c \in Clients, NEW f \in Fds, AcceptRegister(c, f) PROVE NoNewDebt(d)
  <2>1. CASE d = c
    <3>1. conn'[c] = Object(f) /\ sock' = sock /\ epoll'[f].armed = (Ready(c) \cap {"IN", "HUP"} # {})
      BY <1>0, <1>5, RegisterKeepsTables
    <3>2. conn'[c].fd = f /\ conn'[c].wbuf = 0
      BY <3>1 DEF Object
    <3>3. sock[c].rcvq # <<>> \/ sock[c].peer \in {"fin", "rst"} => "IN" \in Ready(c)
      BY DEF Ready
    <3>4. sock[c].rcvq # <<>> \/ sock[c].peer \in {"fin", "rst"} => epoll'[f].armed
      BY <3>1, <3>3
    <3>5. ~InDebt(c)' /\ ~HupDebt(c)' /\ ~OutDebt(c)' /\ ~FinDebt(c)'
      BY <3>1, <3>2, <3>4 DEF InDebt, HupDebt, OutDebt, FinDebt, Unarmed
    <3> QED
      BY <2>1, <3>5 DEF NoNewDebt
  <2>2. CASE d = connections[f] /\ d # c
    BY <1>0, <1>5, <2>2, RegisterKeepsTables, DeadNoNewDebt
  <2>3. CASE d # connections[f] /\ d # c
    <3>1. conn'[d] = conn[d] /\ sock' = sock /\ epoll[f].owner = NoConn
          /\ \A g \in Fds \ {f} : epoll'[g] = epoll[g]
      BY <1>0, <1>5, <2>3, RegisterKeepsTables
    <3>2. Live(d) => conn[d].fd \in Fds \ {f}
      BY <1>0, <3>1, LiveOwns
    <3> QED
      BY <3>1, <3>2, SameNoNewDebt
  <2> QED
    BY <2>1, <2>2, <2>3
<1>6. ASSUME NEW c \in Clients, Peer(c) PROVE NoNewDebt(d)
  <2>1. Arrives(c) /\ conn' = conn
    BY <1>0, <1>6, PeerArrives
  <2>2. CASE d = c
    <3>1. OutDebt(c)' => Live(c) /\ conn[c].wbuf > 0
      BY <2>1 DEF OutDebt, Unarmed, Live
    <3>2. OutDebt(c)' => OutDebt(c)
      BY <2>1, <3>1 DEF Arrives, FlowInv
    <3> QED
      BY <2>1, <2>2, <3>2 DEF Arrives, NoNewDebt
  <2>3. CASE d # c
    <3>1. sock'[d] = sock[d]
      BY <2>1, <2>3 DEF Arrives
    <3>2. Unarmed(d)' => Unarmed(d)
      <4>1. Live(d) => conn[d].fd \in Fds
        BY <1>0, LiveOwns
      <4> QED
        BY <2>1, <4>1 DEF Arrives, Unarmed, Live
    <3> QED
      BY <2>1, <3>1, <3>2 DEF NoNewDebt, InDebt, HupDebt, OutDebt, FinDebt
  <2> QED
    BY <2>2, <2>3
<1> QED
  BY <1>1, <1>2, <1>3, <1>4, <1>5, <1>6 DEF Shape

LEMMA ShapeKeepsFlow ==
  ASSUME Inv, FlowInv, Shape
  PROVE  FlowInv'
<1>0. TypeOK /\ TablesInv /\ Destroyed.fd = NoFd /\ ClosedSocket.peer = "closed" /\ NoConn \notin Clients
      /\ conn \in [Clients -> Obj] /\ sock \in [Clients -> Sock] /\ epoll \in [Fds -> Entry]
      /\ connections \in [Fds -> Clients \cup {NoConn}]
  BY KernelAssumption DEF Inv, Destroyed, Object, ClosedSocket, TypeOK, KernelTypeOK, ConnTypeOK, Obj, Sock, Entry
<1>1. ASSUME NEW d \in Clients,
             \/ conn'[d].fd = NoFd
             \/ /\ conn'[d] = conn[d]
                /\ Live(d) => epoll'[conn[d].fd].interest = epoll[conn[d].fd].interest
      PROVE  Live(d)' /\ conn'[d].wbuf > 0 => "OUT" \in epoll'[conn'[d].fd].interest
  BY <1>1 DEF FlowInv, Live
<1> DEFINE Out(d) == Live(d)' /\ conn'[d].wbuf > 0 => "OUT" \in epoll'[conn'[d].fd].interest
           Rst(d) == sock'[d].peer = "rst" => sock'[d].rcvq = <<>>
<1>2. ASSUME NEW c \in Clients, TouchStep(c), NEW d \in Clients PROVE Out(d) /\ Rst(d)
  <2>1. CASE d # c
    <3>1. conn'[d] = conn[d] /\ sock'[d] = sock[d]
      BY <1>2, <2>1 DEF TouchStep, Touches, Others
    <3>2. Live(d) => conn[d].fd \in Fds /\ conn[d].fd # conn[c].fd
      BY <1>0, <2>1, LiveOwns DEF Live
    <3>3. Live(d) => epoll'[conn[d].fd] = epoll[conn[d].fd]
      BY <1>2, <3>2 DEF TouchStep, Touches, Others
    <3> QED
      BY <1>1, <3>1, <3>3 DEF FlowInv
  <2>2. CASE d = c /\ Closes(c)
    BY <1>0, <1>1, <2>2 DEF Closes
  <2>3. CASE d = c /\ Keeps(c)
    <3>1. Rst(d)
      BY <2>3 DEF Keeps, FlowInv
    <3>2. conn'[c].wbuf > 0 => conn'[c].wbuf # 0
      OBVIOUS
    <3>3. Live(c) => "OUT" \in epoll[conn[c].fd].interest \/ conn[c].wbuf = 0
      BY <1>0 DEF FlowInv, Obj
    <3>4. Live(c) /\ conn'[c].wbuf > 0 => "OUT" \in epoll'[conn[c].fd].interest
      BY <2>3, <3>2, <3>3 DEF Keeps
    <3>5. conn'[c].fd = conn[c].fd
      BY <2>3 DEF Keeps
    <3> QED
      BY <2>3, <3>1, <3>4, <3>5 DEF Live
  <2> QED
    BY <1>2, <2>1, <2>2, <2>3 DEF TouchStep, Touches
<1>3. ASSUME NEW f \in Fds, RemoveStep(f), NEW d \in Clients PROVE Out(d) /\ Rst(d)
  <2>1. CASE d = connections[f]
    BY <1>0, <1>1, <1>3, <2>1 DEF RemoveStep, Removes, FlowInv
  <2>2. CASE d # connections[f]
    <3>1. conn'[d] = conn[d] /\ sock'[d] = sock[d] /\ conn[d].fd # f
      BY <1>3, <2>2 DEF RemoveStep, Removes
    <3>2. Live(d) => conn[d].fd \in Fds \ {f}
      BY <1>0, <3>1, LiveOwns
    <3>3. Live(d) => epoll'[conn[d].fd] = epoll[conn[d].fd]
      BY <1>3, <3>2 DEF RemoveStep, Removes
    <3> QED
      BY <1>1, <3>1, <3>3 DEF FlowInv
  <2> QED
    BY <2>1, <2>2
<1>4. ASSUME QuietStep, NEW d \in Clients PROVE Out(d) /\ Rst(d)
  <2>1. Live(d) => conn[d].fd \in Fds
    BY <1>0, LiveOwns
  <2> QED
    BY <1>1, <1>4, <2>1 DEF QuietStep, FlowInv
<1>5. ASSUME NEW c \in Clients, AcceptReject(c), NEW d \in Clients PROVE Out(d) /\ Rst(d)
  BY <1>0, <1>1, <1>5 DEF AcceptReject, FlowInv
<1>6. ASSUME NEW c \in Clients, NEW f \in Fds, AcceptRegister(c, f), NEW d \in Clients PROVE Out(d) /\ Rst(d)
  <2>0. sock' = sock
    BY <1>0, <1>6, RegisterKeepsTables
  <2>1. CASE d = c
    <3>1. conn'[c] = Object(f)
      BY <1>0, <1>6, RegisterKeepsTables
    <3> QED
      BY <2>0, <2>1, <3>1 DEF Object, FlowInv
  <2>2. CASE d = connections[f] /\ d # c
    <3>1. conn'[d].fd = NoFd
      BY <1>0, <1>6, <2>2, RegisterKeepsTables
    <3> QED
      BY <1>1, <2>0, <3>1 DEF FlowInv
  <2>3. CASE d # connections[f] /\ d # c
    <3>1. conn'[d] = conn[d] /\ epoll[f].owner = NoConn
          /\ \A g \in Fds \ {f} : epoll'[g] = epoll[g]
      BY <1>0, <1>6, <2>3, RegisterKeepsTables
    <3>2. Live(d) => conn[d].fd \in Fds \ {f}
      BY <1>0, <3>1, LiveOwns
    <3> QED
      BY <1>1, <2>0, <3>1, <3>2 DEF FlowInv
  <2> QED
    BY <2>1, <2>2, <2>3
<1>7. ASSUME NEW c \in Clients, Peer(c), NEW d \in Clients PROVE Out(d) /\ Rst(d)
  <2>1. Arrives(c) /\ conn' = conn
    BY <1>0, <1>7, PeerArrives
  <2>2. Live(d) => conn[d].fd \in Fds
    BY <1>0, LiveOwns
  <2>3. Out(d)
    BY <1>1, <2>1, <2>2 DEF Arrives
  <2>4. Rst(d)
    BY <2>1 DEF Arrives, FlowInv
  <2> QED
    BY <2>3, <2>4
<1> QED
  BY <1>2, <1>3, <1>4, <1>5, <1>6, <1>7 DEF Shape, FlowInv

(* Where an edge that epoll_wait handed over, and so forgot, still is: in  *)
(* an event of this turn, or with the one being handled.                   *)
Told(c, e)  == \E x \in batch : x.src = conn[c].fd /\ e \in x.ev
Handling(c) == pc \in Reading \cup {"after"} /\ cur.f = conn[c].fd
Receiving(c) == pc = "recv" /\ cur.c = c
SawEof(c)   == pc \in {"process", "finish"} /\ cur.c = c /\ cur.eof

EdgeOf(c) ==
  /\ InDebt(c)  => Told(c, "IN")  \/ Receiving(c)
  /\ HupDebt(c) => Told(c, "HUP") \/ (Handling(c) /\ "HUP" \in cur.ev)
  /\ OutDebt(c) => Told(c, "OUT") \/ (Handling(c) /\ "OUT" \in cur.ev)
  /\ FinDebt(c) => Told(c, "IN")  \/ Receiving(c) \/ SawEof(c)

EdgeInv == pc # "crashed" => \A c \in Clients : EdgeOf(c)

(* Whatever the step, a debt it leaves was there before it; it remains to  *)
(* be seen that what was being handled still is.                           *)
LEMMA DebtsBefore ==
  ASSUME Inv, FlowInv, EdgeInv, Next, ~EpollWait, pc # "crashed", UNCHANGED batch, NEW c \in Clients
  PROVE  /\ InDebt(c)'  => InDebt(c)  /\ (Told(c, "IN")'  \/ Receiving(c))
         /\ HupDebt(c)' => HupDebt(c) /\ (Told(c, "HUP")' \/ (Handling(c) /\ "HUP" \in cur.ev))
         /\ OutDebt(c)' => OutDebt(c) /\ (Told(c, "OUT")' \/ (Handling(c) /\ "OUT" \in cur.ev))
         /\ FinDebt(c)' => FinDebt(c) /\ (Told(c, "IN")'  \/ Receiving(c) \/ SawEof(c))
         /\ HupDebt(c)' \/ OutDebt(c)' => conn'[c].fd = conn[c].fd
<1>1. NoNewDebt(c) /\ EdgeOf(c)
  BY EveryStepHasAShape, ShapeMakesNoDebt DEF EdgeInv
<1>2. ASSUME NEW e, Told(c, e), conn'[c].fd = conn[c].fd PROVE Told(c, e)'
  BY <1>2 DEF Told
<1> QED
  BY <1>1, <1>2 DEF NoNewDebt, EdgeOf

LEMMA NotHandling ==
  ASSUME Inv, FlowInv, EdgeInv, Next, ~EpollWait, UNCHANGED batch,
         pc \notin Reading \cup {"after", "crashed"}
  PROVE  EdgeInv'
<1> SUFFICES ASSUME NEW c \in Clients PROVE EdgeOf(c)'
  BY DEF EdgeInv
<1>1. ~Receiving(c) /\ ~Handling(c) /\ ~SawEof(c)
  BY DEF Receiving, Handling, SawEof, Reading
<1> QED
  BY <1>1, DebtsBefore DEF EdgeOf

(* An event of the eventfd or of the listening socket pays no debt.        *)
LEMMA DispatchKeepsEdges ==
  ASSUME Inv, FlowInv, EdgeInv, Dispatch
  PROVE  EdgeInv'
<1>0. TypeOK /\ TablesInv /\ Untouched /\ pc = "events"
  BY BareIsUntouched DEF Inv, Bare, Dispatch
<1> SUFFICES ASSUME NEW c \in Clients PROVE EdgeOf(c)'
  BY DEF EdgeInv
<1>1. UNCHANGED <<conn, sock, epoll>>
  BY <1>0 DEF Untouched, ioVars
<1>2. /\ InDebt(c)'  => InDebt(c)
      /\ HupDebt(c)' => HupDebt(c)
      /\ OutDebt(c)' => OutDebt(c)
      /\ FinDebt(c)' => FinDebt(c)
  BY <1>1 DEF InDebt, HupDebt, OutDebt, FinDebt, Unarmed, Live
<1>3. /\ InDebt(c)  => Told(c, "IN")
      /\ HupDebt(c) => Told(c, "HUP")
      /\ OutDebt(c) => Told(c, "OUT")
      /\ FinDebt(c) => Told(c, "IN")
  BY <1>0 DEF EdgeInv, EdgeOf, Receiving, Handling, SawEof, Reading
<1>4. PICK e \in batch : /\ batch' = batch \ {e}
                         /\ DispatchListen(e) \/ DispatchWakeup(e) \/ DispatchSocket(e)
  BY DEF Dispatch
<1>5. /\ Told(c, "IN")  => Told(c, "IN")'  \/ (e.src = conn[c].fd /\ "IN" \in e.ev)
      /\ Told(c, "HUP") => Told(c, "HUP")' \/ (e.src = conn[c].fd /\ "HUP" \in e.ev)
      /\ Told(c, "OUT") => Told(c, "OUT")' \/ (e.src = conn[c].fd /\ "OUT" \in e.ev)
  BY <1>1, <1>4 DEF Told
<1>6. CASE DispatchListen(e) \/ DispatchWakeup(e)
  <2>1. e.src \notin Fds
    BY <1>6, LoopAssumption DEF DispatchListen, DispatchWakeup
  <2>2. Live(c) => e.src # conn[c].fd
    BY <1>0, <2>1, LiveOwns
  <2> QED
    BY <1>2, <1>3, <1>5, <2>2 DEF EdgeOf, InDebt, HupDebt, OutDebt, FinDebt, Unarmed
<1>7. CASE DispatchSocket(e) /\ e.src # conn[c].fd
  BY <1>2, <1>3, <1>5, <1>7 DEF EdgeOf
<1>8. CASE DispatchSocket(e) /\ e.src = conn[c].fd
  <2>1. Live(c) /\ connections[e.src] = c /\ c # NoConn
    BY <1>0, <1>8, LiveOwns, KernelAssumption DEF DispatchSocket, Live
  <2>2. /\ cur'.f = e.src /\ cur'.c = c /\ cur'.ev = e.ev
        /\ pc' = IF "IN" \in e.ev THEN "recv" ELSE "after"
    BY <1>8, <2>1 DEF DispatchSocket, Goto, NoEvent
  <2>3. Handling(c)' /\ ("IN" \in e.ev => Receiving(c)')
    BY <1>1, <1>8, <2>2 DEF Handling, Receiving, Reading
  <2> QED
    BY <1>2, <1>3, <1>5, <2>2, <2>3 DEF EdgeOf
<1> QED
  BY <1>4, <1>6, <1>7, <1>8

(* epoll_wait hands over every edge that stands for a debt.                *)
LEMMA EpollWaitKeepsEdges ==
  ASSUME Inv, FlowInv, EdgeInv, EpollWait
  PROVE  EdgeInv'
<1>0. TypeOK /\ TablesInv /\ pc = "wait" /\ batch = {}
  BY DEF Inv, ControlInv, EpollWait, EventPCs, Reading
<1>1. UNCHANGED <<conn, sock>> /\ batch' = {e \in Delivered : e.ev # {}}
  BY DEF EpollWait
<1> SUFFICES ASSUME NEW c \in Clients PROVE EdgeOf(c)'
  BY DEF EdgeInv
<1>2. ~InDebt(c) /\ ~HupDebt(c) /\ ~OutDebt(c) /\ ~FinDebt(c)
  BY <1>0 DEF EdgeInv, EdgeOf, Told, Receiving, Handling, SawEof, Reading
<1>3. Unarmed(c)' => Live(c)
  BY <1>1 DEF Unarmed, Live
<1>4. ASSUME Live(c), epoll[conn[c].fd].armed,
             NEW k, k \in Ready(c), k \in epoll[conn[c].fd].interest \cup {"HUP"}
      PROVE  Told(c, k)'
  <2> DEFINE e == FdEvents(conn[c].fd)
  <2>1. conn[c].fd \in Fds /\ epoll[conn[c].fd].owner = c
    BY <1>0, <1>4, LiveOwns
  <2>2. e \in Delivered /\ e.src = conn[c].fd /\ k \in e.ev
    BY <1>4, <2>1 DEF Delivered, FdEvents
  <2>3. e \in batch'
    BY <1>1, <2>2
  <2> HIDE DEF e
  <2> QED
    BY <1>1, <2>2, <2>3 DEF Told
<1>5. Live(c) => "IN" \in epoll[conn[c].fd].interest
  BY <1>0, LiveOwns
<1>6. InDebt(c)' => Told(c, "IN")'
  <2>1. ASSUME InDebt(c)' PROVE Live(c) /\ epoll[conn[c].fd].armed /\ "IN" \in Ready(c)
    BY <1>1, <1>2, <1>3, <2>1 DEF InDebt, Unarmed, Ready
  <2> QED
    BY <1>4, <1>5, <2>1
<1>7. HupDebt(c)' => Told(c, "HUP")'
  <2>1. ASSUME HupDebt(c)' PROVE Live(c) /\ epoll[conn[c].fd].armed /\ "HUP" \in Ready(c)
    BY <1>1, <1>2, <1>3, <2>1 DEF HupDebt, Unarmed, Ready
  <2> QED
    BY <1>4, <2>1
<1>8. OutDebt(c)' => Told(c, "OUT")'
  <2>1. ASSUME OutDebt(c)' PROVE Live(c) /\ epoll[conn[c].fd].armed /\ "OUT" \in Ready(c)
                                 /\ "OUT" \in epoll[conn[c].fd].interest
    BY <1>1, <1>2, <1>3, <2>1 DEF OutDebt, Unarmed, Ready, FlowInv
  <2> QED
    BY <1>4, <2>1
<1>9. FinDebt(c)' => Told(c, "IN")'
  <2>1. ASSUME FinDebt(c)' PROVE Live(c) /\ epoll[conn[c].fd].armed /\ "IN" \in Ready(c)
    BY <1>1, <1>2, <1>3, <2>1 DEF FinDebt, Unarmed, Ready
  <2> QED
    BY <1>4, <1>5, <2>1
<1> QED
  BY <1>6, <1>7, <1>8, <1>9 DEF EdgeOf

(* on_readable and the rest of the event.                                  *)
LEMMA HandlingKeepsEdges ==
  ASSUME Inv, FlowInv, EdgeInv, Next, pc \in Reading \cup {"after"}, NEW c \in Clients,
         RecvBytes \/ RecvAgain \/ RecvEof \/ RecvError \/ Process \/ ReadFinish \/ AfterRead
  PROVE  pc' # "crashed" => EdgeOf(c)'
<1>0. /\ TypeOK /\ TablesInv /\ ControlInv /\ UNCHANGED batch /\ ~EpollWait /\ pc # "crashed"
      /\ cur.f \in Fds /\ NoConn \notin Clients
  BY KernelAssumption
  DEF Inv, ControlInv, Process, RecvBytes, RecvAgain, RecvEof, RecvError, Detect, NeedMore, ServeKeepAlive,
      ServeLast, Refuse, ServeAgain, UpgradeSse, UpgradeChat, ReadFinish, AfterRead, ReadKeeps,
      EpollWait, Reading
<1>1. /\ InDebt(c)'  => InDebt(c)  /\ (Told(c, "IN")'  \/ Receiving(c))
      /\ HupDebt(c)' => HupDebt(c) /\ (Told(c, "HUP")' \/ (Handling(c) /\ "HUP" \in cur.ev))
      /\ OutDebt(c)' => OutDebt(c) /\ (Told(c, "OUT")' \/ (Handling(c) /\ "OUT" \in cur.ev))
      /\ FinDebt(c)' => FinDebt(c) /\ (Told(c, "IN")'  \/ Receiving(c) \/ SawEof(c))
      /\ HupDebt(c)' \/ OutDebt(c)' => conn'[c].fd = conn[c].fd
  BY <1>0, DebtsBefore
(* Hang-ups and writability stay with the event until it is over.          *)
<1>2. ASSUME pc' \in Reading \cup {"after"}, cur'.f = cur.f, cur'.ev = cur.ev
      PROVE  /\ HupDebt(c)' => Told(c, "HUP")' \/ (Handling(c)' /\ "HUP" \in cur'.ev)
             /\ OutDebt(c)' => Told(c, "OUT")' \/ (Handling(c)' /\ "OUT" \in cur'.ev)
  <2>1. Handling(c) /\ conn'[c].fd = conn[c].fd => Handling(c)'
    BY <1>2 DEF Handling
  <2> QED
    BY <1>1, <1>2, <2>1
<1>3. ASSUME pc' \in Reading \cup {"after"}, cur'.f = cur.f, cur'.ev = cur.ev,
             InDebt(c)' /\ Receiving(c) => Receiving(c)',
             FinDebt(c)' /\ Receiving(c) => Receiving(c)' \/ SawEof(c)',
             FinDebt(c)' /\ SawEof(c) => SawEof(c)'
      PROVE  EdgeOf(c)'
  BY <1>1, <1>2, <1>3 DEF EdgeOf
<1>4. ASSUME ~Live(c)' PROVE EdgeOf(c)'
  BY <1>4 DEF EdgeOf, InDebt, HupDebt, OutDebt, FinDebt, Unarmed
<1>5. CASE RecvBytes
  <2>1. pc = "recv" /\ ~SawEof(c)
    BY <1>5 DEF RecvBytes, SawEof
  <2>2. PICK d : d = cur.c
    OBVIOUS
  <2>3. CASE RemoveStep(cur.f) /\ Return
    <3>1. CASE c = cur.c
      <4>1. connections[cur.f] = c
        BY <1>0, <2>1, <3>1 DEF ControlInv, Reading
      <4>2. ~Live(c)'
        BY <2>3, <4>1 DEF RemoveStep, Removes, Destroyed, Object, Live
      <4> QED
        BY <1>4, <4>2
    <3>2. CASE c # cur.c
      BY <1>3, <2>1, <2>3, <3>2 DEF Receiving, Return, NoEvent
    <3> QED
      BY <3>1, <3>2
  <2>4. CASE UNCHANGED <<pc, cur>>
    BY <1>3, <2>1, <2>4 DEF Receiving, Reading
  <2> QED
    BY <1>5, <2>2, <2>3, <2>4, RecvBytesStep
<1>6. CASE RecvAgain
  <2>1. /\ pc = "recv" /\ pc' = "process" /\ UNCHANGED <<cur, sock, conn>>
        /\ sock[cur.c].rcvq = <<>> /\ sock[cur.c].peer = "open"
    BY <1>6 DEF RecvAgain, Goto, ioVars
  <2>2. Receiving(c) => ~InDebt(c) /\ ~FinDebt(c)
    BY <2>1 DEF Receiving, InDebt, FinDebt
  <2>3. ~SawEof(c)
    BY <2>1 DEF SawEof
  <2> QED
    BY <1>1, <1>3, <2>1, <2>2, <2>3 DEF Reading
<1>7. CASE RecvError
  <2>1. /\ pc = "recv" /\ pc' = "process" /\ cur' = [cur EXCEPT !.need = TRUE]
        /\ ~Live(cur.c) \/ sock[cur.c].peer = "rst"
    BY <1>7 DEF RecvError, Goto
  <2>2. Receiving(c) => ~InDebt(c) /\ ~FinDebt(c)
    BY <2>1 DEF Receiving, InDebt, FinDebt, Unarmed, FlowInv
  <2>3. ~SawEof(c) /\ cur'.f = cur.f /\ cur'.ev = cur.ev
    BY <1>0, <2>1 DEF SawEof, TypeOK
  <2> QED
    BY <1>1, <1>3, <2>1, <2>2, <2>3 DEF Reading
<1>8. CASE RecvEof
  <2>1. pc = "recv" /\ ~SawEof(c) /\ sock[cur.c].rcvq = <<>>
    BY <1>8 DEF RecvEof, SawEof
  <2>2. Receiving(c) => ~InDebt(c)
    BY <2>1 DEF Receiving, InDebt
  <2>3. PICK d : d = cur.c
    OBVIOUS
  <2>4. CASE RemoveStep(cur.f) /\ Return
    <3>1. CASE c = cur.c
      <4>1. connections[cur.f] = c
        BY <1>0, <2>1, <3>1 DEF ControlInv, Reading
      <4>2. ~Live(c)'
        BY <2>4, <4>1 DEF RemoveStep, Removes, Destroyed, Object, Live
      <4> QED
        BY <1>4, <4>2
    <3>2. CASE c # cur.c
      BY <1>3, <2>1, <2>4, <3>2 DEF Receiving, Return, NoEvent
    <3> QED
      BY <3>1, <3>2
  <2>5. CASE cur' = [cur EXCEPT !.eof = TRUE] /\ pc' = "process"
    <3>1. cur'.f = cur.f /\ cur'.c = cur.c /\ cur'.ev = cur.ev /\ cur'.eof
      BY <1>0, <2>5 DEF TypeOK
    <3>2. Receiving(c) => SawEof(c)'
      BY <2>5, <3>1 DEF Receiving, SawEof
    <3> QED
      BY <1>1, <1>3, <2>1, <2>2, <2>5, <3>1, <3>2 DEF Reading
  <2> QED
    BY <1>8, <2>3, <2>4, <2>5, RecvEofStep
<1>9. CASE NeedMore
  <2>1. pc = "process" /\ pc' = "finish" /\ UNCHANGED cur
    BY <1>9 DEF NeedMore, Goto
  <2>2. ~Receiving(c) /\ (SawEof(c) => SawEof(c)')
    BY <2>1 DEF Receiving, SawEof
  <2> QED
    BY <1>3, <2>1, <2>2 DEF Reading
<1>10. CASE Serve
  <2>1. PICK d : d = cur.c
    OBVIOUS
  <2>2. /\ pc = "process" /\ pc' \in {"process", "finish"}
        /\ cur'.f = cur.f /\ cur'.c = cur.c /\ cur'.ev = cur.ev /\ cur'.eof = cur.eof
    BY <1>10, <2>1, ServeStep
  <2>3. ~Receiving(c) /\ (SawEof(c) => SawEof(c)')
    BY <2>2 DEF Receiving, SawEof
  <2> QED
    BY <1>3, <2>2, <2>3 DEF Reading
<1>11. CASE Detect \/ ReadFinish
  <2>1. PICK d : d = cur.c
    OBVIOUS
  <2>2. pc \in {"process", "finish"} /\ ~Receiving(c)
    BY <1>11 DEF Detect, ReadFinish, Receiving
  <2>3. CASE Return /\ c # cur.c
    BY <1>3, <2>2, <2>3 DEF Return, NoEvent, SawEof
  <2>4. CASE Return /\ ~cur.eof
    BY <1>3, <2>2, <2>4 DEF Return, NoEvent, SawEof
  <2>5. CASE Return /\ c = cur.c /\ (conn'[c].closeReq \/ conn'[c].fd = NoFd)
    <3>1. ~FinDebt(c)'
      BY <2>5 DEF FinDebt, Unarmed, Live
    <3> QED
      BY <1>3, <2>2, <2>5, <3>1 DEF Return, NoEvent
  <2>6. CASE Return /\ c = cur.c /\ RemoveStep(cur.f)
    <3>1. connections[cur.f] = c
      BY <1>0, <2>2, <2>6 DEF ControlInv, Reading
    <3>2. ~Live(c)'
      BY <2>6, <3>1 DEF RemoveStep, Removes, Destroyed, Object, Live
    <3> QED
      BY <1>4, <3>2
  <2>7. CASE UNCHANGED <<pc, cur>>
    BY <1>3, <2>2, <2>7 DEF SawEof, Reading
  <2> QED
    BY <1>11, <2>1, <2>3, <2>4, <2>5, <2>6, <2>7, DetectStep, ReadFinishStep DEF Leave
<1>12. CASE AfterRead
  <2>1. PICK d : d = connections[cur.f]
    OBVIOUS
  <2>2. pc = "after" /\ ~Receiving(c) /\ ~SawEof(c)
    BY <1>12 DEF AfterRead, Receiving, SawEof
  <2>3. Handling(c) /\ Live(c) => c = d
    BY <1>0, <2>1, LiveOwns DEF Handling
  <2>4. HupDebt(c)' \/ OutDebt(c)' => Live(c) /\ Live(c)'
    BY <1>1 DEF HupDebt, OutDebt, Unarmed
  <2>5. HupDebt(c)' => Told(c, "HUP")'
    <3>1. ASSUME HupDebt(c)', Handling(c), "HUP" \in cur.ev PROVE FALSE
      <4>1. c = d /\ RemoveStep(cur.f)
        BY <1>0, <1>12, <2>1, <2>3, <2>4, <3>1, AfterReadStep
      <4> QED
        BY <2>1, <2>4, <3>1, <4>1 DEF RemoveStep, Removes, Destroyed, Object, Live
    <3> QED
      BY <1>1, <3>1
  <2>6. OutDebt(c)' => Told(c, "OUT")'
    <3>1. ASSUME OutDebt(c)', Handling(c), "OUT" \in cur.ev PROVE FALSE
      <4>1. c = d
        BY <2>3, <2>4, <3>1
      <4>2. RemoveStep(cur.f) \/ ~OutDebt(c)'
        BY <1>0, <1>12, <2>1, <3>1, <4>1, AfterReadStep
      <4> QED
        BY <2>1, <2>4, <3>1, <4>1, <4>2 DEF RemoveStep, Removes, Destroyed, Object, Live
    <3> QED
      BY <1>1, <3>1
  <2> QED
    BY <1>1, <2>2, <2>5, <2>6 DEF EdgeOf
<1> QED
  BY <1>5, <1>6, <1>7, <1>8, <1>9, <1>10, <1>11, <1>12 DEF Process, Serve

ReadEvent == RecvBytes \/ RecvAgain \/ RecvEof \/ RecvError \/ Process \/ ReadFinish \/ AfterRead

LEMMA StepsByPlace ==
  ASSUME Next
  PROVE  \/ EpollWait \/ Dispatch
         \/ pc \in Reading \cup {"after"} /\ ReadEvent
         \/ UNCHANGED <<pc, cur, batch>>
         \/ pc \notin Reading \cup {"after", "crashed"} /\ UNCHANGED batch
<1>1. CASE ReadEvent
  <2>1. CASE RecvBytes \/ RecvAgain \/ RecvEof \/ RecvError \/ ReadFinish \/ AfterRead
    BY <1>1, <2>1 DEF RecvBytes, RecvAgain, RecvEof, RecvError, ReadFinish, AfterRead, Reading
  <2>2. CASE Process
    BY <1>1, <2>2 DEF Process, Detect, NeedMore, ServeKeepAlive, ServeLast, Refuse, ServeAgain, UpgradeSse,
       UpgradeChat, Request, Reading
  <2> QED
    BY <1>1, <2>1, <2>2 DEF ReadEvent
<1>2. CASE EventsDone \/ AcceptStop \/ FlushDone \/ TurnDone
  BY <1>2 DEF EventsDone, AcceptStop, FlushDone, TurnDone, Reading
<1>3. CASE TimersDone \/ CompletionsDone \/ Deliver \/ DeliverTrailer \/ FinishChat
  BY <1>3 DEF TimersDone, CompletionsDone, Deliver, DeliverTrailer, FinishChat, TimerKeeps, CompletionKeeps,
     Reading
<1>4. CASE \E c \in Clients : AcceptReject(c) \/ \E f \in Fds : AcceptRegister(c, f)
  BY <1>4 DEF AcceptReject, AcceptRegister, turnVars
<1>5. CASE \E f \in Fds : FlushNext(f) \/ FlushEvent(f) \/ DeferredClose(f)
  BY <1>5 DEF FlushNext, FlushEvent, DeferredClose, turnVars
<1>6. CASE FireIdle \/ \E c \in Clients : SweepOne(c) \/ FireHeartbeat(c)
  BY <1>6 DEF FireIdle, SweepOne, FireHeartbeat, TimerKeeps
<1>7. CASE Environment \/ Crashed
  BY <1>7 DEF Environment, Crashed, Peer, EnvKeeps, BecomeIdle, AgentEmit, AgentDone, AgentStop, Post, Expire,
     turnVars, vars
<1> QED
  BY <1>1, <1>2, <1>3, <1>4, <1>5, <1>6, <1>7 DEF Next, Loop, ReadEvent

LEMMA BystandersKeepEdges ==
  ASSUME Inv, FlowInv, EdgeInv, Next, ~EpollWait, UNCHANGED <<pc, cur, batch>>
  PROVE  EdgeInv'
<1> SUFFICES ASSUME NEW c \in Clients, pc # "crashed" PROVE EdgeOf(c)'
  BY DEF EdgeInv
<1>1. /\ Receiving(c) => Receiving(c)'
      /\ SawEof(c) => SawEof(c)'
      /\ Handling(c) /\ conn'[c].fd = conn[c].fd => Handling(c)'
  BY DEF Receiving, SawEof, Handling
<1> QED
  BY <1>1, DebtsBefore DEF EdgeOf

LEMMA StepKeepsEdges ==
  ASSUME Inv, FlowInv, EdgeInv, Next
  PROVE  FlowInv' /\ EdgeInv'
<1>1. FlowInv'
  BY EveryStepHasAShape, ShapeKeepsFlow
<1>2. CASE EpollWait
  BY <1>1, <1>2, EpollWaitKeepsEdges
<1>3. CASE Dispatch
  BY <1>1, <1>3, DispatchKeepsEdges
<1>4. CASE pc \in Reading \cup {"after"} /\ ReadEvent
  BY <1>1, <1>4, HandlingKeepsEdges DEF EdgeInv, ReadEvent
<1>5. CASE ~EpollWait /\ UNCHANGED <<pc, cur, batch>>
  BY <1>1, <1>5, BystandersKeepEdges
<1>6. CASE ~EpollWait /\ pc \notin Reading \cup {"after", "crashed"} /\ UNCHANGED batch
  BY <1>1, <1>6, NotHandling
<1> QED
  BY <1>2, <1>3, <1>4, <1>5, <1>6, StepsByPlace

(* Bytes, room in the socket, a reset or a half-close that the loop has    *)
(* not dealt with are announced by an edge that epoll_wait still has to    *)
(* report, or by the handler that took the edge and is not done.           *)
THEOREM EdgeInvariant == Spec => [](Inv /\ FlowInv /\ EdgeInv)
<1>1. Init => FlowInv /\ EdgeInv
  <2> SUFFICES ASSUME Init PROVE FlowInv /\ EdgeInv
    OBVIOUS
  <2>1. \A c \in Clients : ~Live(c) /\ sock[c].peer = "off"
    <3>1. \A c \in Clients : conn[c].fd = NoFd
      BY DEF Init, ConnInit, Object
    <3>2. \A c \in Clients : sock[c].peer = "off"
      <4>1. PICK script \in [Clients -> UNION {Scripts[c] : c \in Clients}] :
              sock = [c \in Clients |-> [peer |-> "off", rcvq |-> <<>>, space |-> SockCap, todo |-> script[c]]]
        BY DEF Init, KernelInit
      <4> QED
        BY <4>1
    <3> QED
      BY <3>1, <3>2 DEF Live
  <2> QED
    BY <2>1 DEF FlowInv, EdgeInv, EdgeOf, InDebt, HupDebt, OutDebt, FinDebt, Unarmed
<1>2. ASSUME Inv, FlowInv, EdgeInv, UNCHANGED vars PROVE FlowInv' /\ EdgeInv'
  BY <1>2 DEF FlowInv, EdgeInv, EdgeOf, InDebt, HupDebt, OutDebt, FinDebt, Unarmed, Live, Told, Handling,
     Receiving, SawEof, vars, kernelVars, turnVars
<1>3. Inv /\ FlowInv /\ EdgeInv /\ [Next]_vars => FlowInv' /\ EdgeInv'
  BY <1>2, StepKeepsEdges
<1> QED
  BY <1>1, <1>3, ReactorInvariant, PTL DEF Spec

(* Every variable keeps its type; wbuf_ stays within MAX_WRITE_BUFFER and  *)
(* read_buffer_ holds frames, whatever the peers do.                       *)
THEOREM ReactorTypes == Spec => []TypeOK
BY ReactorInvariant, PTL DEF Inv

(* After handle_accept, add_write_event, remove_write_event and every way  *)
(* of closing, connections_, fd_events_ and the epoll set say the same of  *)
(* a descriptor, also when its number is reused within a turn.             *)
THEOREM TablesAlwaysAgree == Spec => []TablesAgree
<1>1. Inv => TablesAgree
  BY DEF Inv, TablesInv, TablesAgree
<1> QED
  BY <1>1, ReactorInvariant, PTL

(* The turn that closes a connection also erases it: pending_close_fds_    *)
(* is empty, and no closed object is in the table, when run() waits.       *)
THEOREM TurnsEndClean == Spec => []TurnEndsClean
<1>1. Inv => TurnEndsClean
  BY DEF Inv, TablesInv, ControlInv, TurnEndsClean
<1> QED
  BY <1>1, ReactorInvariant, PTL

(* Whichever path closes the connection (peer, sweep, limit, destructor),  *)
(* the agent that still runs for it finds its cancellation flag set.       *)
THEOREM CancelAlwaysReachesAgent == Spec => []CancelReachesAgent
<1>1. Inv => CancelReachesAgent
  BY DEF Inv, TablesInv, CancelReachesAgent
<1> QED
  BY <1>1, ReactorInvariant, PTL

LEMMA NoDebtInWait ==
  ASSUME Inv, EdgeInv, pc = "wait", NEW c \in Clients
  PROVE  ~InDebt(c) /\ ~HupDebt(c) /\ ~OutDebt(c) /\ ~FinDebt(c)
<1>1. batch = {}
  BY DEF Inv, ControlInv, EventPCs, Reading
<1> QED
  BY <1>1 DEF EdgeInv, EdgeOf, Told, Receiving, Handling, SawEof, Reading

(* run() is never in epoll_wait with input it has not read, or with        *)
(* output the socket would take, unless an edge will wake it up.           *)
THEOREM NoEdgeIsLost == Spec => []NoLostEdge
<1>1. ASSUME Inv, FlowInv, EdgeInv, pc = "wait", NEW f \in Fds, epoll[f].owner # NoConn
      PROVE  LET c == epoll[f].owner IN
             /\ sock[c].rcvq # <<>> \/ sock[c].peer = "rst" => epoll[f].armed
             /\ conn[c].wbuf > 0 => /\ "OUT" \in epoll[f].interest
                                    /\ sock[c].space > 0 => epoll[f].armed
  <2>1. PICK c \in Clients : c = epoll[f].owner /\ conn[c].fd = f /\ Live(c)
    BY <1>1, KernelAssumption DEF Inv, TypeOK, KernelTypeOK, TablesInv, Live
  <2>2. ~InDebt(c) /\ ~HupDebt(c) /\ ~OutDebt(c)
    BY <1>1, NoDebtInWait
  <2> QED
    BY <1>1, <2>1, <2>2 DEF FlowInv, InDebt, HupDebt, OutDebt, Unarmed
<1>2. Inv /\ FlowInv /\ EdgeInv => NoLostEdge
  BY <1>1 DEF NoLostEdge
<1> QED
  BY <1>2, EdgeInvariant, PTL

(* When run() waits, every half-close whose edge it has taken has led to   *)
(* request_close, wherever in the recv loop the end was found.             *)
THEOREM EveryEofIsAnswered == Spec => []EofIsAnswered
<1>1. ASSUME Inv, EdgeInv, pc = "wait", NEW f \in Fds, epoll[f].owner # NoConn,
             sock[epoll[f].owner].peer = "fin", ~epoll[f].armed
      PROVE  conn[epoll[f].owner].closeReq
  <2>1. PICK c \in Clients : c = epoll[f].owner /\ conn[c].fd = f /\ Live(c)
    BY <1>1, KernelAssumption DEF Inv, TypeOK, KernelTypeOK, TablesInv, Live
  <2>2. ~FinDebt(c)
    BY <1>1, NoDebtInWait
  <2> QED
    BY <1>1, <2>1, <2>2 DEF FinDebt, Unarmed
<1>2. Inv /\ EdgeInv => EofIsAnswered
  BY <1>1 DEF EofIsAnswered
<1> QED
  BY <1>2, EdgeInvariant, PTL

----------------------------------------------------------------------------
(* The flush list.                                                         *)

Sse(c)      == Registered(c) /\ conn[c].handler = "sse"
HasEvent(f) == \E x \in batch : x.src = f
Owned(f)    == epoll[f].owner # NoConn
FlushPCs    == EventPCs \cup {"flush"}

(* Heartbeats are due, and events queued, only for streams in the table;   *)
(* nothing is queued for a stream whose heartbeat is about to fire.        *)
StreamInv ==
  /\ \A c \in Clients : c \in due \cup firing => Sse(c)
  /\ \A c \in Clients : conn[c].pend > 0 => conn[c].pend = 1 /\ Sse(c)
  /\ \A c \in Clients : c \in firing => conn[c].pend = 0

(* The list is emptied in the turn that finds it filled.                   *)
WakeInv ==
  /\ \A x, y \in batch : x.src = y.src => x = y
  /\ pc \in Reading \cup {"after"} => ~HasEvent(cur.f)
  /\ readyFds # {} => eventfd
  /\ readyFds # {} /\ pc \in EventPCs => HasEvent(Wakeup)
  /\ pc = "flush" => readyFds = {}

(* The entry of f may meet a flush: a stream, or a connection that came to *)
(* the number in this turn and gets no event in it.                        *)
Flushable(f) ==
  connections[f] # NoConn =>
    \/ conn[connections[f]].handler = "sse"
    \/ conn[connections[f]].handler = "none" /\ ~HasEvent(f) /\ ~(pc \in Reading /\ cur.f = f)

(* A descriptor in the list may be reused for a new connection, but no     *)
(* event of the new one comes in the turn that empties the list.           *)
ListInv ==
  /\ pc \in FlushPCs => \A f \in readyFds : HasEvent(f) => Owned(f)
  /\ pc \in FlushPCs => \A f \in readyFds \cup flushing : Flushable(f)
  /\ pc \notin FlushPCs \cup {"crashed"} => \A f \in readyFds :
       connections[f] # NoConn => conn[connections[f]].handler = "sse"

(* What is queued is in the list.                                          *)
QueueInv ==
  /\ pc \in FlushPCs \cup {"wait"} => \A f \in Fds :
       connections[f] # NoConn /\ conn[connections[f]].pend > 0 => f \in readyFds \cup flushing
  /\ pc \notin FlushPCs \cup {"wait", "crashed"} => \A f \in Fds :
       connections[f] # NoConn /\ conn[connections[f]].pend > 0 /\ Live(connections[f]) => f \in readyFds

FlushInv == StreamInv /\ WakeInv /\ ListInv /\ QueueInv

(* How a step may change the handlers and the queues of the streams.       *)
Still ==
  /\ connections' = connections
  /\ \A d \in Clients : /\ conn'[d].handler = conn[d].handler /\ conn'[d].pend = conn[d].pend
                        /\ Live(d)' => Live(d)

Changes(c) ==
  /\ TouchStep(c) /\ UNCHANGED due
  /\ \/ pc = "flush" /\ conn[c].pend > 0 /\ Carries(c, [conn[c] EXCEPT !.pend = @ - 1])
     \/ /\ pc = "process" /\ c = cur.c /\ connections[cur.f] = c
        /\ conn[c].handler # "sse" /\ conn'[c].pend = conn[c].pend
     \/ FireHeartbeat(c)

RemovesStream(f) ==
  /\ RemoveStep(f) /\ due' = due \ {connections[f]} /\ UNCHANGED readyFds /\ UNCHANGED firing
  /\ \/ pc \in Reading \cup {"after"} /\ cur.f = f
     \/ pc = "close"

LEMMA TouchIsStill ==
  ASSUME Inv, NEW c \in Clients, TouchStep(c), Carries(c, conn[c])
  PROVE  Still
<1>1. \A d \in Clients \ {c} : conn'[d] = conn[d]
  BY DEF TouchStep, Touches, Others
<1>2. Live(c)' => Live(c)
  BY DEF TouchStep, Touches, Keeps, Closes, Live
<1> QED
  BY <1>1, <1>2 DEF Still, TouchStep, Carries, Live

LEMMA UntouchedIsStill == Untouched => Still
BY DEF Untouched, ioVars, Still, Live

LEMMA StreamSteps ==
  ASSUME Inv, Next
  PROVE  \/ Still
         \/ \E c \in Clients : Changes(c)
         \/ \E f \in Fds : RemovesStream(f)
         \/ \E c \in Clients, f \in Fds : AcceptRegister(c, f)
<1>1. CASE Bare
  BY <1>1, BareIsUntouched, UntouchedIsStill
<1>2. CASE EpollWait
  BY <1>2 DEF EpollWait, Still, tableVars, Live
<1>3. CASE \E c \in Clients : AcceptReject(c) \/ Peer(c) \/ BecomeIdle(c) \/ Emits(c)
  <2>1. PICK c \in Clients : AcceptReject(c) \/ Peer(c) \/ BecomeIdle(c) \/ Emits(c)
    BY <1>3
  <2>2. CASE BecomeIdle(c)
    BY <2>2, BecomeIdleStep, TouchIsStill
  <2>3. CASE AcceptReject(c) \/ Peer(c) \/ Emits(c)
    <3>1. UNCHANGED <<conn, connections>>
      BY <2>3 DEF AcceptReject, Peer, EnvKeeps, Emits, AgentEmit, AgentDone, AgentStop, Post, tableVars
    <3> QED
      BY <3>1 DEF Still, Live
  <2> QED
    BY <2>1, <2>2, <2>3
<1>4. CASE \E c \in Clients : \E f \in Fds : AcceptRegister(c, f)
  BY <1>4
<1>5. CASE \E f \in Fds : FlushEvent(f)
  <2>1. PICK f \in Fds : FlushEvent(f)
    BY <1>5
  <2>2. PICK c : c = connections[f]
    OBVIOUS
  <2>3. Changes(c)
    BY <2>1, <2>2, FlushEventStep DEF Changes, FlushEvent, tableVars
  <2> QED
    BY <2>1, <2>2, <2>3, FlushEventStep
<1>6. CASE RecvBytes \/ RecvEof
  <2>1. PICK c : c = cur.c
    OBVIOUS
  <2>2. /\ pc = "recv" /\ UNCHANGED ReadKeeps /\ cur.f \in Fds /\ c \in Clients
        /\ connections[cur.f] = c
    BY <1>6, <2>1 DEF RecvBytes, RecvEof, Inv, ControlInv, Reading
  <2>3. CASE RemoveStep(cur.f) /\ due' = due \ {c}
    BY <2>2, <2>3 DEF RemovesStream, ReadKeeps, Reading
  <2>4. CASE Untouched
    BY <2>4, UntouchedIsStill
  <2>5. CASE TouchStep(c) /\ conn'[c].handler = conn[c].handler /\ conn'[c].pend = conn[c].pend
    <3>1. \A d \in Clients \ {c} : conn'[d] = conn[d]
      BY <2>5 DEF TouchStep, Touches, Others
    <3>2. Live(c)' => Live(c)
      BY <2>5 DEF TouchStep, Touches, Keeps, Closes, Live
    <3> QED
      BY <2>5, <3>1, <3>2 DEF Still, TouchStep, Live
  <2> QED
    BY <1>6, <2>1, <2>3, <2>4, <2>5, RecvBytesStep, RecvEofStep
<1>7. CASE Detect
  <2>1. PICK c : c = cur.c
    OBVIOUS
  <2>2. /\ pc = "process" /\ cur.f \in Fds /\ c \in Clients /\ connections[cur.f] = c
        /\ conn[c].handler = "none" /\ UNCHANGED ReadKeeps
    BY <1>7, <2>1, DetectStep
  <2>3. CASE RemoveStep(cur.f) /\ due' = due \ {c}
    BY <2>2, <2>3 DEF RemovesStream, ReadKeeps, Reading
  <2>4. CASE Untouched
    BY <2>4, UntouchedIsStill
  <2>5. CASE TouchStep(c) /\ conn'[c].pend = conn[c].pend /\ UNCHANGED due
    BY <2>1, <2>2, <2>5 DEF Changes
  <2> QED
    BY <1>7, <2>1, <2>3, <2>4, <2>5, DetectStep
<1>8. CASE Serve
  <2>1. PICK c : c = cur.c
    OBVIOUS
  <2> QED
    BY <1>8, <2>1, ServeStep DEF Changes
<1>9. CASE ReadFinish
  <2>1. PICK c : c = cur.c
    OBVIOUS
  <2> QED
    BY <1>9, <2>1, ReadFinishStep, TouchIsStill, UntouchedIsStill
<1>10. CASE AfterRead
  <2>1. PICK c : c = connections[cur.f]
    OBVIOUS
  <2>2. pc = "after" /\ cur.f \in Fds /\ UNCHANGED ReadKeeps
    BY <1>10, <2>1, AfterReadStep
  <2>3. CASE RemoveStep(cur.f) /\ due' = due \ {c}
    BY <2>1, <2>2, <2>3 DEF RemovesStream, ReadKeeps
  <2> QED
    BY <1>10, <2>1, <2>3, AfterReadStep, TouchIsStill, UntouchedIsStill
<1>11. CASE \E c \in Clients : SweepOne(c) \/ FireHeartbeat(c)
  BY <1>11, SweepOneStep, FireHeartbeatStep, TouchIsStill DEF Changes, FireHeartbeat, TimerKeeps
<1>12. CASE Deliver \/ DeliverTrailer \/ FinishChat
  BY <1>12, DeliverStep, TrailerStep, TouchIsStill, UntouchedIsStill
<1>13. CASE \E f \in Fds : DeferredClose(f)
  <2>1. PICK f \in Fds : DeferredClose(f)
    BY <1>13
  <2>2. CASE connections[f] = NoConn
    BY <2>1, <2>2 DEF DeferredClose, remove_connection, Still, Live
  <2>3. CASE connections[f] # NoConn
    BY <2>1, <2>3, RemoveStepOf DEF RemovesStream, DeferredClose, remove_connection, turnVars, agentVars, Inv
  <2> QED
    BY <2>2, <2>3
<1> QED
  BY <1>1, <1>2, <1>3, <1>4, <1>5, <1>6, <1>7, <1>8, <1>9, <1>10, <1>11, <1>12, <1>13
  DEF Next, Loop, Environment, Process, Bare, Serve, Emits

(* A stream stays one until its object is destroyed; only the heartbeat    *)
(* queues anything for it.                                                 *)
LEMMA StreamFate ==
  ASSUME Inv, Next, NEW d \in Clients
  PROVE  /\ conn'[d].pend <= conn[d].pend \/ FireHeartbeat(d)
         /\ Sse(d) => Sse(d)' \/ (conn'[d] = Destroyed /\ d \notin due' /\ pc # "timers")
<1>0. conn[d].pend \in Nat /\ Destroyed.pend = 0 /\ \A f : Object(f).pend = 0
  BY DEF Inv, TypeOK, ConnTypeOK, Destroyed, Object
<1>1. CASE Still
  BY <1>0, <1>1 DEF Still, Sse, Registered
<1>2. CASE \E c \in Clients : Changes(c)
  <2>0. PICK c \in Clients : Changes(c)
    BY <1>2
  <2>1. connections' = connections /\ \A e \in Clients \ {c} : conn'[e] = conn[e]
    BY <2>0 DEF Changes, TouchStep, Touches, Others
  <2>2. CASE d # c
    BY <1>0, <2>1, <2>2 DEF Sse, Registered
  <2>3. CASE d = c /\ pc = "flush" /\ Carries(c, [conn[c] EXCEPT !.pend = @ - 1]) /\ conn[c].pend > 0
    <3>1. conn[c] \in Obj
      BY DEF Inv, TypeOK, ConnTypeOK, Obj
    <3>2. conn'[c].handler = conn[c].handler /\ conn'[c].pend = conn[c].pend - 1
      BY <2>3, <3>1 DEF Carries, Obj
    <3> QED
      BY <1>0, <2>1, <2>3, <3>2 DEF Sse, Registered
  <2>4. CASE d = c /\ conn[c].handler # "sse" /\ conn'[c].pend = conn[c].pend
    BY <1>0, <2>4 DEF Sse
  <2>5. CASE d = c /\ FireHeartbeat(c)
    BY <2>1, <2>5, FireHeartbeatStep DEF Sse, Registered
  <2> QED
    BY <2>0, <2>2, <2>3, <2>4, <2>5 DEF Changes
<1>3. CASE \E f \in Fds : RemovesStream(f)
  <2>0. PICK f \in Fds : RemovesStream(f)
    BY <1>3
  <2>1. /\ conn'[connections[f]] = Destroyed /\ due' = due \ {connections[f]}
        /\ \A e \in Clients \ {connections[f]} : conn'[e] = conn[e]
        /\ \A g \in Fds \ {f} : connections'[g] = connections[g]
        /\ pc # "timers"
    BY <2>0 DEF RemovesStream, RemoveStep, Removes, Reading
  <2> QED
    BY <1>0, <2>1 DEF Sse, Registered
<1>4. CASE \E c \in Clients, f \in Fds : AcceptRegister(c, f)
  <2>0. PICK c \in Clients, f \in Fds : AcceptRegister(c, f)
    BY <1>4
  <2>1. /\ ~Registered(c) /\ conn'[c] = Object(f)
        /\ (connections[f] # NoConn => conn'[connections[f]] = Destroyed)
        /\ \A e \in Clients \ {c, connections[f]} : conn'[e] = conn[e]
    BY <2>0, RegisterKeepsTables DEF Inv
  <2>2. /\ due' = due \ {connections[f]} /\ pc # "timers" /\ NoConn \notin Clients
        /\ \A g \in Fds \ {f} : connections'[g] = connections[g]
    BY <2>0, KernelAssumption DEF AcceptRegister, Inv, TypeOK
  <2> QED
    BY <1>0, <2>1, <2>2 DEF Sse, Registered
<1> QED
  BY <1>1, <1>2, <1>3, <1>4, StreamSteps

(* What becomes of the entry a descriptor has after a step.                *)
LEMMA EntryFate ==
  ASSUME Inv, Next, NEW f \in Fds, connections'[f] # NoConn
  PROVE  \/ \E c \in Clients : AcceptRegister(c, f) /\ connections'[f] = c /\ conn'[c] = Object(f)
         \/ /\ connections'[f] = connections[f]
            /\ \/ conn'[connections[f]].handler = conn[connections[f]].handler
               \/ pc = "process" /\ cur.f = f /\ conn[connections[f]].handler # "sse"
            /\ conn'[connections[f]].fd # NoFd => Live(connections[f])
<1>0. connections \in [Fds -> Clients \cup {NoConn}] /\ NoConn \notin Clients
  BY KernelAssumption DEF Inv, TypeOK
<1>1. CASE Still
  <2>1. connections[f] \in Clients
    BY <1>0, <1>1 DEF Still
  <2>2. PICK d \in Clients : d = connections[f]
    BY <2>1
  <2> QED
    BY <1>1, <2>2 DEF Still, Live
<1>2. CASE \E c \in Clients : Changes(c)
  <2>0. PICK c \in Clients : Changes(c)
    BY <1>2
  <2>1. connections' = connections /\ \A e \in Clients \ {c} : conn'[e] = conn[e]
    BY <2>0 DEF Changes, TouchStep, Touches, Others
  <2>2. PICK d \in Clients : d = connections[f]
    BY <1>0, <2>1
  <2>3. CASE d # c
    BY <2>1, <2>2, <2>3 DEF Live
  <2>4. CASE d = c
    <3>1. conn'[c].fd # NoFd => Live(c)
      BY <2>0 DEF Changes, TouchStep, Touches, Keeps, Closes, Live
    <3>2. conn'[c].handler = conn[c].handler \/ (pc = "process" /\ cur.f = f /\ conn[c].handler # "sse")
      <4>1. CASE pc = "flush" /\ Carries(c, [conn[c] EXCEPT !.pend = @ - 1])
        <5>1. conn[c] \in Obj
          BY DEF Inv, TypeOK, ConnTypeOK, Obj
        <5> QED
          BY <4>1, <5>1 DEF Carries, Obj
      <4>2. CASE pc = "process" /\ c = cur.c /\ connections[cur.f] = c /\ conn[c].handler # "sse"
        <5>1. cur.f \in Fds
          BY <4>2 DEF Inv, ControlInv, Reading
        <5>2. connections[cur.f] = connections[f] /\ connections[f] # NoConn
          BY <1>0, <2>2, <2>4, <4>2
        <5>3. cur.f = f
          BY <5>1, <5>2 DEF Inv, TablesInv
        <5> QED
          BY <4>2, <5>3
      <4>3. CASE FireHeartbeat(c)
        BY <4>3, FireHeartbeatStep
      <4> QED
        BY <2>0, <4>1, <4>2, <4>3 DEF Changes
    <3> QED
      BY <2>1, <2>2, <2>4, <3>1, <3>2 DEF Live
  <2> QED
    BY <2>3, <2>4
<1>3. CASE \E g \in Fds : RemovesStream(g)
  <2>0. PICK g \in Fds : RemovesStream(g)
    BY <1>3
  <2>1. /\ connections'[g] = NoConn
        /\ \A e \in Clients \ {connections[g]} : conn'[e] = conn[e]
        /\ \A h \in Fds \ {g} : connections'[h] = connections[h] /\ connections[h] # connections[g]
    BY <2>0 DEF RemovesStream, RemoveStep, Removes
  <2>2. f # g /\ connections[f] \in Clients \ {connections[g]}
    BY <1>0, <2>1
  <2> QED
    BY <2>1, <2>2 DEF Live
<1>4. CASE \E c \in Clients, g \in Fds : AcceptRegister(c, g)
  <2>0. PICK c \in Clients, g \in Fds : AcceptRegister(c, g)
    BY <1>4
  <2>1. /\ ~Registered(c) /\ conn'[c] = Object(g)
        /\ \A e \in Clients \ {c, connections[g]} : conn'[e] = conn[e]
    BY <2>0, RegisterKeepsTables DEF Inv
  <2>2. connections' = [connections EXCEPT ![g] = c]
    BY <2>0 DEF AcceptRegister
  <2>3. CASE f = g
    BY <1>0, <2>0, <2>1, <2>2, <2>3
  <2>4. CASE f # g
    <3>1. connections'[f] = connections[f] /\ connections[f] \in Clients \ {c}
      BY <1>0, <2>1, <2>2, <2>4 DEF Registered
    <3>2. connections[f] # connections[g]
      BY <2>4, <3>1, <1>0 DEF Inv, TablesInv
    <3> QED
      BY <2>1, <3>1, <3>2 DEF Live
  <2> QED
    BY <2>3, <2>4
<1> QED
  BY <1>1, <1>2, <1>3, <1>4, StreamSteps

(* The steps that leave the lists, the wake-up and the events alone, and   *)
(* do not pass from one part of the turn to another.                       *)
Calm ==
  /\ UNCHANGED <<readyFds, flushing, batch>> /\ firing' \subseteq firing /\ (eventfd => eventfd')
  /\ (pc \in FlushPCs) <=> (pc' \in FlushPCs)
  /\ (pc = "wait") <=> (pc' = "wait")
  /\ pc = "crashed" => pc' = "crashed"
  /\ pc' = "flush" => pc = "flush"
  /\ pc' \in Reading => pc \in Reading
  /\ pc' \in Reading \cup {"after"} => pc \in Reading \cup {"after"} /\ cur'.f = cur.f

Crashes == pc' = "crashed" /\ UNCHANGED <<readyFds, flushing, batch, firing, eventfd>>

LEMMA ListSteps ==
  ASSUME Inv, Next
  PROVE  \/ EpollWait \/ Dispatch \/ EventsDone \/ TurnDone
         \/ (\E c \in Clients : FireHeartbeat(c)) \/ (\E f \in Fds : FlushNext(f))
         \/ Calm \/ Crashes
<1>0. /\ cur \in [f : Fds \cup {NoFd}, c : Clients \cup {NoConn}, ev : SUBSET Events,
                  need : BOOLEAN, eof : BOOLEAN]
      /\ pc \in PCs /\ firing \subseteq Timers
  BY DEF Inv, TypeOK
<1>1. CASE AcceptStop \/ FlushDone \/ TimersDone \/ CompletionsDone
  BY <1>1 DEF AcceptStop, FlushDone, TimersDone, CompletionsDone, TimerKeeps, CompletionKeeps, kernelVars,
     tableVars, Goto, Calm, FlushPCs, EventPCs, Reading
<1>2. CASE (\E c \in Clients : AcceptReject(c) \/ \E f \in Fds : AcceptRegister(c, f))
           \/ \E f \in Fds : FlushEvent(f) \/ DeferredClose(f)
  BY <1>2 DEF AcceptReject, AcceptRegister, FlushEvent, DeferredClose, turnVars, tableVars, Calm, FlushPCs,
     EventPCs, Reading
<1>3. CASE ReadEvent
  <2>1. UNCHANGED <<readyFds, flushing, batch, firing, eventfd>>
    BY <1>3 DEF ReadEvent, RecvBytes, RecvAgain, RecvEof, RecvError, ReadFinish, AfterRead, Process, Detect,
       NeedMore, ServeKeepAlive, ServeLast, Refuse, ServeAgain, UpgradeSse, UpgradeChat, ReadKeeps
  <2>2. \/ pc' = "crashed"
        \/ pc \in Reading /\ pc' \in Reading \cup {"after"} /\ cur'.f = cur.f
        \/ pc = "after" /\ pc' = "events"
    <3>1. CASE RecvBytes \/ RecvAgain \/ RecvEof
      BY <1>0, <3>1 DEF RecvBytes, RecvAgain, RecvEof, Return, Leave, Goto, NoEvent, ioVars, Reading
    <3>4. CASE RecvError \/ ReadFinish \/ AfterRead
      BY <1>0, <3>4 DEF RecvError, ReadFinish, AfterRead, Return, Leave, Goto, NoEvent, ioVars, Reading
    <3>2. CASE Detect
      BY <1>0, <3>2 DEF Detect, Return, Leave, Goto, NoEvent, Reading
    <3>5. CASE NeedMore
      BY <1>0, <3>5 DEF NeedMore, Return, Leave, Goto, NoEvent, Reading
    <3>3. CASE Serve
      <4>1. PICK c : c = cur.c
        OBVIOUS
      <4> QED
        BY <3>3, <4>1, ServeStep DEF Reading
    <3> QED
      BY <1>3, <3>1, <3>2, <3>3, <3>4, <3>5 DEF ReadEvent, Process, Serve
  <2> QED
    BY <2>1, <2>2 DEF Calm, Crashes, FlushPCs, EventPCs, Reading
<1>4. CASE FireIdle \/ \E c \in Clients : SweepOne(c)
  BY <1>4 DEF FireIdle, SweepOne, TimerKeeps, Calm, FlushPCs, EventPCs, Reading
<1>5. CASE Deliver \/ DeliverTrailer \/ FinishChat
  BY <1>5 DEF Deliver, DeliverTrailer, FinishChat, CompletionKeeps, tableVars, Leave, Goto, Calm, FlushPCs,
     EventPCs, Reading
<1>6. CASE \E c \in Clients : Peer(c) \/ BecomeIdle(c) \/ AgentEmit(c) \/ AgentDone(c) \/ AgentStop(c)
  <2>1. UNCHANGED turnVars /\ (eventfd => eventfd') /\ readyFds' = readyFds
    <3>1. CASE \E c \in Clients : Peer(c)
      BY <3>1 DEF Peer, Connect, ClientSend, ClientFin, ClientRst, ClientRead, EnvKeeps, tableVars
    <3>2. CASE \E c \in Clients : BecomeIdle(c)
      BY <3>2 DEF BecomeIdle, kernelVars, tableVars
    <3>3. CASE \E c \in Clients : AgentEmit(c) \/ AgentDone(c)
      <4>1. /\ UNCHANGED turnVars /\ readyFds' = readyFds
            /\ eventfd' = (eventfd \/ completions = <<>>)
        BY <3>3 DEF AgentEmit, AgentDone, Post, tableVars
      <4>2. eventfd => eventfd'
        BY <4>1, Zenon
      <4> QED
        BY <4>1, <4>2
    <3>4. CASE \E c \in Clients : AgentStop(c)
      BY <3>4 DEF AgentStop, tableVars, kernelVars
    <3> QED
      BY <1>6, <3>1, <3>2, <3>3, <3>4
  <2> QED
    BY <2>1 DEF turnVars, Calm
<1>7. CASE \E t \in Timers : Expire(t)
  BY <1>7 DEF Expire, turnVars, kernelVars, Calm
<1>8. CASE Crashed
  BY <1>8 DEF Crashed, Crashes, vars, kernelVars, tableVars, turnVars
<1> QED
  BY <1>1, <1>2, <1>3, <1>4, <1>5, <1>6, <1>7, <1>8 DEF Next, Loop, Environment, ReadEvent

(* A timer comes due only while the loop waits; timers fire together.      *)
LEMMA DueSteps ==
  ASSUME Inv, Next
  PROVE  /\ \A t \in due' : t \in due \/ (Expire(t) /\ t \in Timers)
         /\ firing' \subseteq firing \/ EventsDone
<1>1. CASE Bare
  BY <1>1 DEF Bare, Dispatch, EventsDone, AcceptStop, FlushDone, FlushNext, RecvAgain, RecvError, NeedMore,
     FireIdle, TimersDone, CompletionsDone, TurnDone, Expire, Crashed, ReadKeeps, TimerKeeps, CompletionKeeps,
     tableVars, turnVars, vars
<1>2. CASE EpollWait \/ \E c \in Clients : AcceptReject(c) \/ \E f \in Fds : AcceptRegister(c, f)
  BY <1>2 DEF EpollWait, AcceptReject, AcceptRegister, tableVars, turnVars
<1>3. CASE \E f \in Fds : FlushEvent(f) \/ DeferredClose(f)
  BY <1>3 DEF FlushEvent, DeferredClose, remove_connection, tableVars, turnVars
<1>4. CASE RecvBytes \/ RecvEof \/ ReadFinish \/ AfterRead \/ Detect
  BY <1>4 DEF RecvBytes, RecvEof, ReadFinish, AfterRead, Detect, remove_connection, ReadKeeps
<1>5. CASE Serve
  BY <1>5 DEF Serve, ServeKeepAlive, ServeLast, Refuse, ServeAgain, UpgradeSse, UpgradeChat, ReadKeeps
<1>6. CASE \E c \in Clients : SweepOne(c) \/ FireHeartbeat(c)
  BY <1>6 DEF SweepOne, FireHeartbeat, TimerKeeps
<1>7. CASE Deliver \/ DeliverTrailer \/ FinishChat
  BY <1>7 DEF Deliver, DeliverTrailer, FinishChat, CompletionKeeps, tableVars
<1>8. CASE \E c \in Clients : Peer(c) \/ BecomeIdle(c) \/ Emits(c)
  BY <1>8 DEF Peer, EnvKeeps, BecomeIdle, Emits, AgentEmit, AgentDone, AgentStop, Post, tableVars, turnVars
<1> QED
  BY <1>1, <1>2, <1>3, <1>4, <1>5, <1>6, <1>7, <1>8
  DEF Next, Loop, Environment, Process, Bare, Serve, Emits

LEMMA StepKeepsStreams ==
  ASSUME Inv, FlushInv, Next
  PROVE  StreamInv'
<1>0. /\ \A c \in Clients : conn[c].pend \in Nat /\ conn'[c].pend \in Nat
      /\ Destroyed.pend = 0 /\ NoConn \notin Clients
  <2>1. Inv'
    BY StepKeepsTables, StepKeepsLocalTypes, StepKeepsControl, TypeParts DEF Inv
  <2> QED
    BY <2>1, KernelAssumption DEF Inv, TypeOK, ConnTypeOK, Destroyed, Object
<1>1. ASSUME NEW c \in Clients, c \in due' \cup firing' PROVE Sse(c)'
  <2>1. CASE c \in due /\ ~EventsDone
    BY <1>1, <2>1, StreamFate, DueSteps DEF FlushInv, StreamInv, Inv, ControlInv
  <2>2. CASE c \in firing /\ ~EventsDone
    BY <1>1, <2>2, StreamFate DEF FlushInv, StreamInv, Inv, ControlInv
  <2>3. CASE EventsDone
    BY <1>1, <2>3 DEF EventsDone, FlushInv, StreamInv, Sse, Registered
  <2>4. CASE Expire(c)
    <3>1. c # IdleTimer
      BY <1>1, LoopAssumption
    <3> QED
      BY <2>4, <3>1 DEF Expire, Sse, Registered
  <2> QED
    BY <1>1, <2>1, <2>2, <2>3, <2>4, DueSteps
<1>2. ASSUME NEW c \in Clients, conn'[c].pend > 0 PROVE conn'[c].pend = 1 /\ Sse(c)'
  <2>1. CASE FireHeartbeat(c)
    <3>1. c \in firing /\ pc = "timers"
      BY <2>1 DEF FireHeartbeat
    <3>2. conn[c].pend = 0 /\ Sse(c)
      BY <3>1 DEF FlushInv, StreamInv
    <3> QED
      BY <2>1, <3>1, <3>2, FireHeartbeatStep, StreamFate
  <2>2. CASE conn'[c].pend <= conn[c].pend
    <3>1. conn[c].pend = 1 /\ Sse(c)
      BY <1>0, <1>2, <2>2 DEF FlushInv, StreamInv
    <3> QED
      BY <1>0, <1>2, <2>2, <3>1, StreamFate
  <2> QED
    BY <2>1, <2>2, StreamFate
<1>3. ASSUME NEW c \in Clients, c \in firing' PROVE conn'[c].pend = 0
  <2>1. CASE EventsDone
    <3>1. conn' = conn /\ connections' = connections /\ c \in due /\ pc = "events" /\ batch = {}
      BY <1>3, <2>1 DEF EventsDone
    <3>2. PICK f \in Fds : connections[f] = c
      BY <3>1 DEF FlushInv, StreamInv, Sse, Registered
    <3>3. readyFds = {} /\ flushing = {}
      BY <3>1 DEF FlushInv, WakeInv, HasEvent, EventPCs, Inv, ControlInv
    <3>4. ~(conn[c].pend > 0)
      BY <1>0, <3>1, <3>2, <3>3 DEF FlushInv, QueueInv, FlushPCs, EventPCs
    <3> QED
      BY <1>0, <3>1, <3>4
  <2>2. CASE c \in firing /\ ~EventsDone
    <3>1. ~FireHeartbeat(c)
      BY <1>3 DEF FireHeartbeat
    <3>2. conn'[c].pend <= conn[c].pend /\ conn[c].pend = 0
      BY <2>2, <3>1, StreamFate DEF FlushInv, StreamInv
    <3> QED
      BY <1>0, <3>2
  <2> QED
    BY <1>3, <2>1, <2>2, DueSteps
<1> QED
  BY <1>1, <1>2, <1>3 DEF StreamInv

LEMMA StepKeepsWake ==
  ASSUME Inv, FlushInv, Next
  PROVE  WakeInv'
<1>0. WakeInv /\ Listen # Wakeup /\ Listen \notin Fds /\ Wakeup \notin Fds
  BY LoopAssumption DEF FlushInv
<1>1. CASE EpollWait
  <2>1. /\ batch' = {e \in Delivered : e.ev # {}} /\ pc' = "events"
        /\ UNCHANGED <<readyFds, eventfd>>
    BY <1>1 DEF EpollWait, Goto, tableVars
  <2>2. \A x, y \in Delivered : x.src = y.src => x = y
    BY <1>0 DEF Delivered, FdEvents
  <2>3. eventfd => [src |-> Wakeup, ev |-> {"IN"}] \in batch'
    BY <2>1 DEF Delivered
  <2> QED
    BY <1>0, <2>1, <2>2, <2>3 DEF WakeInv, HasEvent, Reading
<1>2. CASE Dispatch
  <2>1. PICK e \in batch : /\ batch' = batch \ {e}
                           /\ DispatchListen(e) \/ DispatchWakeup(e) \/ DispatchSocket(e)
    BY <1>2 DEF Dispatch
  <2>2. pc = "events"
    BY <1>2 DEF Dispatch
  <2>3. CASE DispatchListen(e)
    BY <1>0, <2>1, <2>2, <2>3 DEF DispatchListen, Goto, WakeInv, HasEvent, EventPCs, Reading
  <2>4. CASE DispatchWakeup(e)
    BY <1>0, <2>1, <2>2, <2>4 DEF DispatchWakeup, Goto, WakeInv, HasEvent, EventPCs, Reading
  <2>5. CASE DispatchSocket(e)
    <3>1. pc' \in {"recv", "after"} /\ cur'.f = e.src /\ e.src \in Fds /\ UNCHANGED <<eventfd, readyFds>>
      BY <2>5 DEF DispatchSocket, Goto, NoEvent
    <3> QED
      BY <1>0, <2>1, <2>2, <3>1 DEF WakeInv, HasEvent, EventPCs, Reading
  <2> QED
    BY <2>1, <2>3, <2>4, <2>5
<1>3. CASE EventsDone \/ TurnDone
  BY <1>0, <1>3 DEF EventsDone, TurnDone, Goto, WakeInv, HasEvent, EventPCs, Reading, kernelVars, tableVars
<1>4. CASE \E c \in Clients : FireHeartbeat(c)
  BY <1>0, <1>4 DEF FireHeartbeat, TimerKeeps, WakeInv, HasEvent, EventPCs, Reading, Inv, ControlInv
<1>5. CASE \E f \in Fds : FlushNext(f)
  BY <1>0, <1>5 DEF FlushNext, WakeInv, HasEvent, EventPCs, Reading, kernelVars, tableVars
<1>6. CASE Calm
  BY <1>0, <1>6 DEF Calm, WakeInv, HasEvent, FlushPCs, EventPCs
<1>7. CASE Crashes
  BY <1>0, <1>7 DEF Crashes, WakeInv, HasEvent, EventPCs, Reading
<1> QED
  BY <1>1, <1>2, <1>3, <1>4, <1>5, <1>6, <1>7, ListSteps

(* While events are handled only the connection being handled may lose its *)
(* descriptor.                                                             *)
LEMMA OwnedFate ==
  ASSUME Inv, Next, NEW f \in Fds, Owned(f), pc \in EventPCs
  PROVE  Owned(f)' \/ (pc \in Reading \cup {"after"} /\ cur.f = f)
<1>0. connections \in [Fds -> Clients \cup {NoConn}] /\ NoConn \notin Clients /\ NoFd \notin Fds
  BY KernelAssumption DEF Inv, TypeOK
<1>1. CASE ReadEvent
  <2>1. /\ pc \in Reading \cup {"after"} /\ cur.f \in Fds
        /\ pc \in Reading => cur.c = connections[cur.f] /\ cur.c \in Clients
    BY <1>1 DEF ReadEvent, RecvBytes, RecvAgain, RecvEof, RecvError, ReadFinish, AfterRead, Process, Detect,
       NeedMore, ServeKeepAlive, ServeLast, Refuse, ServeAgain, UpgradeSse, UpgradeChat, Request, Reading,
       Inv, ControlInv
  <2>2. PICK c : c = IF pc = "after" THEN connections[cur.f] ELSE cur.c
    OBVIOUS
  <2>3. \/ Untouched
        \/ c \in Clients /\ connections[cur.f] = c /\ TouchStep(c)
        \/ RemoveStep(cur.f)
    <3>1. CASE RecvAgain \/ RecvError \/ NeedMore
      BY <3>1, BareIsUntouched DEF Bare
    <3>2. CASE RecvBytes \/ RecvEof
      BY <2>1, <2>2, <3>2, RecvBytesStep, RecvEofStep DEF RecvBytes, RecvEof, Reading
    <3>3. CASE Detect \/ Serve
      <4>1. c = cur.c
        BY <2>2, <3>3 DEF Detect, Serve, ServeKeepAlive, ServeLast, Refuse, ServeAgain, UpgradeSse,
           UpgradeChat, Request
      <4> QED
        BY <3>3, <4>1, DetectStep, ServeStep
    <3>4. CASE ReadFinish
      BY <2>1, <2>2, <3>4, ReadFinishStep DEF ReadFinish
    <3>5. CASE AfterRead
      BY <2>1, <2>2, <3>5, AfterReadStep DEF AfterRead
    <3> QED
      BY <1>1, <3>1, <3>2, <3>3, <3>4, <3>5 DEF ReadEvent, Process, Serve
  <2>4. CASE c \in Clients /\ connections[cur.f] = c /\ TouchStep(c)
    <3>1. f = conn[c].fd \/ epoll'[f] = epoll[f]
      BY <2>4 DEF TouchStep, Touches, Others
    <3>2. f = conn[c].fd => connections[f] = c
      BY <1>0, <2>4, LiveOwns DEF Live, Inv
    <3> QED
      BY <1>0, <2>1, <2>4, <3>1, <3>2 DEF Owned, Inv, TablesInv
  <2>5. CASE RemoveStep(cur.f)
    BY <2>1, <2>5 DEF RemoveStep, Removes, Owned
  <2> QED
    BY <2>3, <2>4, <2>5 DEF Untouched, ioVars, Owned
<1>2. CASE \E c \in Clients : Peer(c)
  BY <1>2, PeerArrives DEF Arrives, Owned, Inv
<1>3. CASE \E c \in Clients, g \in Fds : AcceptRegister(c, g)
  BY <1>0, <1>3, RegisterKeepsTables DEF Owned, Inv
<1>4. CASE UNCHANGED epoll
  BY <1>4 DEF Owned
<1>5. UNCHANGED epoll \/ ReadEvent \/ (\E c \in Clients : Peer(c)) \/ \E c \in Clients, g \in Fds : AcceptRegister(c, g)
  <2>1. CASE Bare
    BY <2>1, BareIsUntouched DEF Untouched, ioVars
  <2>2. CASE \E c \in Clients : AcceptReject(c) \/ BecomeIdle(c) \/ Emits(c)
    BY <2>2 DEF AcceptReject, BecomeIdle, Emits, AgentEmit, AgentDone, AgentStop, Post, kernelVars
  <2> QED
    BY <2>1, <2>2 DEF Next, Loop, Environment, Bare, ReadEvent, Emits, EventPCs, Reading, EpollWait,
       FlushEvent, SweepOne, FireHeartbeat, Deliver, DeliverTrailer, FinishChat, DeferredClose
<1> QED
  BY <1>1, <1>2, <1>3, <1>4, <1>5

LEMMA CalmKeepsFlushable ==
  ASSUME Inv, FlushInv, Next, Calm, pc \in FlushPCs, NEW f \in readyFds \cup flushing
  PROVE  Flushable(f)'
<1> SUFFICES ASSUME connections'[f] # NoConn
             PROVE  \/ conn'[connections'[f]].handler = "sse"
                    \/ /\ conn'[connections'[f]].handler = "none" /\ ~HasEvent(f)
                       /\ ~(pc' \in Reading /\ cur'.f = f)
  BY DEF Flushable, Calm, HasEvent
<1>0. f \in Fds
  BY DEF Inv, TypeOK
<1>1. CASE \E c \in Clients : AcceptRegister(c, f) /\ connections'[f] = c /\ conn'[c] = Object(f)
  <2>1. PICK c \in Clients : AcceptRegister(c, f) /\ connections'[f] = c /\ conn'[c] = Object(f)
    BY <1>1
  <2>2. pc = "accept" /\ pc' = "accept" /\ ~Owned(f)
    BY <2>1 DEF AcceptRegister, turnVars, FreeFds, Owned
  <2>3. f \in readyFds
    BY <2>2 DEF Inv, ControlInv
  <2>4. ~HasEvent(f)
    BY <2>2, <2>3 DEF FlushInv, ListInv
  <2> QED
    BY <2>1, <2>2, <2>4 DEF Object, Reading
<1>2. CASE /\ connections'[f] = connections[f]
           /\ \/ conn'[connections[f]].handler = conn[connections[f]].handler
              \/ pc = "process" /\ cur.f = f /\ conn[connections[f]].handler # "sse"
  <2>1. \/ conn[connections[f]].handler = "sse"
        \/ conn[connections[f]].handler = "none" /\ ~HasEvent(f) /\ ~(pc \in Reading /\ cur.f = f)
    BY <1>2 DEF FlushInv, ListInv, Flushable
  <2>2. ~(pc' \in Reading /\ cur'.f = f) \/ (pc \in Reading /\ cur.f = f)
    BY DEF Calm
  <2> QED
    BY <1>2, <2>1, <2>2 DEF Reading
<1> QED
  BY <1>0, <1>1, <1>2, EntryFate

LEMMA StepKeepsList ==
  ASSUME Inv, FlushInv, Next
  PROVE  ListInv'
<1>0. ListInv /\ readyFds \subseteq Fds /\ flushing \subseteq Fds
  BY DEF FlushInv, Inv, TypeOK
<1>1. CASE EpollWait
  <2>1. /\ batch' = {e \in Delivered : e.ev # {}} /\ pc = "wait" /\ pc' = "events"
        /\ UNCHANGED <<readyFds, flushing, conn, connections>>
    BY <1>1 DEF EpollWait, Goto, tableVars
  <2>2. \A f \in Fds : Owned(f)' <=> Owned(f)
    BY <1>1, EpollWaitStep DEF QuietStep, Owned
  <2>3. \A f \in Fds : HasEvent(f)' => Owned(f)
    <3>1. \A f \in Fds : HasEvent(f)' => epoll[f].armed
      BY <2>1, LoopAssumption DEF HasEvent, Delivered, FdEvents
    <3> QED
      BY <3>1 DEF Inv, TablesInv, Owned
  <2>4. flushing = {} /\ \A f \in readyFds : connections[f] # NoConn => conn[connections[f]].handler = "sse"
    BY <1>0, <2>1 DEF Inv, ControlInv, ListInv, FlushPCs, EventPCs, Reading
  <2> QED
    BY <1>0, <2>1, <2>2, <2>3, <2>4 DEF ListInv, Flushable, FlushPCs, EventPCs
<1>2. CASE Dispatch
  <2>1. PICK e \in batch : /\ batch' = batch \ {e}
                           /\ DispatchListen(e) \/ DispatchWakeup(e) \/ DispatchSocket(e)
    BY <1>2 DEF Dispatch
  <2>2. /\ pc = "events" /\ UNCHANGED <<epoll, conn, connections>>
        /\ pc' \in FlushPCs /\ pc' # "crashed"
        /\ readyFds' \cup flushing' = readyFds \cup flushing /\ readyFds' \subseteq readyFds
        /\ pc' \in Reading => cur'.f = e.src
    <3>1. pc = "events" /\ UNCHANGED <<epoll, conn, connections>> /\ flushing = {}
      BY <1>2 DEF Dispatch, Inv, ControlInv
    <3> QED
      BY <2>1, <3>1 DEF DispatchListen, DispatchWakeup, DispatchSocket, Goto, NoEvent, FlushPCs, EventPCs, Reading
  <2>3. \A f : HasEvent(f)' => HasEvent(f)
    BY <2>1 DEF HasEvent
  <2>4. ASSUME NEW f \in readyFds \cup flushing PROVE Flushable(f)'
    <3>1. Flushable(f)
      BY <1>0, <2>2, <2>4 DEF ListInv, FlushPCs, EventPCs
    <3>2. pc' \in Reading /\ cur'.f = f => HasEvent(f)
      BY <2>1, <2>2 DEF HasEvent
    <3> QED
      BY <2>2, <2>3, <3>1, <3>2 DEF Flushable
  <2>5. \A f \in readyFds' : HasEvent(f)' => Owned(f)'
    BY <1>0, <2>2, <2>3 DEF ListInv, Owned, FlushPCs, EventPCs
  <2> QED
    BY <2>2, <2>4, <2>5 DEF ListInv
<1>3. CASE EventsDone
  <2>1. readyFds = {} /\ readyFds' = readyFds /\ pc' = "timers"
    BY <1>3 DEF EventsDone, Goto, FlushInv, WakeInv, HasEvent, EventPCs
  <2> QED
    BY <2>1 DEF ListInv, FlushPCs, EventPCs, Reading
<1>4. CASE TurnDone
  BY <1>0, <1>4 DEF TurnDone, Goto, tableVars, ListInv, FlushPCs, EventPCs, Reading
<1>5. CASE \E c \in Clients : FireHeartbeat(c)
  <2>1. PICK c \in Clients : FireHeartbeat(c)
    BY <1>5
  <2>2. /\ pc = "timers" /\ pc' = pc /\ connections' = connections /\ c \in firing
        /\ \A f \in readyFds' : f \in readyFds \/ (Live(c) /\ f = conn[c].fd)
    BY <2>1 DEF FireHeartbeat, TimerKeeps
  <2>3. ASSUME NEW f \in readyFds', connections[f] # NoConn PROVE conn'[connections[f]].handler = "sse"
    <3>1. f \in Fds /\ conn[connections[f]].handler = "sse"
      <4>1. CASE f \in readyFds
        BY <1>0, <2>2, <2>3, <4>1 DEF ListInv, FlushPCs, EventPCs, Reading
      <4>2. CASE Live(c) /\ f = conn[c].fd
        BY <2>2, <4>2, LiveOwns DEF Inv, FlushInv, StreamInv, Sse
      <4> QED
        BY <2>2, <2>3, <4>1, <4>2
    <3> QED
      BY <2>2, <2>3, <3>1, EntryFate DEF AcceptRegister
  <2> QED
    BY <2>2, <2>3 DEF ListInv, FlushPCs, EventPCs, Reading
<1>6. CASE \E f \in Fds : FlushNext(f)
  BY <1>0, <1>6 DEF FlushNext, kernelVars, tableVars, ListInv, Flushable, HasEvent, Owned
<1>7. CASE Calm
  <2>1. CASE pc \in FlushPCs
    <3>1. \A f \in readyFds' \cup flushing' : Flushable(f)'
      BY <1>7, <2>1, CalmKeepsFlushable DEF Calm
    <3>2. ASSUME NEW f \in readyFds, HasEvent(f) PROVE Owned(f)'
      <4>1. pc \in EventPCs
        BY <2>1, <3>2 DEF FlushPCs, FlushInv, WakeInv
      <4>2. Owned(f) /\ ~(pc \in Reading \cup {"after"} /\ cur.f = f)
        BY <1>0, <2>1, <3>2 DEF ListInv, FlushInv, WakeInv
      <4> QED
        BY <1>0, <4>1, <4>2, OwnedFate
    <3> QED
      BY <1>7, <2>1, <3>1, <3>2 DEF Calm, ListInv, HasEvent
  <2>2. CASE pc \notin FlushPCs
    <3>1. ASSUME NEW f \in readyFds, connections'[f] # NoConn, pc # "crashed"
          PROVE  conn'[connections'[f]].handler = "sse"
      <4>1. /\ connections'[f] = connections[f]
            /\ conn'[connections[f]].handler = conn[connections[f]].handler
        BY <1>0, <2>2, <3>1, EntryFate DEF AcceptRegister, FlushPCs, EventPCs, Reading
      <4> QED
        BY <1>0, <2>2, <3>1, <4>1 DEF ListInv
    <3> QED
      BY <1>7, <2>2, <3>1 DEF Calm, ListInv
  <2> QED
    BY <2>1, <2>2
<1>8. CASE Crashes
  BY <1>8 DEF Crashes, ListInv, FlushPCs, EventPCs, Reading
<1> QED
  BY <1>1, <1>2, <1>3, <1>4, <1>5, <1>6, <1>7, <1>8, ListSteps

LEMMA StepKeepsQueue ==
  ASSUME Inv, FlushInv, Next
  PROVE  QueueInv'
<1>0. /\ QueueInv /\ NoConn \notin Clients /\ connections \in [Fds -> Clients \cup {NoConn}]
      /\ \A c \in Clients : conn[c].pend \in Nat /\ conn'[c].pend \in Nat
  <2>1. Inv'
    BY StepKeepsTables, StepKeepsLocalTypes, StepKeepsControl, TypeParts DEF Inv
  <2> QED
    BY <2>1, KernelAssumption DEF FlushInv, Inv, TypeOK, ConnTypeOK
<1>1. CASE EpollWait
  BY <1>0, <1>1 DEF EpollWait, Goto, tableVars, QueueInv, FlushPCs, EventPCs
<1>2. CASE Dispatch
  <2>1. /\ pc = "events" /\ UNCHANGED <<conn, connections>>
        /\ pc' \in FlushPCs /\ pc' # "crashed"
        /\ readyFds' \cup flushing' = readyFds \cup flushing
    <3>1. pc = "events" /\ UNCHANGED <<conn, connections>> /\ flushing = {}
      BY <1>2 DEF Dispatch, Inv, ControlInv
    <3> QED
      BY <1>2, <3>1 DEF Dispatch, DispatchListen, DispatchWakeup, DispatchSocket, Goto, FlushPCs, EventPCs, Reading
  <2> QED
    BY <1>0, <2>1 DEF QueueInv, FlushPCs, EventPCs
<1>3. CASE EventsDone
  <2>1. pc = "events" /\ flushing = {} /\ UNCHANGED <<conn, connections, readyFds>> /\ pc' = "timers"
    BY <1>3 DEF EventsDone, Goto, Inv, ControlInv
  <2> QED
    BY <1>0, <2>1 DEF QueueInv, FlushPCs, EventPCs, Reading
<1>4. CASE TurnDone
  <2>1. pc = "close" /\ pendingClose = {} /\ UNCHANGED <<conn, connections, readyFds, flushing>> /\ pc' = "wait"
    BY <1>4 DEF TurnDone, Goto, tableVars
  <2>2. \A f \in Fds : connections[f] # NoConn => Live(connections[f])
    BY <2>1 DEF Inv, TablesInv
  <2> QED
    BY <1>0, <2>1, <2>2 DEF QueueInv, FlushPCs, EventPCs, Reading
<1>5. CASE \E c \in Clients : FireHeartbeat(c)
  <2>1. PICK c \in Clients : FireHeartbeat(c)
    BY <1>5
  <2>2. /\ pc = "timers" /\ pc' = pc /\ connections' = connections /\ readyFds \subseteq readyFds'
        /\ Live(c) => conn[c].fd \in readyFds'
    BY <2>1 DEF FireHeartbeat, TimerKeeps
  <2>3. conn'[c].fd = conn[c].fd /\ \A d \in Clients \ {c} : conn'[d] = conn[d]
    BY <2>1, FireHeartbeatStep DEF TouchStep, Touches, Others
  <2>4. ASSUME NEW f \in Fds, connections[f] # NoConn, conn'[connections[f]].pend > 0,
               conn'[connections[f]].fd # NoFd
        PROVE  f \in readyFds'
    <3>1. CASE connections[f] = c
      <4>1. Live(c)
        BY <2>3, <2>4, <3>1 DEF Live
      <4>2. conn[c].fd = f
        BY <2>4, <3>1, <4>1, LiveOwns DEF Inv, TablesInv
      <4> QED
        BY <2>2, <4>1, <4>2
    <3>2. CASE connections[f] # c
      <4>1. conn'[connections[f]] = conn[connections[f]]
        BY <1>0, <2>3, <2>4, <3>2
      <4> QED
        BY <1>0, <2>2, <2>4, <4>1 DEF QueueInv, Live, FlushPCs, EventPCs, Reading
    <3> QED
      BY <3>1, <3>2
  <2> QED
    BY <2>2, <2>4 DEF QueueInv, Live, FlushPCs, EventPCs, Reading
<1>6. CASE \E f \in Fds : FlushNext(f)
  <2>1. PICK f \in Fds : FlushNext(f)
    BY <1>6
  <2>2. /\ pc = "flush" /\ pc' = pc /\ UNCHANGED <<conn, connections, readyFds>> /\ flushing' = flushing \ {f}
    BY <2>1 DEF FlushNext, tableVars
  <2>3. connections[f] # NoConn => ~(conn[connections[f]].pend > 0)
    BY <1>0, <2>1 DEF FlushNext, FlushInv, StreamInv, Sse
  <2> QED
    BY <1>0, <2>2, <2>3 DEF QueueInv, FlushPCs, EventPCs, Reading
<1>7. CASE Calm
  <2>1. \A c \in Clients : ~FireHeartbeat(c) \/ pc \notin FlushPCs \cup {"wait"}
    BY DEF FireHeartbeat, FlushPCs, EventPCs, Reading
  <2>2. ASSUME NEW f \in Fds, connections'[f] # NoConn, conn'[connections'[f]].pend > 0,
               \A c \in Clients : ~FireHeartbeat(c)
        PROVE  /\ connections'[f] = connections[f] /\ conn[connections[f]].pend > 0
               /\ conn'[connections[f]].fd # NoFd => Live(connections[f])
    <3>0. \A c, g : conn'[c] = Object(g) => conn'[c].pend = 0
      BY DEF Object
    <3>1. /\ connections'[f] = connections[f]
          /\ conn'[connections[f]].fd # NoFd => Live(connections[f])
      <4>1. ~\E c \in Clients : connections'[f] = c /\ conn'[c] = Object(f)
        <5>1. SUFFICES ASSUME NEW c \in Clients, connections'[f] = c, conn'[c] = Object(f) PROVE FALSE
          OBVIOUS
        <5>2. conn'[c].pend > 0 /\ conn'[c].pend = 0
          BY <2>2, <3>0, <5>1
        <5> QED
          BY <5>2
      <4> QED
        BY <2>2, <4>1, EntryFate
    <3>2. conn'[connections[f]].pend <= conn[connections[f]].pend /\ connections[f] \in Clients
      BY <1>0, <2>2, <3>1, StreamFate
    <3> QED
      BY <1>0, <2>2, <3>1, <3>2
  <2>3. CASE pc \in FlushPCs \cup {"wait"}
    BY <1>0, <1>7, <2>1, <2>2, <2>3 DEF Calm, QueueInv, FlushPCs, EventPCs, Reading
  <2>4. CASE pc \notin FlushPCs \cup {"wait"} /\ \A c \in Clients : ~FireHeartbeat(c)
    BY <1>0, <1>7, <2>2, <2>4 DEF Calm, QueueInv, Live
  <2> QED
    BY <1>5, <2>1, <2>3, <2>4
<1>8. CASE Crashes
  BY <1>8 DEF Crashes, QueueInv, FlushPCs, EventPCs, Reading
<1> QED
  BY <1>1, <1>2, <1>3, <1>4, <1>5, <1>6, <1>7, <1>8, ListSteps

(* process_ready_fds takes every descriptor of ready_fds_ for a stream:    *)
(* none of them is a plain connection that got the number meanwhile, and   *)
(* no heartbeat is queued behind another.                                  *)
THEOREM FlushAlwaysFindsSse == Spec => []FlushFindsSse
<1>1. Init => FlushInv
  <2> SUFFICES ASSUME Init PROVE FlushInv
    OBVIOUS
  <2>1. /\ \A c \in Clients : conn[c].pend = 0
        /\ connections = [f \in Fds |-> NoConn] /\ pc = "wait"
        /\ readyFds = {} /\ flushing = {} /\ batch = {} /\ due = {} /\ firing = {}
    BY DEF Init, ConnInit, Object
  <2> QED
    BY <2>1 DEF FlushInv, StreamInv, WakeInv, ListInv, QueueInv, FlushPCs, EventPCs, Reading
<1>2. ASSUME FlushInv, UNCHANGED vars PROVE FlushInv'
  BY <1>2 DEF FlushInv, StreamInv, WakeInv, ListInv, QueueInv, Flushable, Sse, Registered, HasEvent, Owned, Live,
     vars, kernelVars, tableVars, turnVars
<1>3. Inv /\ FlushInv /\ [Next]_vars => FlushInv'
  BY <1>2, StepKeepsStreams, StepKeepsWake, StepKeepsList, StepKeepsQueue DEF FlushInv
<1>4. ASSUME Inv, FlushInv PROVE FlushFindsSse
  <2>1. ASSUME NEW c \in Clients PROVE conn[c].pend <= 1
    <3>1. conn[c].pend \in Nat
      BY <1>4, <2>1 DEF Inv, TypeOK, ConnTypeOK
    <3>2. conn[c].pend > 0 => conn[c].pend = 1
      BY <1>4, <2>1 DEF FlushInv, StreamInv
    <3> QED
      BY <3>1, <3>2
  <2>2. ASSUME pc = "flush", NEW f \in flushing, connections[f] # NoConn
        PROVE  conn[connections[f]].handler \in {"none", "sse"}
    BY <1>4, <2>2 DEF FlushInv, ListInv, Flushable, FlushPCs
  <2> QED
    BY <2>1, <2>2 DEF FlushFindsSse
<1> QED
  BY <1>1, <1>3, <1>4, ReactorInvariant, PTL DEF Spec
=============================================================================

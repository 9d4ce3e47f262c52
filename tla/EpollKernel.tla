---------------------------- MODULE EpollKernel ----------------------------
(***************************************************************************)
(* What the gateway's event loop sees of the operating system and of its   *)
(* clients: one TCP connection per client, the file descriptors of the     *)
(* accepted ones, the epoll interest list (edge triggered for sockets) and *)
(* the eventfd the worker threads use to wake the loop.  None of this is   *)
(* gateway code; it is modelled from the system calls the gateway makes.   *)
(*                                                                         *)
(* A client is one connection: a client that comes back is another one.    *)
(* Bytes are counted in whole request frames on the way in and in response *)
(* units on the way out, which is all the loop's decisions depend on.      *)
(***************************************************************************)
EXTENDS Naturals, Sequences

CONSTANTS
  Clients,       (* the connections peers may open                         *)
  Fds,           (* descriptor numbers available to accepted sockets       *)
  Frames,        (* kinds of input (see EpollLoop: Detect, Request)        *)
  Scripts,       (* Scripts[c]: the inputs c may send, as sequences        *)
  SockCap,       (* response units a kernel send buffer holds              *)
  MaxInFlight,   (* bound: frames waiting in a receive buffer              *)
  NoConn, NoFd   (* "no connection", and the -1 of a closed descriptor     *)

ASSUME KernelAssumption ==
  /\ SockCap \in Nat \ {0} /\ MaxInFlight \in Nat \ {0}
  /\ Scripts \in [Clients -> SUBSET Seq(Frames)]
  /\ NoConn \notin Clients /\ NoFd \notin Fds

VARIABLES
  sock,          (* sock[c]: the peer's state and the two kernel buffers   *)
  backlog,       (* connections the listening socket has not accepted yet  *)
  listenArmed,   (* an undelivered edge on the listening socket            *)
  epoll,         (* epoll[f]: owner of descriptor f, its interest list     *)
                 (* entry and whether an edge on it is still undelivered   *)
  eventfd        (* the wake-up counter is above zero (level triggered)    *)

kernelVars == <<sock, backlog, listenArmed, epoll, eventfd>>

Peers    == {"off", "open", "fin", "rst", "closed"}
Events   == {"IN", "OUT", "HUP"}
ClosedSocket == [peer |-> "closed", rcvq |-> <<>>, space |-> 0, todo |-> <<>>]
FreeFd       == [owner |-> NoConn, interest |-> {}, armed |-> FALSE]

(* What epoll reports of a socket: level, not edge. A reset is readable,   *)
(* writable and hung up; a half-close is readable (recv returns 0).        *)
Ready(c) ==
     (IF sock[c].rcvq # <<>> \/ sock[c].peer \in {"fin", "rst"} THEN {"IN"} ELSE {})
  \cup (IF sock[c].space > 0 \/ sock[c].peer = "rst" THEN {"OUT"} ELSE {})
  \cup (IF sock[c].peer = "rst" THEN {"HUP"} ELSE {})

(* EPOLL_CTL_ADD and EPOLL_CTL_MOD look at the socket at once, so that     *)
(* readiness that is already there counts as an edge.                      *)
Watch(f, c, ev) ==
  epoll' = [epoll EXCEPT ![f] =
    [owner |-> c, interest |-> ev,
     armed |-> Ready(c) \cap (ev \cup {"HUP"}) # {}]]

(* close(2): the descriptor number is free again at once.                  *)
CloseFd(f) ==
  /\ sock' = [sock EXCEPT ![epoll[f].owner] = ClosedSocket]
  /\ epoll' = [epoll EXCEPT ![f] = FreeFd]

FreeFds == {f \in Fds : epoll[f].owner = NoConn}

(* A new edge e on c's socket, if c is accepted and watched for it.        *)
Edge(c, e) ==
  epoll' = [f \in Fds |->
    IF epoll[f].owner = c /\ e \in epoll[f].interest \cup {"HUP"}
    THEN [epoll[f] EXCEPT !.armed = TRUE] ELSE epoll[f]]

----------------------------------------------------------------------------
(* The peers.                                                              *)

Connect(c) ==
  /\ sock[c].peer = "off"
  /\ sock' = [sock EXCEPT ![c].peer = "open"]
  /\ backlog' = backlog \cup {c}
  /\ listenArmed' = TRUE
  /\ UNCHANGED <<epoll, eventfd>>

(* The next frame of c's script arrives.                                   *)
ClientSend(c) ==
  /\ sock[c].peer = "open" /\ sock[c].todo # <<>> /\ Len(sock[c].rcvq) < MaxInFlight
  /\ sock' = [sock EXCEPT ![c].rcvq = Append(@, Head(sock[c].todo)), ![c].todo = Tail(@)]
  /\ Edge(c, "IN")
  /\ UNCHANGED <<backlog, listenArmed, eventfd>>

(* The peer shuts down its sending side; it may still read.                *)
ClientFin(c) ==
  /\ sock[c].peer = "open"
  /\ sock' = [sock EXCEPT ![c].peer = "fin"]
  /\ Edge(c, "IN")
  /\ UNCHANGED <<backlog, listenArmed, eventfd>>

(* A reset discards what was received and not read.                        *)
ClientRst(c) ==
  /\ sock[c].peer \in {"open", "fin"}
  /\ sock' = [sock EXCEPT ![c].peer = "rst", ![c].rcvq = <<>>]
  /\ Edge(c, "HUP")
  /\ UNCHANGED <<backlog, listenArmed, eventfd>>

(* The peer reads one unit. The socket becomes writable only if it was not. *)
ClientRead(c) ==
  /\ sock[c].peer \in {"open", "fin"} /\ sock[c].space < SockCap
  /\ sock' = [sock EXCEPT ![c].space = @ + 1]
  /\ IF sock[c].space = 0 THEN Edge(c, "OUT") ELSE UNCHANGED epoll
  /\ UNCHANGED <<backlog, listenArmed, eventfd>>

KernelInit ==
  /\ \E script \in [Clients -> UNION {Scripts[c] : c \in Clients}] :
       /\ \A c \in Clients : script[c] \in Scripts[c]
       /\ sock = [c \in Clients |-> [peer |-> "off", rcvq |-> <<>>, space |-> SockCap,
                                     todo |-> script[c]]]
  /\ backlog = {}
  /\ listenArmed = FALSE
  /\ epoll = [f \in Fds |-> FreeFd]
  /\ eventfd = FALSE

KernelTypeOK ==
  /\ sock \in [Clients -> [peer : Peers, rcvq : Seq(Frames), space : 0..SockCap,
                        todo : Seq(Frames)]]
  /\ \A c \in Clients : Len(sock[c].rcvq) <= MaxInFlight
  /\ backlog \subseteq Clients
  /\ listenArmed \in BOOLEAN
  /\ epoll \in [Fds -> [owner : Clients \cup {NoConn}, interest : SUBSET {"IN", "OUT"},
                        armed : BOOLEAN]]
  /\ eventfd \in BOOLEAN
=============================================================================

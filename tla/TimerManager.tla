---------------------------- MODULE TimerManager ----------------------------
(***************************************************************************)
(* core/TimerManager as the reactor thread drives it: a min-heap with lazy *)
(* deletion, whose earliest deadline bounds epoll_wait.  Every section     *)
(* under mutex_ is one action.  Callbacks run outside the mutex and may    *)
(* add and cancel timers, as the other phases of a turn may; the clock     *)
(* moves between any two steps.                                            *)
(*                                                                         *)
(* timers_ and the local list "due" are sets of nodes: what the code uses  *)
(* of their order is that the earliest comes first, with ties in any order.*)
(***************************************************************************)
EXTENDS Integers, FiniteSets

CONSTANTS
  MaxTimers,     (* bound: timers ever added                               *)
  MaxTime,       (* bound: the clock                                       *)
  Delays,        (* the delays and ...                                     *)
  Intervals,     (* ... periods in use; period 0 is a one-shot             *)
  NoTimer

ASSUME TimerAssumption ==
  /\ MaxTimers \in Nat /\ MaxTime \in Nat
  /\ Delays \subseteq Nat /\ Intervals \subseteq Nat
  /\ NoTimer \notin 1..MaxTimers

VARIABLES
  now,           (* steady_clock, in ticks                                 *)
  nextId,        (* next_id_                                               *)
  timers,        (* timers_                                                *)
  canceled,      (* canceled_map_                                          *)
  active,        (* active_ids_                                            *)
  phase,         (* where the reactor's turn stands                        *)
  due,           (* process_expired_timers' list, without ...              *)
  cur,           (* ... the node whose callback runs (a set of at most one)*)
  timeout,       (* what is left of epoll_wait's timeout; -1: none         *)
  eventfd        (* the loop's wake-up counter is above zero               *)

heapVars == <<nextId, timers, canceled, active>>
loopVars == <<phase, due, cur, timeout, eventfd>>
vars == <<now, heapVars, loopVars>>

Node   == [id : 1..MaxTimers, expire : Nat, interval : Intervals]
Phases == {"sleep", "events", "timers", "callback", "completions"}
IdsOf(S) == {n.id : n \in S}
Earliest(S) == {n \in S : \A m \in S : n.expire <= m.expire}

----------------------------------------------------------------------------
(* Names ending in _Faulty or _Joins are slips a change to the code could  *)
(* make; no specification uses them.                                       *)

(* The phases in which the gateway's code may call the manager.            *)
CanCall == phase \in {"events", "callback", "completions"}

(* A timer that becomes the earliest one wakes the loop.                   *)
add_timer(delay, interval) ==
  LET node == [id |-> nextId, expire |-> now + delay, interval |-> interval] IN
  /\ CanCall /\ nextId <= MaxTimers
  /\ nextId' = nextId + 1
  /\ timers' = timers \cup {node}
  /\ active' = active \cup {nextId}
  /\ eventfd' = (eventfd \/ \A n \in timers : node.expire < n.expire)
  /\ UNCHANGED <<now, canceled, phase, due, cur, timeout>>

(* Only an id that is not active changes nothing and returns false.        *)
cancel_timer(id) ==
  /\ CanCall /\ id \in active
  /\ active' = active \ {id}
  /\ canceled' = canceled \cup {id}
  /\ UNCHANGED <<now, nextId, timers, loopVars>>

(* No caller in the gateway yet.                                           *)
clean_canceled_timers_Faulty ==               \* forgets every cancellation
  /\ CanCall
  /\ timers' = {n \in timers : n.id \notin canceled}
  /\ canceled' = {}
  /\ UNCHANGED <<now, nextId, active, loopVars>>

clean_canceled_timers ==
  /\ CanCall
  /\ timers' = {n \in timers : n.id \notin canceled}
  /\ canceled' = canceled \ IdsOf(timers)
  /\ UNCHANGED <<now, nextId, active, loopVars>>

----------------------------------------------------------------------------
(* process_expired_timers.                                                 *)

(* The first section: pop what has expired, drop what was cancelled.       *)
Collect ==
  LET expired == {n \in timers : n.expire <= now} IN
  /\ phase = "events"
  /\ phase' = "timers"
  /\ timers' = timers \ expired
  /\ due' = {n \in expired : n.id \notin canceled}
  /\ canceled' = canceled \ IdsOf(expired)
  /\ active' = active \ (IdsOf(expired) \cap canceled)
  /\ UNCHANGED <<now, nextId, cur, timeout, eventfd>>

(* The check before a callback: an earlier one may have cancelled it.      *)
Skip(n) ==
  /\ phase = "timers" /\ n \in Earliest(due) /\ n.id \in canceled
  /\ due' = due \ {n}
  /\ canceled' = canceled \ {n.id}
  /\ active' = active \ {n.id}
  /\ UNCHANGED <<now, nextId, timers, phase, cur, timeout, eventfd>>

Call(n) ==
  /\ phase = "timers" /\ n \in Earliest(due) /\ n.id \notin canceled
  /\ due' = due \ {n} /\ cur' = {n}
  /\ phase' = "callback"
  /\ UNCHANGED <<now, heapVars, timeout, eventfd>>

(* The section after a callback: cancelled, periodic, or done.             *)
Requeue_Faulty(n) ==                          \* the mark is taken off, the node goes back
  /\ phase = "callback" /\ n \in cur
  /\ cur' = {}
  /\ phase' = "timers"
  /\ canceled' = canceled \ {n.id}
  /\ IF n.interval > 0
     THEN /\ timers' = timers \cup {[n EXCEPT !.expire = now + n.interval]}
          /\ UNCHANGED active
     ELSE active' = active \ {n.id} /\ UNCHANGED timers
  /\ UNCHANGED <<now, nextId, due, timeout, eventfd>>

Requeue_Joins(n) ==                           \* a periodic node joins the running pass
  /\ phase = "callback" /\ n \in cur
  /\ cur' = {}
  /\ phase' = "timers"
  /\ IF n.id \notin canceled /\ n.interval > 0
     THEN /\ due' = due \cup {[n EXCEPT !.expire = now + n.interval]}
          /\ UNCHANGED <<canceled, active>>
     ELSE /\ active' = active \ {n.id} /\ canceled' = canceled \ {n.id}
          /\ UNCHANGED due
  /\ UNCHANGED <<now, nextId, timers, timeout, eventfd>>

Requeue(n) ==
  /\ phase = "callback" /\ n \in cur
  /\ cur' = {}
  /\ phase' = "timers"
  /\ IF n.id \notin canceled /\ n.interval > 0
     THEN /\ timers' = timers \cup {[n EXCEPT !.expire = now + n.interval]}
          /\ UNCHANGED <<canceled, active>>
     ELSE /\ active' = active \ {n.id} /\ canceled' = canceled \ {n.id}
          /\ UNCHANGED timers
  /\ UNCHANGED <<now, nextId, due, timeout, eventfd>>

PassDone ==
  /\ phase = "timers" /\ due = {}
  /\ phase' = "completions"
  /\ UNCHANGED <<now, heapVars, due, cur, timeout, eventfd>>

----------------------------------------------------------------------------
(* The loop around it.                                                     *)

get_next_timeout_ms_Faulty(node) == node.expire - now      \* already expired
get_next_timeout_ms(node) == IF node.expire <= now THEN 0 ELSE node.expire - now

EpollWait_Faulty ==                           \* an expired timer is taken for none
  /\ phase = "completions"
  /\ phase' = "sleep"
  /\ \/ {n \in timers : n.expire > now} = {} /\ timeout' = -1
     \/ \E n \in Earliest({n \in timers : n.expire > now}) : timeout' = get_next_timeout_ms(n)
  /\ UNCHANGED <<now, heapVars, due, cur, eventfd>>

EpollWait ==
  /\ phase = "completions"
  /\ phase' = "sleep"
  /\ \/ timers = {} /\ timeout' = -1
     \/ \E n \in Earliest(timers) : timeout' = get_next_timeout_ms(n)
  /\ UNCHANGED <<now, heapVars, due, cur, eventfd>>

(* epoll_wait returns for the timeout, the eventfd or a socket.            *)
Return ==
  /\ phase = "sleep"
  /\ phase' = "events"
  /\ timeout' = -1 /\ eventfd' = FALSE
  /\ UNCHANGED <<now, heapVars, due, cur>>

TimedOut == timeout = 0 /\ Return

Tick ==
  /\ now < MaxTime
  /\ now' = now + 1
  /\ timeout' = IF timeout > 0 THEN timeout - 1 ELSE timeout
  /\ UNCHANGED <<heapVars, phase, due, cur, eventfd>>

----------------------------------------------------------------------------
Init ==
  /\ now = 0 /\ nextId = 1
  /\ timers = {} /\ canceled = {} /\ active = {}
  /\ phase = "completions" /\ due = {} /\ cur = {} /\ timeout = -1 /\ eventfd = FALSE

Calls ==
  \/ \E d \in Delays, i \in Intervals : add_timer(d, i)
  \/ \E id \in active : cancel_timer(id)
  \/ clean_canceled_timers

Process ==
  \/ Collect \/ PassDone \/ EpollWait
  \/ (\E n \in due : Skip(n) \/ Call(n)) \/ (\E n \in cur : Requeue(n))

Next == Calls \/ Process \/ Return \/ Tick

(* The reactor thread runs and the clock advances; of the sockets nothing  *)
(* is assumed, so that only the timeout need end a wait.                   *)
Spec == Init /\ [][Next]_vars
FairSpec == Spec /\ WF_vars(Process) /\ WF_vars(TimedOut) /\ WF_vars(Tick)

----------------------------------------------------------------------------
(* Safety.                                                                 *)

TypeOK ==
  /\ now \in 0..MaxTime /\ nextId \in 1..(MaxTimers + 1)
  /\ timers \subseteq Node /\ due \subseteq Node /\ cur \subseteq Node
  /\ canceled \subseteq 1..MaxTimers /\ active \subseteq 1..MaxTimers
  /\ phase \in Phases /\ timeout \in Nat \cup {-1} /\ eventfd \in BOOLEAN

Nodes == timers \cup due \cup cur

(* Lazy deletion keeps its books: every id ever handed out that is still   *)
(* around has exactly one node, in the heap, in the running pass or in its *)
(* callback, and is either active or marked as cancelled, never both; so   *)
(* neither set can grow for ever and no mark can hit a later timer.        *)
BooksBalance ==
  /\ active \cap canceled = {}
  /\ active \cup canceled = IdsOf(Nodes)
  /\ \A m, n \in Nodes : m.id = n.id => m = n
  /\ timers \cap due = {} /\ timers \cap cur = {} /\ due \cap cur = {}
  /\ \A n \in Nodes : n.id < nextId

(* The loop does not sleep past a timer: while it waits, the rest of its   *)
(* timeout ends no later than the earliest active timer expires.           *)
NoOversleep ==
  phase = "sleep" => \A n \in timers :
    n.id \in active => timeout # -1 /\ (timeout = 0 \/ now + timeout <= n.expire)

(* The implementation of TimerService: a timer is pending while it is      *)
(* active, wherever its node is; cancelled nodes are invisible.            *)
NodeOf(id) == CHOOSE n \in Nodes : n.id = id

Service == INSTANCE TimerService WITH
  pending <- [id \in active |->
                [expire |-> NodeOf(id).expire, interval |-> NodeOf(id).interval]],
  running <- IF cur = {} THEN NoTimer ELSE (CHOOSE n \in cur : TRUE).id

(* Each timer fires only while pending, never early, a one-shot once, a    *)
(* periodic one a period after it returned, a cancelled one never again.   *)
ImplementsService == Service!Spec

----------------------------------------------------------------------------
(* Liveness: an expired timer is started or cancelled, whatever the other  *)
(* callbacks add, cancel or repeat meanwhile.                              *)
Expired(id) == id \in active /\ \E n \in timers : n.id = id /\ n.expire <= now

DueIsServed ==
  \A id \in 1..MaxTimers : Expired(id) ~> id \in IdsOf(cur) \/ id \notin active
=============================================================================

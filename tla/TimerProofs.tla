---------------------------- MODULE TimerProofs -----------------------------
(***************************************************************************)
(* Theorems about TimerManager for any number of timers, any delays and    *)
(* periods and any length of time.                                         *)
(***************************************************************************)
EXTENDS TimerManager, TLAPS

(* Every variable keeps its type; in particular the timeout is never the   *)
(* difference of an expired time.                                          *)
THEOREM TypeCorrect == Spec => []TypeOK
<1> USE DEF TypeOK, Phases, Node, heapVars, loopVars
<1>1. Init => TypeOK
  <2> SUFFICES ASSUME Init PROVE TypeOK
    OBVIOUS
  <2>1. 0 \in 0..MaxTime /\ 1 \in 1..(MaxTimers + 1)
    BY TimerAssumption
  <2>2. timers = {} /\ due = {} /\ cur = {} /\ canceled = {} /\ active = {}
    BY DEF Init
  <2> QED
    BY <2>1, <2>2 DEF Init
<1>2. TypeOK /\ [Next]_vars => TypeOK'
  <2> SUFFICES ASSUME TypeOK, [Next]_vars PROVE TypeOK'
    OBVIOUS
  <2>1. ASSUME NEW d \in Delays, NEW i \in Intervals, add_timer(d, i) PROVE TypeOK'
    <3>1. nextId \in 1..MaxTimers /\ nextId + 1 \in 1..(MaxTimers + 1) /\ now + d \in Nat
      BY <2>1, TimerAssumption DEF add_timer
    <3> QED
      BY <2>1, <3>1 DEF add_timer
  <2>2. ASSUME NEW id \in active, cancel_timer(id) PROVE TypeOK'
    BY <2>2 DEF cancel_timer
  <2>3. CASE clean_canceled_timers
    BY <2>3 DEF clean_canceled_timers
  <2>4. CASE Collect
    BY <2>4 DEF Collect
  <2>5. ASSUME NEW n \in due, Skip(n) PROVE TypeOK'
    BY <2>5 DEF Skip
  <2>6. ASSUME NEW n \in due, Call(n) PROVE TypeOK'
    BY <2>6 DEF Call
  <2>7. ASSUME NEW n \in cur, Requeue(n) PROVE TypeOK'
    <3>0. n \in Node
      OBVIOUS
    <3>1. now \in Nat /\ n.interval \in Nat
      <4>1. now \in Nat
        BY TimerAssumption
      <4>2. n.interval \in Intervals
        BY <3>0
      <4> QED
        BY <4>1, <4>2, TimerAssumption
    <3>2. [n EXCEPT !.expire = now + n.interval] \in Node
      BY <3>0, <3>1
    <3> QED
      BY <2>7, <3>2 DEF Requeue
  <2>8. CASE PassDone
    BY <2>8 DEF PassDone
  <2>9. CASE EpollWait
    <3>1. timeout' \in Nat \cup {-1}
      <4>1. \A n \in timers : get_next_timeout_ms(n) \in Nat
        BY TimerAssumption DEF get_next_timeout_ms
      <4> QED
        BY <2>9, <4>1 DEF EpollWait, Earliest
    <3> QED
      BY <2>9, <3>1 DEF EpollWait
  <2>10. CASE Return
    BY <2>10 DEF Return
  <2>11. CASE Tick
    BY <2>11, TimerAssumption DEF Tick
  <2>12. CASE UNCHANGED vars
    BY <2>12 DEF vars
  <2> QED
    BY <2>1, <2>2, <2>3, <2>4, <2>5, <2>6, <2>7, <2>8, <2>9, <2>10, <2>11, <2>12
       DEF Next, Calls, Process
<1> QED
  BY <1>1, <1>2, PTL DEF Spec

(* The running pass exists only in its phases, and one callback at a time. *)
PassInv ==
  /\ phase # "callback" => cur = {}
  /\ phase \notin {"timers", "callback"} => due = {}
  /\ \A m, n \in cur : m = n

BooksInv == PassInv /\ BooksBalance

(* BooksBalance is inductive together with PassInv.                        *)
LEMMA BooksInvariant == Spec => []BooksInv
<1> USE DEF BooksInv, PassInv, BooksBalance, Nodes, IdsOf, heapVars, loopVars
<1>1. Init => BooksInv
  BY DEF Init
<1>2. TypeOK /\ BooksInv /\ [Next]_vars => BooksInv'
  <2> SUFFICES ASSUME TypeOK, BooksInv, [Next]_vars PROVE BooksInv'
    OBVIOUS
  <2> USE DEF TypeOK, Node
  <2>1. ASSUME NEW d \in Delays, NEW i \in Intervals, add_timer(d, i) PROVE BooksInv'
    <3> DEFINE node == [id |-> nextId, expire |-> now + d, interval |-> i]
    <3>1. /\ timers' = timers \cup {node} /\ due' = due /\ cur' = cur /\ phase' = phase
          /\ active' = active \cup {nextId} /\ canceled' = canceled
          /\ nextId' = nextId + 1 /\ nextId \in Nat /\ node.id = nextId
          /\ \A n \in timers \cup due \cup cur : n.id < nextId /\ n.id \in Nat
      BY <2>1, TimerAssumption DEF add_timer
    <3> HIDE DEF node
    <3> QED
      BY <3>1
  <2>2. ASSUME NEW id \in active, cancel_timer(id) PROVE BooksInv'
    BY <2>2 DEF cancel_timer
  <2>3. CASE clean_canceled_timers
    BY <2>3 DEF clean_canceled_timers
  <2>4. CASE Collect
    BY <2>4 DEF Collect
  <2>5. ASSUME NEW n \in due, Skip(n) PROVE BooksInv'
    BY <2>5 DEF Skip
  <2>6. ASSUME NEW n \in due, Call(n) PROVE BooksInv'
    BY <2>6 DEF Call
  <2>7. ASSUME NEW n \in cur, Requeue(n) PROVE BooksInv'
    <3> DEFINE again == [n EXCEPT !.expire = now + n.interval]
    <3>1. again.id = n.id /\ cur = {n} /\ cur' = {} /\ due' = due /\ nextId' = nextId
          /\ phase' = "timers"
      BY <2>7 DEF Requeue
    <3>2. CASE n.id \notin canceled /\ n.interval > 0
      <4>1. timers' = timers \cup {again} /\ active' = active /\ canceled' = canceled
        BY <2>7, <3>2 DEF Requeue
      <4> HIDE DEF again
      <4> QED
        BY <3>1, <4>1
    <3>3. CASE ~(n.id \notin canceled /\ n.interval > 0)
      <4>1. timers' = timers /\ active' = active \ {n.id} /\ canceled' = canceled \ {n.id}
        BY <2>7, <3>3 DEF Requeue
      <4> HIDE DEF again
      <4> QED
        BY <3>1, <4>1
    <3> QED
      BY <3>2, <3>3
  <2>8. CASE PassDone \/ EpollWait \/ Return \/ Tick \/ UNCHANGED vars
    BY <2>8 DEF PassDone, EpollWait, Return, Tick, vars
  <2> QED
    BY <2>1, <2>2, <2>3, <2>4, <2>5, <2>6, <2>7, <2>8 DEF Next, Calls, Process
<1> QED
  BY <1>1, <1>2, TypeCorrect, PTL DEF Spec

(* Ids, nodes and marks of lazy deletion stay in balance.                  *)
THEOREM BooksAreBalanced == Spec => []BooksBalance
  BY BooksInvariant, PTL DEF BooksInv

(* NoOversleep strengthened to all nodes of the heap: timers are added and *)
(* removed only while the loop is awake, and the clock takes from the      *)
(* timeout what it adds to the time.                                       *)
SleepInv ==
  phase = "sleep" => \A n \in timers : timeout # -1 /\ (timeout = 0 \/ now + timeout <= n.expire)

(* NoOversleep holds for any timers and any length of time.                *)
THEOREM NeverOversleeps == Spec => []NoOversleep
<1>1. Init => SleepInv
  BY DEF Init, SleepInv
<1>2. TypeOK /\ SleepInv /\ [Next]_vars => SleepInv'
  <2> SUFFICES ASSUME TypeOK, SleepInv, [Next]_vars, phase' = "sleep", NEW n \in timers'
               PROVE  timeout' # -1 /\ (timeout' = 0 \/ now' + timeout' <= n.expire)
    BY DEF SleepInv
  <2> USE DEF TypeOK, SleepInv, heapVars, loopVars
  <2>1. CASE EpollWait
    <3>1. PICK m \in Earliest(timers) : timeout' = get_next_timeout_ms(m)
      BY <2>1 DEF EpollWait
    <3>2. m.expire <= n.expire /\ m.expire \in Nat /\ n.expire \in Nat /\ now \in Nat
      BY <2>1, <3>1, TimerAssumption DEF EpollWait, Earliest, Node
    <3> QED
      BY <2>1, <3>1, <3>2 DEF EpollWait, get_next_timeout_ms
  <2>2. CASE Tick
    <3>1. n \in timers /\ n.expire \in Nat /\ now \in Nat /\ phase = "sleep"
      BY <2>2, TimerAssumption DEF Tick, Node
    <3> QED
      BY <2>2, <3>1 DEF Tick
  <2>3. CASE UNCHANGED vars
    BY <2>3 DEF vars
  <2>4. ASSUME Calls \/ Collect \/ PassDone \/ Return
               \/ (\E m \in due : Skip(m) \/ Call(m)) \/ (\E m \in cur : Requeue(m))
        PROVE  FALSE
    BY <2>4 DEF Calls, CanCall, add_timer, cancel_timer, clean_canceled_timers, Collect,
                PassDone, Return, Skip, Call, Requeue
  <2> QED
    BY <2>1, <2>2, <2>3, <2>4 DEF Next, Process
<1>3. SleepInv => NoOversleep
  BY DEF SleepInv, NoOversleep
<1> QED
  BY <1>1, <1>2, <1>3, TypeCorrect, PTL DEF Spec

(* The pass holds expired timers only.                                     *)
DueInv == \A n \in due : n.expire <= now

LEMMA DueIsExpired == Spec => []DueInv
<1>1. Init => DueInv
  BY DEF Init, DueInv
<1>2. TypeOK /\ DueInv /\ [Next]_vars => DueInv'
  <2> SUFFICES ASSUME TypeOK, DueInv, [Next]_vars, NEW n \in due' PROVE n.expire <= now'
    BY DEF DueInv
  <2> USE DEF DueInv, heapVars, loopVars
  <2>1. CASE Tick
    <3>1. n \in due /\ n \in Node
      BY <2>1 DEF Tick, TypeOK
    <3>2. n.expire \in Nat /\ now \in Nat
      BY <3>1, TimerAssumption DEF TypeOK, Node
    <3> QED
      BY <2>1, <3>1, <3>2 DEF Tick
  <2>2. CASE Collect
    BY <2>2 DEF Collect
  <2>3. CASE Calls \/ PassDone \/ EpollWait \/ Return \/ UNCHANGED vars
             \/ (\E m \in due : Skip(m) \/ Call(m)) \/ (\E m \in cur : Requeue(m))
    BY <2>3 DEF Calls, add_timer, cancel_timer, clean_canceled_timers, PassDone, EpollWait,
                Return, vars, Skip, Call, Requeue
  <2> QED
    BY <2>1, <2>2, <2>3 DEF Next, Process
<1> QED
  BY <1>1, <1>2, TypeCorrect, PTL DEF Spec

(***************************************************************************)
(* The refinement.  Only add_timer, cancel_timer, Call, Requeue and Tick   *)
(* are steps of the service; dropping cancelled nodes, moving expired ones *)
(* to the pass and the loop's own steps leave its state as it is.          *)
(***************************************************************************)
Pending == [id \in active |->
              [expire |-> NodeOf(id).expire, interval |-> NodeOf(id).interval]]
Running == IF cur = {} THEN NoTimer ELSE (CHOOSE n \in cur : TRUE).id

(* Ids are unique, so NodeOf finds the node.                               *)
LEMMA NodeOfNode ==
  ASSUME NEW S, \A m, n \in S : m.id = n.id => m = n, NEW node \in S
  PROVE  (CHOOSE n \in S : n.id = node.id) = node
  OBVIOUS

(* A step that leaves the ids in use and their nodes alone is invisible.   *)
LEMMA PendingUnchanged ==
  ASSUME BooksBalance, BooksBalance', active' = active,
         \A n \in Nodes : n.id \in active => n \in Nodes'
  PROVE  Pending' = Pending
<1>1. ASSUME NEW id \in active PROVE NodeOf(id)' = NodeOf(id)
  <2>1. PICK n \in Nodes : n.id = id
    BY DEF BooksBalance, IdsOf
  <2>2. n \in Nodes'
    BY <2>1
  <2>3. NodeOf(id) = n
    BY <2>1, NodeOfNode DEF NodeOf, BooksBalance
  <2>4. NodeOf(id)' = n
    BY <2>1, <2>2, NodeOfNode DEF NodeOf, BooksBalance
  <2> QED
    BY <2>3, <2>4
<1> QED
  BY <1>1 DEF Pending

(* TimerManager implements TimerService.                                   *)
THEOREM RefinesTimerService == Spec => ImplementsService
<1> USE DEF heapVars, loopVars
<1>1. Init => Service!Init
  <2> SUFFICES ASSUME Init PROVE Service!Init
    OBVIOUS
  <2>1. Pending = [i \in {} |-> {}] /\ Running = NoTimer /\ now = 0
    BY DEF Init, Pending, Running
  <2> QED
    BY <2>1 DEF Service!Init, Pending, Running
<1>2. /\ TypeOK /\ BooksInv /\ DueInv /\ BooksInv' /\ [Next]_vars
      => [Service!Next]_(Service!vars)
  <2> SUFFICES ASSUME TypeOK, BooksInv, DueInv, BooksInv', [Next]_vars
               PROVE  Service!Next \/ (Pending' = Pending /\ Running' = Running /\ now' = now)
    BY DEF Service!vars, Pending, Running
  <2>a. BooksBalance /\ BooksBalance' /\ PassInv /\ PassInv'
    BY DEF BooksInv
  <2>b. \A n \in Nodes : NodeOf(n.id) = n
    BY <2>a, NodeOfNode DEF NodeOf, BooksBalance
  <2>c. \A n \in Nodes' : NodeOf(n.id)' = n
    BY <2>a, NodeOfNode DEF NodeOf, BooksBalance
  <2>1. ASSUME NEW d \in Delays, NEW i \in Intervals, NEW k, k = nextId, add_timer(d, i)
        PROVE  Service!Add(k, d, i) /\ k \in 1..MaxTimers
    <3> DEFINE node == [id |-> k, expire |-> now + d, interval |-> i]
    <3>1. /\ active' = active \cup {k} /\ Nodes' = Nodes \cup {node} /\ cur' = cur
          /\ now' = now /\ k \in 1..MaxTimers
      BY <2>1 DEF add_timer, Nodes, TypeOK
    <3>2. k \notin active /\ Running # k
      BY <2>1, <2>a, <3>1, TimerAssumption DEF BooksBalance, IdsOf, Running, Nodes
    <3>3. node.id = k /\ node.expire = now + d /\ node.interval = i
      OBVIOUS
    <3> HIDE DEF node
    <3>4. NodeOf(k)' = node
      BY <2>c, <3>1, <3>3
    <3>5. ASSUME NEW id \in active PROVE NodeOf(id)' = NodeOf(id)
      <4>1. PICK n \in Nodes : n.id = id
        BY <2>a DEF BooksBalance, IdsOf
      <4> QED
        BY <2>b, <2>c, <3>1, <4>1
    <3>6. Pending' = [id \in active \cup {k} |->
             IF id = k THEN [expire |-> now + d, interval |-> i] ELSE Pending[id]]
      BY <3>1, <3>2, <3>3, <3>4, <3>5 DEF Pending
    <3>7. Running' = Running /\ DOMAIN Pending = active
      BY <3>1 DEF Running, Pending
    <3> QED
      BY <3>1, <3>2, <3>6, <3>7 DEF Service!Add, Service!Put, Pending, Running
  <2>2. ASSUME NEW id \in active, cancel_timer(id)
        PROVE  Service!Cancel(id) /\ id \in 1..MaxTimers
    <3>1. active' = active \ {id} /\ Nodes' = Nodes /\ cur' = cur /\ now' = now
      BY <2>2 DEF cancel_timer, Nodes
    <3>2. Pending' = [j \in active \ {id} |-> Pending[j]]
      BY <3>1 DEF Pending, NodeOf
    <3>3. Running' = Running /\ DOMAIN Pending = active
      BY <3>1 DEF Running, Pending
    <3> QED
      BY <3>1, <3>2, <3>3 DEF Service!Cancel, Service!Drop, Pending, Running, TypeOK
  <2>3. CASE \/ clean_canceled_timers \/ Collect \/ PassDone \/ EpollWait \/ Return
             \/ (\E n \in due : Skip(n)) \/ UNCHANGED vars
    <3>0. /\ active' = active /\ cur' = cur /\ now' = now
          /\ \A n \in Nodes : n.id \in active => n \in Nodes'
      <4>1. CASE clean_canceled_timers
        BY <4>1, <2>a DEF clean_canceled_timers, Nodes, BooksBalance
      <4>2. CASE Collect
        <5>1. /\ active' = active \ (IdsOf({n \in timers : n.expire <= now}) \cap canceled)
              /\ cur' = cur /\ now' = now
              /\ timers' = timers \ {n \in timers : n.expire <= now}
              /\ due' = {n \in timers : n.expire <= now /\ n.id \notin canceled}
              /\ due = {}
          BY <4>2, <2>a DEF Collect, PassInv
        <5>2. active \cap canceled = {}
          BY <2>a DEF BooksBalance
        <5>3. active' = active
          BY <5>1, <5>2
        <5>4. ASSUME NEW n \in Nodes, n.id \in active PROVE n \in Nodes'
          BY <5>1, <5>2, <5>4 DEF Nodes
        <5> QED
          BY <5>1, <5>3, <5>4
      <4>3. ASSUME NEW n \in due, Skip(n)
            PROVE  /\ active' = active /\ cur' = cur /\ now' = now
                   /\ \A m \in Nodes : m.id \in active => m \in Nodes'
        BY <4>3, <2>a DEF Skip, Nodes, BooksBalance
      <4>4. CASE PassDone \/ EpollWait \/ Return \/ UNCHANGED vars
        BY <4>4 DEF PassDone, EpollWait, Return, vars, Nodes
      <4> QED
        BY <2>3, <4>1, <4>2, <4>3, <4>4
    <3>3. Pending' = Pending
      BY <2>a, <3>0, PendingUnchanged
    <3> QED
      BY <3>0, <3>3 DEF Running
  <2>4. ASSUME NEW n \in due, Call(n) PROVE Service!Start(n.id) /\ n.id \in 1..MaxTimers
    <3>1. /\ active' = active /\ Nodes' = Nodes /\ now' = now /\ cur = {} /\ cur' = {n}
          /\ n \in Nodes /\ n.id \in active
      BY <2>4, <2>a DEF Call, Nodes, BooksBalance, PassInv, IdsOf
    <3>2. Pending' = Pending
      BY <3>1, <2>a, PendingUnchanged
    <3>3. Running = NoTimer /\ Running' = n.id
      BY <3>1 DEF Running
    <3>4. n.id \in DOMAIN Pending /\ Pending[n.id].expire <= now
      BY <2>4, <2>b, <3>1 DEF Pending, DueInv
    <3>5. n.id \in 1..MaxTimers
      BY <3>1 DEF TypeOK
    <3> QED
      BY <3>1, <3>2, <3>3, <3>4, <3>5 DEF Service!Start, Pending, Running
  <2>5. ASSUME NEW n \in cur, Requeue(n) PROVE Service!Return
    <3> DEFINE again == [n EXCEPT !.expire = now + n.interval]
    <3>1. /\ n \in Node /\ n \in Nodes /\ cur = {n} /\ cur' = {} /\ now' = now
          /\ due' = due /\ n.id \in 1..MaxTimers
      BY <2>5, <2>a DEF Requeue, TypeOK, PassInv, Nodes, Node
    <3>2. Running = n.id /\ Running' = NoTimer /\ Running # NoTimer
      BY <3>1, TimerAssumption DEF Running
    <3>3. NodeOf(n.id) = n /\ DOMAIN Pending = active
      BY <2>b, <3>1 DEF Pending
    <3>4. /\ n.id \in active \cup canceled
          /\ n.id \notin active \/ n.id \notin canceled
      BY <2>a, <3>1 DEF BooksBalance, IdsOf
    <3>5. ASSUME NEW id \in active, id # n.id, timers \subseteq timers'
          PROVE  NodeOf(id)' = NodeOf(id)
      <4>1. PICK m \in Nodes : m.id = id
        BY <2>a DEF BooksBalance, IdsOf
      <4>2. m \in Nodes'
        BY <3>1, <3>5, <4>1 DEF Nodes
      <4> QED
        BY <2>b, <2>c, <4>1, <4>2
    <3>6. CASE n.id \in canceled
      <4>1. timers' = timers /\ active' = active
        BY <2>5, <3>4, <3>6 DEF Requeue
      <4>2. Pending' = Pending
        BY <3>4, <3>5, <3>6, <4>1 DEF Pending
      <4> QED
        BY <3>1, <3>2, <3>3, <3>4, <3>6, <4>2 DEF Service!Return, Pending, Running
    <3>7. CASE n.id \notin canceled /\ n.interval = 0
      <4>1. timers' = timers /\ active' = active \ {n.id} /\ n.id \in active
        BY <2>5, <3>4, <3>7 DEF Requeue
      <4>2. Pending' = [i \in active \ {n.id} |-> Pending[i]]
        BY <3>5, <4>1 DEF Pending
      <4>3. Pending[n.id].interval = 0
        BY <3>3, <3>7, <4>1 DEF Pending
      <4> QED
        BY <3>1, <3>2, <3>3, <4>1, <4>2, <4>3
           DEF Service!Return, Service!Drop, Pending, Running
    <3>8. CASE n.id \notin canceled /\ n.interval # 0
      <4>1. n.interval > 0
        <5>1. n.interval \in Intervals
          BY <3>1 DEF Node
        <5>2. n.interval \in Nat /\ n.interval # 0
          BY <3>8, <5>1, TimerAssumption
        <5>3. \A k \in Nat : k # 0 => k > 0
          OBVIOUS
        <5> QED
          BY <5>2, <5>3
      <4>2. /\ timers' = timers \cup {again} /\ active' = active /\ n.id \in active
        BY <2>5, <3>4, <3>8, <4>1 DEF Requeue
      <4>3. again.id = n.id /\ again.expire = now + n.interval /\ again.interval = n.interval
        BY <3>1 DEF Node
      <4> HIDE DEF again
      <4>4. NodeOf(n.id)' = again
        BY <2>c, <3>1, <4>2, <4>3 DEF Nodes
      <4>5. Pending' = [i \in active \cup {n.id} |->
               IF i = n.id THEN [expire |-> now + n.interval, interval |-> n.interval]
               ELSE Pending[i]]
        BY <3>5, <4>2, <4>3, <4>4 DEF Pending
      <4>6. Pending[n.id].interval = n.interval
        BY <3>3, <4>2 DEF Pending
      <4> QED
        BY <3>1, <3>2, <3>3, <3>8, <4>2, <4>5, <4>6
           DEF Service!Return, Service!Put, Pending, Running
    <3> QED
      BY <3>6, <3>7, <3>8
  <2>6. CASE Tick
    <3>1. Pending' = Pending /\ Running' = Running
      BY <2>6 DEF Tick, Pending, Running, NodeOf, Nodes
    <3> QED
      BY <2>6, <3>1 DEF Tick, Service!Tick, Service!Next, Pending, Running
  <2> QED
    <3>1. ASSUME Calls
          PROVE  Service!Next \/ (Pending' = Pending /\ Running' = Running /\ now' = now)
      BY <2>1, <2>2, <2>3, <3>1 DEF Calls, Service!Next
    <3> QED
      BY <2>3, <2>4, <2>5, <2>6, <3>1 DEF Next, Process, Service!Next
<1> QED
  BY <1>1, <1>2, TypeCorrect, BooksInvariant, DueIsExpired, PTL DEF Spec, ImplementsService, Service!Spec
=============================================================================

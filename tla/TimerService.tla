---------------------------- MODULE TimerService ----------------------------
(***************************************************************************)
(* What core/TimerManager promises its users.  A timer is pending from     *)
(* add_timer until it is cancelled or, if it is a one-shot, until its      *)
(* callback returns.  Only a pending timer whose time has come starts; one *)
(* callback runs at a time; a periodic timer that was not cancelled is     *)
(* pending again, a full period after its callback returned.               *)
(***************************************************************************)
EXTENDS Naturals

CONSTANTS
  MaxTimers,     (* bound: timers ever added                               *)
  MaxTime,       (* bound: the clock                                       *)
  Delays, Intervals,
  NoTimer

VARIABLES
  now,           (* the clock, in ticks                                    *)
  pending,       (* pending[id]: when it is due, and its period or 0       *)
  running        (* the timer whose callback runs, or NoTimer              *)

vars == <<now, pending, running>>

Put(id, expire, interval) ==
  pending' = [i \in DOMAIN pending \cup {id} |->
    IF i = id THEN [expire |-> expire, interval |-> interval] ELSE pending[i]]

Drop(id) == pending' = [i \in DOMAIN pending \ {id} |-> pending[i]]

Tick ==
  /\ now < MaxTime
  /\ now' = now + 1
  /\ UNCHANGED <<pending, running>>

Add(id, delay, interval) ==
  /\ id \notin DOMAIN pending \cup {running}
  /\ Put(id, now + delay, interval)
  /\ UNCHANGED <<now, running>>

(* Cancelling is final, wherever the timer is, even in its own callback.   *)
Cancel(id) ==
  /\ id \in DOMAIN pending
  /\ Drop(id)
  /\ UNCHANGED <<now, running>>

Start(id) ==
  /\ running = NoTimer
  /\ id \in DOMAIN pending /\ pending[id].expire <= now
  /\ running' = id
  /\ UNCHANGED <<now, pending>>

Return ==
  /\ running # NoTimer
  /\ running' = NoTimer
  /\ IF running \notin DOMAIN pending THEN UNCHANGED pending
     ELSE IF pending[running].interval = 0 THEN Drop(running)
     ELSE Put(running, now + pending[running].interval, pending[running].interval)
  /\ UNCHANGED now

Init == now = 0 /\ pending = [i \in {} |-> {}] /\ running = NoTimer

Next ==
  \/ Tick \/ Return
  \/ \E id \in 1..MaxTimers :
       Cancel(id) \/ Start(id) \/ \E d \in Delays, i \in Intervals : Add(id, d, i)

Spec == Init /\ [][Next]_vars
=============================================================================

----------------------------- MODULE ThreadPool -----------------------------
(***************************************************************************)
(* core/ThreadPool: tasks go to the workers through a queue guarded by a   *)
(* mutex and a condition variable; what they post comes back through a     *)
(* second queue that the reactor thread drains, and an eventfd wakes the   *)
(* reactor.  A section under one of the two mutexes is one action; the     *)
(* notification and the wake-up, which the code performs after unlocking,  *)
(* are actions of their own, so that anything may happen in between.       *)
(***************************************************************************)
EXTENDS Naturals, Sequences, FiniteSets

CONSTANTS
  Workers,       (* the threads of workers_                                *)
  Tasks,         (* the tasks handed to enqueue_with_callback, each once   *)
  MaxEmits,      (* bound: what a task posts before its callback           *)
  NoTask

(* EpollLoop builds its pool with four threads.                            *)
ASSUME PoolAssumption ==
  IsFiniteSet(Workers) /\ Workers # {} /\ MaxEmits \in Nat /\ NoTask \notin Tasks

VARIABLES
  tasks,         (* task_                                                  *)
  stop,          (* stop_                                                  *)
  wpc,           (* where worker_loop stands                               *)
  wtask,         (* the task a worker runs                                 *)
  posted,        (* posted[t]: how often t has called post_completion      *)
  completions,   (* completions_                                           *)
  eventfd,       (* the wake-up counter of the reactor is above zero       *)
  main,          (* where the reactor thread stands                        *)
  reported,      (* this turn's epoll_wait reported the eventfd            *)
  delivered,     (* the callbacks the reactor has run, in order            *)
  submitted      (* the tasks enqueued so far                              *)

poolVars == <<tasks, stop, submitted>>
workVars == <<wpc, wtask, posted>>
mainVars == <<main, reported, delivered>>
vars == <<poolVars, workVars, completions, eventfd, mainVars>>

WorkerPCs == {"check", "waiting", "running", "wake", "exited"}
MainPCs   == {"wait", "events", "notify", "drain", "stopping", "joining", "joined"}
Posts     == [task : Tasks, n : Nat, last : BOOLEAN]

At(l)   == {w \in Workers : wpc[w] = l}
Turn(l) == main' = l

----------------------------------------------------------------------------
(* The reactor thread.                                                     *)

(* enqueue_with_callback up to the unlock.                                 *)
Enqueue(t) ==
  /\ main = "events" /\ ~stop /\ t \notin submitted
  /\ tasks' = Append(tasks, t)
  /\ submitted' = submitted \cup {t}
  /\ Turn("notify")
  /\ UNCHANGED <<stop, workVars, completions, eventfd, reported, delivered>>

(* tasks_cv_.notify_one().                                                 *)
NotifyOne_Faulty ==
  /\ main = "notify"
  /\ Turn("events")
  /\ UNCHANGED <<poolVars, workVars, completions, eventfd, reported, delivered>>

NotifyOne ==
  /\ main = "notify"
  /\ \/ At("waiting") = {} /\ UNCHANGED wpc
     \/ \E w \in At("waiting") : wpc' = [wpc EXCEPT ![w] = "check"]
  /\ Turn("events")
  /\ UNCHANGED <<poolVars, wtask, posted, completions, eventfd, reported, delivered>>

(* epoll_wait returns: for the eventfd, or for a socket or a timer.        *)
WaitReturns ==
  /\ main = "wait"
  /\ reported' = eventfd
  /\ Turn("events")
  /\ UNCHANGED <<poolVars, workVars, completions, eventfd, delivered>>

WokenUp == eventfd /\ WaitReturns

(* The wake-up event: read the eventfd until it is empty.                  *)
ReadEventfd ==
  /\ main = "events" /\ reported
  /\ eventfd' = FALSE /\ reported' = FALSE
  /\ UNCHANGED <<poolVars, workVars, completions, main, delivered>>

EventsDone ==
  /\ main = "events" /\ ~reported
  /\ Turn("drain")
  /\ UNCHANGED <<poolVars, workVars, completions, eventfd, reported, delivered>>

(* process_completions: pop under the lock, run outside it, until empty.   *)
RunCompletion ==
  /\ main = "drain" /\ completions # <<>>
  /\ delivered' = Append(delivered, Head(completions))
  /\ completions' = Tail(completions)
  /\ UNCHANGED <<poolVars, workVars, eventfd, main, reported>>

DrainDone_Faulty ==                           \* one callback per turn
  /\ main = "drain"
  /\ Turn("wait")
  /\ UNCHANGED <<poolVars, workVars, completions, eventfd, reported, delivered>>

DrainDone ==
  /\ main = "drain" /\ completions = <<>>
  /\ Turn("wait")
  /\ UNCHANGED <<poolVars, workVars, completions, eventfd, reported, delivered>>

(* run() leaves its loop on an epoll error and the pool is destroyed:      *)
(* stop() sets the flag, notifies all, and joins.                          *)
Stop ==
  /\ main = "wait"
  /\ stop' = TRUE
  /\ Turn("stopping")
  /\ UNCHANGED <<tasks, submitted, workVars, completions, eventfd, reported, delivered>>

NotifyAll_Faulty ==                           \* notify_one in stop()
  /\ main = "stopping"
  /\ \/ At("waiting") = {} /\ UNCHANGED wpc
     \/ \E w \in At("waiting") : wpc' = [wpc EXCEPT ![w] = "check"]
  /\ Turn("joining")
  /\ UNCHANGED <<poolVars, wtask, posted, completions, eventfd, reported, delivered>>

NotifyAll ==
  /\ main = "stopping"
  /\ wpc' = [w \in Workers |-> IF wpc[w] = "waiting" THEN "check" ELSE wpc[w]]
  /\ Turn("joining")
  /\ UNCHANGED <<poolVars, wtask, posted, completions, eventfd, reported, delivered>>

Join ==
  /\ main = "joining" /\ At("exited") = Workers
  /\ Turn("joined")
  /\ UNCHANGED <<poolVars, workVars, completions, eventfd, reported, delivered>>

----------------------------------------------------------------------------
(* A worker thread.                                                        *)

(* worker_loop's locked section. tasks_cv_.wait releases the mutex and     *)
(* sleeps in one step when there is neither a task nor a stop.             *)
Take_Faulty(w) ==                             \* front() without pop()
  /\ wpc[w] = "check" /\ tasks # <<>>
  /\ wtask' = [wtask EXCEPT ![w] = Head(tasks)]
  /\ wpc' = [wpc EXCEPT ![w] = "running"]
  /\ UNCHANGED <<poolVars, posted, completions, eventfd, mainVars>>

Take(w) ==
  /\ wpc[w] = "check" /\ tasks # <<>>
  /\ wtask' = [wtask EXCEPT ![w] = Head(tasks)]
  /\ tasks' = Tail(tasks)
  /\ wpc' = [wpc EXCEPT ![w] = "running"]
  /\ UNCHANGED <<stop, submitted, posted, completions, eventfd, mainVars>>

Sleep(w) ==
  /\ wpc[w] = "check" /\ tasks = <<>> /\ ~stop
  /\ wpc' = [wpc EXCEPT ![w] = "waiting"]
  /\ UNCHANGED <<poolVars, wtask, posted, completions, eventfd, mainVars>>

Exit_Faulty(w) ==                             \* stop_ alone ends the worker
  /\ wpc[w] = "check" /\ stop
  /\ wpc' = [wpc EXCEPT ![w] = "exited"]
  /\ UNCHANGED <<poolVars, wtask, posted, completions, eventfd, mainVars>>

Exit(w) ==
  /\ wpc[w] = "check" /\ tasks = <<>> /\ stop
  /\ wpc' = [wpc EXCEPT ![w] = "exited"]
  /\ UNCHANGED <<poolVars, wtask, posted, completions, eventfd, mainVars>>

(* The condition variable may return on its own.                           *)
SpuriousWakeup(w) ==
  /\ wpc[w] = "waiting"
  /\ wpc' = [wpc EXCEPT ![w] = "check"]
  /\ UNCHANGED <<poolVars, wtask, posted, completions, eventfd, mainVars>>

(* post_completion up to the unlock; only the post that finds the queue    *)
(* empty goes on to wake the reactor.                                      *)
NeedsWakeup_Faulty == completions # <<>>      \* the flag is inverted
NeedsWakeup        == completions = <<>>

Post_Faulty(w, last) ==                       \* the callback is built from a moved-from task
  LET t == wtask[w] IN
  /\ wpc[w] = "running"
  /\ posted' = [posted EXCEPT ![t] = @ + 1]
  /\ wtask' = IF last THEN [wtask EXCEPT ![w] = NoTask] ELSE wtask
  /\ completions' = Append(completions, [task |-> wtask'[w], n |-> posted[t] + 1, last |-> last])
  /\ wpc' = [wpc EXCEPT ![w] =
       IF NeedsWakeup THEN "wake" ELSE IF last THEN "check" ELSE "running"]
  /\ UNCHANGED <<poolVars, eventfd, mainVars>>

Post(w, last) ==
  LET t == wtask[w] IN
  /\ wpc[w] = "running"
  /\ posted' = [posted EXCEPT ![t] = @ + 1]
  /\ completions' = Append(completions, [task |-> t, n |-> posted[t] + 1, last |-> last])
  /\ wtask' = IF last THEN [wtask EXCEPT ![w] = NoTask] ELSE wtask
  /\ wpc' = [wpc EXCEPT ![w] =
       IF NeedsWakeup THEN "wake" ELSE IF last THEN "check" ELSE "running"]
  /\ UNCHANGED <<poolVars, eventfd, mainVars>>

(* The task posts an event (AgentLoop's emit); the wrapper of              *)
(* enqueue_with_callback posts the callback when the task returns.         *)
Emit(w)   == wtask[w] # NoTask /\ posted[wtask[w]] < MaxEmits /\ Post(w, FALSE)
Finish(w) == wtask[w] # NoTask /\ Post(w, TRUE)

(* wakeup_fn_(): write the eventfd.                                        *)
WakeReactor(w) ==
  /\ wpc[w] = "wake"
  /\ eventfd' = TRUE
  /\ wpc' = [wpc EXCEPT ![w] = IF wtask[w] = NoTask THEN "check" ELSE "running"]
  /\ UNCHANGED <<poolVars, wtask, posted, completions, mainVars>>

----------------------------------------------------------------------------
Init ==
  /\ tasks = <<>> /\ stop = FALSE /\ submitted = {}
  /\ wpc = [w \in Workers |-> "check"] /\ wtask = [w \in Workers |-> NoTask]
  /\ posted = [t \in Tasks |-> 0]
  /\ completions = <<>> /\ eventfd = FALSE
  /\ main = "wait" /\ reported = FALSE /\ delivered = <<>>

Worker(w) ==
  Take(w) \/ Sleep(w) \/ Exit(w) \/ Emit(w) \/ Finish(w) \/ WakeReactor(w)

Main ==
  \/ \E t \in Tasks : Enqueue(t)
  \/ NotifyOne \/ WaitReturns \/ ReadEventfd \/ EventsDone \/ RunCompletion \/ DrainDone
  \/ Stop \/ NotifyAll \/ Join

Done == main = "joined" /\ UNCHANGED vars

Next == Main \/ (\E w \in Workers : Worker(w) \/ SpuriousWakeup(w)) \/ Done

Spec == Init /\ [][Next]_vars

(* Threads are scheduled. Nothing is assumed of sockets and timers (only   *)
(* the eventfd must end the wait), of spurious wake-ups, or of Stop.       *)
Fairness ==
  /\ \A w \in Workers : WF_vars(Worker(w))
  /\ WF_vars(NotifyOne \/ ReadEventfd \/ EventsDone \/ RunCompletion \/ DrainDone
             \/ NotifyAll \/ Join)
  /\ WF_vars(WokenUp)

FairSpec == Spec /\ Fairness

----------------------------------------------------------------------------
(* Safety.                                                                 *)

TypeOK ==
  /\ tasks \in Seq(Tasks) /\ stop \in BOOLEAN /\ submitted \subseteq Tasks
  /\ wpc \in [Workers -> WorkerPCs] /\ wtask \in [Workers -> Tasks \cup {NoTask}]
  /\ posted \in [Tasks -> Nat]
  /\ completions \in Seq(Posts) /\ delivered \in Seq(Posts)
  /\ eventfd \in BOOLEAN /\ main \in MainPCs /\ reported \in BOOLEAN

(* The reactor never goes to sleep on a completion: when it is about to    *)
(* wait and the queue is not empty, the eventfd is readable or the worker  *)
(* that found the queue empty has yet to write it.                         *)
NoLostWakeup ==
  main = "wait" /\ completions # <<>> => eventfd \/ At("wake") # {}

(* No worker sleeps over a task nobody is coming for: while one sleeps,    *)
(* every queued task has a worker on its way to the queue or a             *)
(* notification about to be sent.                                          *)
WorkConserving ==
  At("waiting") # {} =>
    Len(tasks) <= Cardinality(At("check")) + (IF main = "notify" THEN 1 ELSE 0)

Trace      == delivered \o completions
Of(t)      == {i \in 1..Len(Trace) : Trace[i].task = t}
Running(t) == {w \in Workers : wtask[w] = t}
Queued(t)  == \E i \in 1..Len(tasks) : tasks[i] = t

(* A task runs on one worker, once, and what it posts is delivered once    *)
(* and in order, the callback after everything else.                       *)
PostsInOrder ==
  \A t \in Tasks :
    /\ \A v, w \in Running(t) : v = w
    /\ {Trace[i].n : i \in Of(t)} = 1..posted[t]
    /\ \A i, j \in Of(t) : i < j => Trace[i].n < Trace[j].n
    /\ \A i \in Of(t) : Trace[i].last =>
         Trace[i].n = posted[t] /\ Running(t) = {} /\ ~Queued(t)

(* stop() returns only when every task accepted before it has run to its   *)
(* end: the queue is drained, not dropped.                                 *)
Finished(t) == \E i \in 1..Len(Trace) : Trace[i].task = t /\ Trace[i].last

StopDrains == main = "joined" => tasks = <<>> /\ \A t \in submitted : Finished(t)

----------------------------------------------------------------------------
(* Liveness.                                                               *)

CallbackRan(t) == \E i \in 1..Len(delivered) : delivered[i].task = t /\ delivered[i].last

(* The callback of every task runs on the reactor, unless the pool is      *)
(* being stopped.                                                          *)
TaskCompletes == \A t \in Tasks : t \in submitted ~> CallbackRan(t) \/ stop

(* stop() returns.                                                         *)
StopReturns == stop ~> main = "joined"
=============================================================================

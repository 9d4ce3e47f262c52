-------------------------- MODULE ThreadPoolProofs --------------------------
(***************************************************************************)
(* Theorems about ThreadPool for any finite set of workers, any set of     *)
(* tasks and any number of posts per task.                                 *)
(***************************************************************************)
EXTENDS ThreadPool, SequenceTheorems, FiniteSetTheorems, TLAPS

(* Every variable keeps the type the code declares for it.                 *)
THEOREM TypeCorrect == FairSpec => []TypeOK
<1>1. Init => TypeOK
  <2> SUFFICES ASSUME Init PROVE TypeOK
    OBVIOUS
  <2>1. tasks \in Seq(Tasks) /\ completions \in Seq(Posts) /\ delivered \in Seq(Posts)
    BY EmptySeq DEF Init
  <2> QED
    BY <2>1 DEF Init, TypeOK, WorkerPCs, MainPCs
<1>2. TypeOK /\ [Next]_vars => TypeOK'
  <2> SUFFICES ASSUME TypeOK, [Next]_vars PROVE TypeOK'
    OBVIOUS
  <2> USE DEF TypeOK, Turn, poolVars, workVars, mainVars
  <2>1. ASSUME NEW t \in Tasks, Enqueue(t) PROVE TypeOK'
    BY <2>1 DEF Enqueue, MainPCs
  <2>2. CASE NotifyOne
    BY <2>2 DEF NotifyOne, MainPCs, WorkerPCs
  <2>3. CASE WaitReturns
    BY <2>3 DEF WaitReturns, MainPCs
  <2>4. CASE ReadEventfd
    BY <2>4 DEF ReadEventfd
  <2>5. CASE EventsDone
    BY <2>5 DEF EventsDone, MainPCs
  <2>6. CASE RunCompletion
    BY <2>6 DEF RunCompletion
  <2>7. CASE DrainDone
    BY <2>7 DEF DrainDone, MainPCs
  <2>8. CASE Stop
    BY <2>8 DEF Stop, MainPCs
  <2>9. CASE NotifyAll
    BY <2>9 DEF NotifyAll, MainPCs, WorkerPCs
  <2>10. CASE Join
    BY <2>10 DEF Join, MainPCs
  <2>11. ASSUME NEW w \in Workers, Take(w) PROVE TypeOK'
    BY <2>11 DEF Take, WorkerPCs
  <2>12. ASSUME NEW w \in Workers, Sleep(w) PROVE TypeOK'
    BY <2>12 DEF Sleep, WorkerPCs
  <2>13. ASSUME NEW w \in Workers, Exit(w) PROVE TypeOK'
    BY <2>13 DEF Exit, WorkerPCs
  <2>14. ASSUME NEW w \in Workers, NEW last \in BOOLEAN, wtask[w] # NoTask, Post(w, last)
         PROVE  TypeOK'
    <3>1. wtask[w] \in Tasks
      BY <2>14
    <3>2. [task |-> wtask[w], n |-> posted[wtask[w]] + 1, last |-> last] \in Posts
      BY <3>1 DEF Posts
    <3>3. completions' \in Seq(Posts)
      BY <2>14, <3>2 DEF Post
    <3>4. wpc' \in [Workers -> WorkerPCs] /\ wtask' \in [Workers -> Tasks \cup {NoTask}]
      BY <2>14 DEF Post, WorkerPCs
    <3>5. posted' \in [Tasks -> Nat]
      BY <2>14, <3>1 DEF Post
    <3> QED
      BY <2>14, <3>3, <3>4, <3>5 DEF Post
  <2>15. ASSUME NEW w \in Workers, WakeReactor(w) PROVE TypeOK'
    BY <2>15 DEF WakeReactor, WorkerPCs
  <2>16. ASSUME NEW w \in Workers, SpuriousWakeup(w) PROVE TypeOK'
    BY <2>16 DEF SpuriousWakeup, WorkerPCs
  <2>17. CASE UNCHANGED vars
    BY <2>17 DEF vars
  <2> QED
    BY <2>1, <2>2, <2>3, <2>4, <2>5, <2>6, <2>7, <2>8, <2>9, <2>10, <2>11, <2>12, <2>13,
       <2>14, <2>15, <2>16, <2>17
       DEF Next, Main, Worker, Emit, Finish, Done
<1> QED
  BY <1>1, <1>2, PTL DEF FairSpec, Spec

(* The reactor never sleeps on a completion. The invariant is inductive    *)
(* because the only post that skips the wake-up finds the queue non-empty, *)
(* and the reactor goes back to sleep only on an empty queue.              *)
THEOREM WakeupNotLost == FairSpec => []NoLostWakeup
<1>1. Init => NoLostWakeup
  BY DEF Init, NoLostWakeup
<1>2. TypeOK /\ NoLostWakeup /\ [Next]_vars => NoLostWakeup'
  <2> SUFFICES ASSUME TypeOK, NoLostWakeup, [Next]_vars,
                      main' = "wait", completions' # <<>>
               PROVE  eventfd' \/ At("wake")' # {}
    BY DEF NoLostWakeup
  <2> USE DEF TypeOK, NoLostWakeup, At, Turn, poolVars, workVars, mainVars
  <2>1. ASSUME NEW t \in Tasks, Enqueue(t) PROVE FALSE
    BY <2>1 DEF Enqueue
  <2>2. ASSUME \/ NotifyOne \/ WaitReturns \/ ReadEventfd \/ EventsDone
               \/ RunCompletion \/ DrainDone \/ Stop \/ NotifyAll \/ Join
        PROVE  FALSE
    BY <2>2 DEF NotifyOne, WaitReturns, ReadEventfd, EventsDone, RunCompletion,
                DrainDone, Stop, NotifyAll, Join
  <2>3. ASSUME NEW w \in Workers, Take(w) \/ Sleep(w) \/ Exit(w) \/ SpuriousWakeup(w)
        PROVE  eventfd' \/ At("wake")' # {}
    <3>1. eventfd' = eventfd /\ main = "wait" /\ completions # <<>>
      BY <2>3 DEF Take, Sleep, Exit, SpuriousWakeup
    <3>2. \A v \in Workers : wpc[v] = "wake" => wpc'[v] = "wake"
      BY <2>3 DEF Take, Sleep, Exit, SpuriousWakeup
    <3> QED
      BY <3>1, <3>2
  <2>4. ASSUME NEW w \in Workers, NEW last \in BOOLEAN, Post(w, last)
        PROVE  eventfd' \/ At("wake")' # {}
    <3>1. CASE completions = <<>>
      BY <2>4, <3>1 DEF Post, NeedsWakeup
    <3>2. CASE completions # <<>>
      <4>1. \A v \in Workers : wpc[v] = "wake" => wpc'[v] = "wake"
        BY <2>4 DEF Post
      <4> QED
        BY <2>4, <3>2, <4>1 DEF Post
    <3> QED
      BY <3>1, <3>2
  <2>5. ASSUME NEW w \in Workers, WakeReactor(w) PROVE eventfd'
    BY <2>5 DEF WakeReactor
  <2>6. CASE UNCHANGED vars
    BY <2>6 DEF vars
  <2> QED
    BY <2>1, <2>2, <2>3, <2>4, <2>5, <2>6 DEF Next, Main, Worker, Emit, Finish, Done
<1> QED
  BY <1>1, <1>2, TypeCorrect, PTL DEF FairSpec, Spec

(* What one worker leaving or joining "check" does to the count.           *)
LEMMA CheckCount ==
  ASSUME NEW w \in Workers, NEW C, IsFiniteSet(C), w \notin C
  PROVE  Cardinality(C \cup {w}) = Cardinality(C) + 1
  BY FS_AddElement

(* A queued task never waits while an idle worker sleeps unnotified.       *)
THEOREM WorkIsConserved == FairSpec => []WorkConserving
<1> DEFINE Pending == IF main = "notify" THEN 1 ELSE 0
<1>1. Init => WorkConserving
  BY DEF Init, WorkConserving, At
<1>2. TypeOK /\ WorkConserving /\ [Next]_vars => WorkConserving'
  <2> SUFFICES ASSUME TypeOK, WorkConserving, [Next]_vars, At("waiting")' # {}
               PROVE  Len(tasks') <= Cardinality(At("check")') + Pending'
    BY DEF WorkConserving
  <2> USE DEF TypeOK, Turn, poolVars, workVars, mainVars
  <2>a. /\ IsFiniteSet(At("check")) /\ Cardinality(At("check")) \in Nat
        /\ IsFiniteSet(At("check")') /\ Cardinality(At("check")') \in Nat
        /\ Len(tasks) \in Nat
    <3>1. At("check") \subseteq Workers /\ At("check")' \subseteq Workers
      BY DEF At
    <3> QED
      BY <3>1, PoolAssumption, FS_Subset, FS_CardinalityType
  <2>b. ASSUME At("waiting") # {} PROVE Len(tasks) <= Cardinality(At("check")) + Pending
    BY <2>b DEF WorkConserving
  <2>1. ASSUME NEW t \in Tasks, Enqueue(t)
        PROVE  Len(tasks') <= Cardinality(At("check")') + Pending'
    <3>1. At("check")' = At("check") /\ At("waiting")' = At("waiting")
      BY <2>1 DEF Enqueue, At
    <3>2. Len(tasks') = Len(tasks) + 1 /\ Pending = 0 /\ Pending' = 1
      BY <2>1 DEF Enqueue
    <3> QED
      BY <3>1, <3>2, <2>a, <2>b
  <2>2. CASE NotifyOne
    <3>1. Len(tasks') = Len(tasks) /\ Pending = 1 /\ Pending' = 0
      BY <2>2 DEF NotifyOne
    <3>2. CASE At("waiting") = {}
      BY <2>2, <3>2 DEF NotifyOne, At
    <3>3. CASE At("waiting") # {}
      <4>1. PICK w \in At("waiting") : wpc' = [wpc EXCEPT ![w] = "check"]
        BY <2>2, <3>3 DEF NotifyOne
      <4>2. At("check")' = At("check") \cup {w} /\ w \in Workers /\ w \notin At("check")
        BY <4>1 DEF At
      <4>3. Cardinality(At("check")') = Cardinality(At("check")) + 1
        BY <4>2, <2>a, CheckCount
      <4> QED
        BY <3>1, <3>3, <4>3, <2>a, <2>b
    <3> QED
      BY <3>2, <3>3
  <2>3. CASE \/ WaitReturns \/ ReadEventfd \/ EventsDone \/ RunCompletion
             \/ DrainDone \/ Stop \/ Join \/ UNCHANGED vars
    <3>1. wpc' = wpc /\ tasks' = tasks /\ Pending' = Pending
      BY <2>3 DEF WaitReturns, ReadEventfd, EventsDone, RunCompletion, DrainDone,
                  Stop, Join, vars
    <3>2. At("check")' = At("check") /\ At("waiting")' = At("waiting")
      BY <3>1 DEF At
    <3> QED
      BY <3>1, <3>2, <2>b
  <2>4. ASSUME NotifyAll PROVE FALSE
    BY <2>4 DEF NotifyAll, At
  <2>5. ASSUME NEW w \in Workers, Take(w)
        PROVE  Len(tasks') <= Cardinality(At("check")') + Pending'
    <3>1. At("waiting") = At("waiting")' /\ w \notin At("check")'
          /\ At("check") = At("check")' \cup {w}
      BY <2>5 DEF Take, At
    <3>2. Cardinality(At("check")) = Cardinality(At("check")') + 1
      BY <3>1, <2>a, CheckCount
    <3>3. Len(tasks') = Len(tasks) - 1 /\ Pending' = Pending
      BY <2>5 DEF Take
    <3> QED
      BY <3>1, <3>2, <3>3, <2>a, <2>b
  <2>6. ASSUME NEW w \in Workers, Sleep(w) \/ Exit(w)
        PROVE  Len(tasks') <= Cardinality(At("check")') + Pending'
    BY <2>6, <2>a DEF Sleep, Exit
  <2>7. ASSUME NEW w \in Workers,
               \/ \E last \in BOOLEAN : Post(w, last)
               \/ WakeReactor(w) \/ SpuriousWakeup(w)
        PROVE  Len(tasks') <= Cardinality(At("check")') + Pending'
    <3>1. tasks' = tasks /\ Pending' = Pending
      BY <2>7 DEF Post, WakeReactor, SpuriousWakeup
    <3>2. At("check") \subseteq At("check")' /\ At("waiting")' \subseteq At("waiting")
      BY <2>7 DEF Post, WakeReactor, SpuriousWakeup, At
    <3>3. Cardinality(At("check")) <= Cardinality(At("check")')
      BY <3>2, <2>a, FS_Subset
    <3> QED
      BY <3>1, <3>2, <3>3, <2>a, <2>b
  <2> QED
    BY <2>1, <2>2, <2>3, <2>4, <2>5, <2>6, <2>7
       DEF Next, Main, Worker, Emit, Finish, Done
<1> QED
  BY <1>1, <1>2, TypeCorrect, PTL DEF FairSpec, Spec

(***************************************************************************)
(* stop(): the inductive invariant follows every accepted task from the    *)
(* queue over a worker to its last post, and says that the queue is empty  *)
(* once a worker has exited.                                               *)
(***************************************************************************)
Accounted ==
  \A t \in submitted : Queued(t) \/ (\E w \in Workers : wtask[w] = t) \/ Finished(t)

ExitInv ==
  /\ main = "joined" => \A w \in Workers : wpc[w] = "exited"
  /\ stop <=> main \in {"stopping", "joining", "joined"}
  /\ \A w \in Workers : wpc[w] = "exited" => stop /\ tasks = <<>>
  /\ \A w \in Workers : wpc[w] \in {"check", "waiting", "exited"} => wtask[w] = NoTask

(* Once a worker has exited nothing is enqueued and nothing is queued.     *)
THEOREM ExitIsFinal == FairSpec => []ExitInv
<1>1. Init => ExitInv
  BY DEF Init, ExitInv
<1>2. TypeOK /\ ExitInv /\ [Next]_vars => ExitInv'
  <2> SUFFICES ASSUME TypeOK, ExitInv, [Next]_vars PROVE ExitInv'
    OBVIOUS
  <2> USE DEF TypeOK, ExitInv, Turn, poolVars, workVars, mainVars, At
  <2>1. ASSUME NEW t \in Tasks, Enqueue(t) PROVE ExitInv'
    BY <2>1 DEF Enqueue
  <2>2. CASE NotifyOne
    BY <2>2 DEF NotifyOne
  <2>3. CASE WaitReturns \/ ReadEventfd \/ EventsDone \/ RunCompletion \/ DrainDone
    BY <2>3 DEF WaitReturns, ReadEventfd, EventsDone, RunCompletion, DrainDone
  <2>4. CASE Stop
    BY <2>4 DEF Stop
  <2>5. CASE NotifyAll
    BY <2>5 DEF NotifyAll
  <2>6. CASE Join
    BY <2>6 DEF Join
  <2>7. ASSUME NEW w \in Workers, Take(w) PROVE ExitInv'
    BY <2>7 DEF Take
  <2>8. ASSUME NEW w \in Workers, Sleep(w) \/ Exit(w) \/ SpuriousWakeup(w) PROVE ExitInv'
    BY <2>8 DEF Sleep, Exit, SpuriousWakeup
  <2>9. ASSUME NEW w \in Workers, NEW last \in BOOLEAN, Post(w, last) PROVE ExitInv'
    BY <2>9 DEF Post, NeedsWakeup
  <2>10. ASSUME NEW w \in Workers, WakeReactor(w) PROVE ExitInv'
    BY <2>10 DEF WakeReactor
  <2>11. CASE UNCHANGED vars
    BY <2>11 DEF vars
  <2> QED
    BY <2>1, <2>2, <2>3, <2>4, <2>5, <2>6, <2>7, <2>8, <2>9, <2>10, <2>11
       DEF Next, Main, Worker, Emit, Finish, Done
<1> QED
  BY <1>1, <1>2, TypeCorrect, PTL DEF FairSpec, Spec

(* What has been posted stays posted: appending to completions_ and moving *)
(* its head to the reactor keep every post in the trace.                   *)
LEMMA TraceAppend ==
  ASSUME NEW S, NEW d \in Seq(S), NEW c \in Seq(S), NEW x \in S
  PROVE  /\ \A i \in 1..Len(d \o c) : (d \o Append(c, x))[i] = (d \o c)[i]
         /\ Len(d \o Append(c, x)) = Len(d \o c) + 1
         /\ (d \o Append(c, x))[Len(d \o c) + 1] = x
  OBVIOUS

LEMMA TraceShift ==
  ASSUME NEW S, NEW d \in Seq(S), NEW c \in Seq(S), c # <<>>
  PROVE  Append(d, Head(c)) \o Tail(c) = d \o c
<1>1. Head(c) \in S /\ Tail(c) \in Seq(S) /\ Len(c) \in Nat /\ Len(c) > 0
  OBVIOUS
<1> DEFINE l == Append(d, Head(c)) \o Tail(c)
           r == d \o c
<1>2. l \in Seq(S) /\ r \in Seq(S)
  BY <1>1
<1>3. Len(l) = Len(r)
  BY <1>1
<1>4. \A i \in 1..Len(l) : l[i] = r[i]
  BY <1>1
<1> QED
  BY <1>2, <1>3, <1>4, SeqEqual

(* stop() joins workers that drained the queue: every task accepted before *)
(* it has run and posted its callback.                                     *)
THEOREM StopDrainsQueue == FairSpec => []StopDrains
<1>1. Init => Accounted
  BY DEF Init, Accounted
<1>2. TypeOK /\ ExitInv /\ Accounted /\ [Next]_vars => Accounted'
  <2> SUFFICES ASSUME TypeOK, ExitInv, Accounted, [Next]_vars,
                      NEW t \in submitted'
               PROVE  Queued(t)' \/ (\E w \in Workers : wtask'[w] = t) \/ Finished(t)'
    BY DEF Accounted
  <2> USE DEF TypeOK, Turn, poolVars, workVars, mainVars
  <2>a. t \in submitted => Queued(t) \/ (\E w \in Workers : wtask[w] = t) \/ Finished(t)
    BY DEF Accounted
  <2>1. ASSUME NEW u \in Tasks, Enqueue(u)
        PROVE  Queued(t)' \/ (\E w \in Workers : wtask'[w] = t) \/ Finished(t)'
    <3>1. tasks' = Append(tasks, u) /\ wtask' = wtask /\ (Finished(t)' <=> Finished(t))
      BY <2>1 DEF Enqueue, Finished, Trace
    <3>2. CASE t = u
      <4>1. Len(tasks) + 1 \in 1..Len(tasks') /\ tasks'[Len(tasks) + 1] = u
        BY <3>1
      <4> QED
        BY <4>1, <3>2 DEF Queued
    <3>3. CASE t # u
      <4>1. t \in submitted
        BY <2>1, <3>3 DEF Enqueue
      <4>2. Queued(t) => Queued(t)'
        BY <3>1 DEF Queued
      <4> QED
        BY <4>1, <4>2, <3>1, <2>a
    <3> QED
      BY <3>2, <3>3
  <2>2. CASE \/ NotifyOne \/ WaitReturns \/ ReadEventfd \/ EventsDone \/ DrainDone
             \/ Stop \/ NotifyAll \/ Join \/ UNCHANGED vars
             \/ \E w \in Workers : Sleep(w) \/ Exit(w) \/ WakeReactor(w) \/ SpuriousWakeup(w)
    <3>1. /\ submitted' = submitted /\ tasks' = tasks /\ wtask' = wtask
          /\ completions' = completions /\ delivered' = delivered
      BY <2>2 DEF NotifyOne, WaitReturns, ReadEventfd, EventsDone, DrainDone, Stop,
                  NotifyAll, Join, vars, Sleep, Exit, WakeReactor, SpuriousWakeup
    <3> QED
      BY <3>1, <2>a DEF Queued, Finished, Trace
  <2>3. CASE RunCompletion
    <3>1. Trace' = Trace
      BY <2>3, TraceShift DEF RunCompletion, Trace
    <3>2. submitted' = submitted /\ tasks' = tasks /\ wtask' = wtask
      BY <2>3 DEF RunCompletion
    <3> QED
      BY <3>1, <3>2, <2>a DEF Queued, Finished
  <2>4. ASSUME NEW w \in Workers, Take(w)
        PROVE  Queued(t)' \/ (\E v \in Workers : wtask'[v] = t) \/ Finished(t)'
    <3>1. /\ submitted' = submitted /\ tasks # <<>> /\ tasks' = Tail(tasks)
          /\ wtask[w] = NoTask /\ wtask' = [wtask EXCEPT ![w] = Head(tasks)]
          /\ Finished(t)' <=> Finished(t)
      BY <2>4 DEF Take, Finished, Trace, ExitInv
    <3>2. CASE Queued(t)
      <4>1. PICK i \in 1..Len(tasks) : tasks[i] = t
        BY <3>2 DEF Queued
      <4>2. CASE i = 1
        BY <4>1, <4>2, <3>1
      <4>3. CASE i # 1
        <5>1. i - 1 \in 1..Len(tasks') /\ tasks'[i - 1] = t
          BY <4>1, <4>3, <3>1
        <5> QED
          BY <5>1 DEF Queued
      <4> QED
        BY <4>2, <4>3
    <3>3. ASSUME NEW v \in Workers, wtask[v] = t PROVE wtask'[v] = t
      <4>1. t # NoTask
        BY <3>1, PoolAssumption
      <4> QED
        BY <4>1, <3>1, <3>3
    <3> QED
      BY <3>1, <3>2, <3>3, <2>a
  <2>5. ASSUME NEW w \in Workers, NEW last \in BOOLEAN, wtask[w] # NoTask, Post(w, last)
        PROVE  Queued(t)' \/ (\E v \in Workers : wtask'[v] = t) \/ Finished(t)'
    <3> DEFINE p == [task |-> wtask[w], n |-> posted[wtask[w]] + 1, last |-> last]
    <3>1. /\ submitted' = submitted /\ tasks' = tasks /\ delivered' = delivered
          /\ completions' = Append(completions, p)
          /\ wtask' = IF last THEN [wtask EXCEPT ![w] = NoTask] ELSE wtask
      BY <2>5 DEF Post
    <3>2. p \in Posts /\ p.task = wtask[w] /\ p.last = last
      BY <2>5 DEF Posts
    <3> HIDE DEF p
    <3>3. /\ \A i \in 1..Len(Trace) : Trace'[i] = Trace[i]
          /\ Len(Trace') = Len(Trace) + 1 /\ Trace'[Len(Trace) + 1] = p
          /\ Len(Trace) \in Nat
      BY <3>1, <3>2, TraceAppend DEF Trace
    <3>4. Finished(t) => Finished(t)'
      BY <3>3 DEF Finished
    <3>5. CASE wtask[w] = t /\ last
      <4>1. Len(Trace) + 1 \in 1..Len(Trace')
        BY <3>3
      <4> QED
        BY <4>1, <3>2, <3>3, <3>5 DEF Finished
    <3>6. CASE ~(wtask[w] = t /\ last)
      <4>1. \A v \in Workers : wtask[v] = t => wtask'[v] = t
        BY <3>1, <3>6
      <4> QED
        BY <4>1, <3>1, <3>4, <2>a DEF Queued
    <3> QED
      BY <3>5, <3>6
  <2> QED
    BY <2>1, <2>2, <2>3, <2>4, <2>5 DEF Next, Main, Worker, Emit, Finish, Done
<1>3. TypeOK /\ ExitInv /\ Accounted => StopDrains
  <2> SUFFICES ASSUME TypeOK, ExitInv, Accounted, main = "joined"
               PROVE  tasks = <<>> /\ \A t \in submitted : Finished(t)
    BY DEF StopDrains
  <2>1. \A w \in Workers : wpc[w] = "exited" /\ wtask[w] = NoTask
    BY DEF ExitInv
  <2>2. tasks = <<>>
    BY <2>1, PoolAssumption DEF ExitInv
  <2>3. \A t \in submitted : t # NoTask /\ ~Queued(t)
    BY <2>2, PoolAssumption DEF TypeOK, Queued
  <2> QED
    BY <2>1, <2>2, <2>3 DEF Accounted
<1> QED
  BY <1>1, <1>2, <1>3, TypeCorrect, ExitIsFinal, PTL DEF FairSpec, Spec

(***************************************************************************)
(* The order of the posts: a task is in the queue or with one worker or    *)
(* through, never in two of these places, and numbers what it posts from   *)
(* its own counter, which nobody else moves.                               *)
(***************************************************************************)
OnceInv ==
  /\ \A i \in 1..Len(tasks) : tasks[i] \in submitted
  /\ \A i, j \in 1..Len(tasks) : tasks[i] = tasks[j] => i = j
  /\ \A w \in Workers : wtask[w] # NoTask => wtask[w] \in submitted /\ ~Queued(wtask[w])
  /\ \A v, w \in Workers : wtask[v] = wtask[w] /\ wtask[v] # NoTask => v = w
  /\ \A i \in 1..Len(Trace) : Trace[i].task \in submitted

LEMMA OnceEnqueue ==
  ASSUME TypeOK, OnceInv, PostsInOrder, NEW u \in Tasks, Enqueue(u)
  PROVE  OnceInv' /\ PostsInOrder'
<1>1. /\ tasks' = Append(tasks, u) /\ submitted' = submitted \cup {u} /\ u \notin submitted
      /\ wtask' = wtask /\ posted' = posted /\ Trace' = Trace /\ tasks \in Seq(Tasks)
  BY DEF Enqueue, workVars, Trace, TypeOK
<1>2. /\ Len(tasks) \in Nat /\ Len(tasks') = Len(tasks) + 1 /\ tasks'[Len(tasks) + 1] = u
      /\ \A i \in 1..Len(tasks) : tasks'[i] = tasks[i]
  BY <1>1
<1>3. \A i \in 1..Len(tasks') : i \in 1..Len(tasks) \/ i = Len(tasks) + 1
  BY <1>2
<1>4. \A t \in submitted : Queued(t)' => Queued(t)
  BY <1>1, <1>2, <1>3 DEF Queued
<1>5. OnceInv'
  <2>1. \A i \in 1..Len(tasks') : tasks'[i] \in submitted'
    BY <1>1, <1>2, <1>3 DEF OnceInv
  <2>2. \A i, j \in 1..Len(tasks') : tasks'[i] = tasks'[j] => i = j
    BY <1>1, <1>2, <1>3 DEF OnceInv
  <2>3. ASSUME NEW w \in Workers, wtask'[w] # NoTask PROVE wtask'[w] \in submitted' /\ ~Queued(wtask[w])'
    <3>1. PICK t \in submitted : t = wtask[w] /\ ~Queued(t)
      BY <1>1, <2>3 DEF OnceInv
    <3>2. ~\E i \in 1..Len(tasks') : tasks'[i] = t
      BY <1>4, <3>1 DEF Queued
    <3> QED
      BY <1>1, <3>1, <3>2 DEF Queued
  <2>4. /\ \A v, w \in Workers : wtask'[v] = wtask'[w] /\ wtask'[v] # NoTask => v = w
        /\ \A i \in 1..Len(Trace') : Trace'[i].task \in submitted'
    BY <1>1 DEF OnceInv
  <2> QED
    BY <1>1, <2>1, <2>2, <2>3, <2>4 DEF OnceInv
<1>6. PostsInOrder'
  <2>1. SUFFICES ASSUME NEW t \in Tasks, NEW i \in Of(t), Trace[i].last PROVE ~Queued(t)'
    BY <1>1 DEF PostsInOrder, Of, Running
  <2>2. t \in submitted /\ ~Queued(t)
    BY <2>1 DEF OnceInv, PostsInOrder, Of
  <2> QED
    BY <1>4, <2>2
<1> QED
  BY <1>5, <1>6

LEMMA OnceTake ==
  ASSUME TypeOK, ExitInv, OnceInv, PostsInOrder, NEW w \in Workers, Take(w)
  PROVE  OnceInv' /\ PostsInOrder'
<1>1. /\ tasks # <<>> /\ tasks' = Tail(tasks) /\ submitted' = submitted /\ posted' = posted
      /\ wtask' = [wtask EXCEPT ![w] = Head(tasks)] /\ wtask \in [Workers -> Tasks \cup {NoTask}]
      /\ Trace' = Trace /\ tasks \in Seq(Tasks) /\ wtask[w] = NoTask
  BY DEF Take, Trace, TypeOK, ExitInv, mainVars
<1>2. PICK u \in Tasks : u = Head(tasks) /\ u # NoTask
  BY <1>1, PoolAssumption
<1>3. /\ Len(tasks) \in Nat /\ Len(tasks) > 0 /\ Len(tasks') = Len(tasks) - 1 /\ tasks[1] = u
      /\ \A i \in 1..Len(tasks') : i + 1 \in 1..Len(tasks) /\ tasks'[i] = tasks[i + 1]
  <2>1. Len(tasks) \in Nat /\ Len(tasks) > 0 /\ tasks[1] = u /\ Len(tasks') = Len(tasks) - 1
    BY <1>1, <1>2
  <2>2. \A i \in 1..Len(tasks') : tasks'[i] = tasks[i + 1]
    BY <1>1, HeadTailProperties
  <2> QED
    BY <2>1, <2>2
<1>4. Queued(u) /\ u \in submitted
  <2>1. 1 \in 1..Len(tasks)
    BY <1>3
  <2> QED
    BY <1>3, <2>1 DEF Queued, OnceInv
<1>5. \A i \in 1..Len(tasks') : tasks'[i] # u
  <2>1. SUFFICES ASSUME NEW i \in 1..Len(tasks'), tasks'[i] = u PROVE FALSE
    OBVIOUS
  <2>2. tasks[i + 1] = tasks[1] /\ i + 1 \in 1..Len(tasks) /\ 1 \in 1..Len(tasks)
    BY <1>3, <2>1
  <2>3. i + 1 = 1
    BY <2>2 DEF OnceInv
  <2> QED
    BY <1>3, <2>1, <2>3
<1>6. ~Queued(u)' /\ \A t : Queued(t)' => Queued(t)
  BY <1>3, <1>5 DEF Queued
<1>7. \A v \in Workers : wtask[v] # u
  BY <1>2, <1>4 DEF OnceInv
<1>8. wtask'[w] = u /\ \A v \in Workers : v # w => wtask'[v] = wtask[v]
  BY <1>1, <1>2
<1>9. OnceInv'
  <2>1. \A i \in 1..Len(tasks') : tasks'[i] \in submitted'
    BY <1>1, <1>3 DEF OnceInv
  <2>2. ASSUME NEW i \in 1..Len(tasks'), NEW j \in 1..Len(tasks'), tasks'[i] = tasks'[j] PROVE i = j
    <3>1. tasks[i + 1] = tasks[j + 1] /\ i + 1 \in 1..Len(tasks) /\ j + 1 \in 1..Len(tasks)
      BY <1>3, <2>2
    <3>2. PICK x \in 1..Len(tasks), y \in 1..Len(tasks) : x = i + 1 /\ y = j + 1 /\ tasks[x] = tasks[y]
      BY <3>1
    <3>3. x = y
      BY <3>2 DEF OnceInv
    <3> QED
      BY <3>2, <3>3
  <2>3. ASSUME NEW v \in Workers, wtask'[v] # NoTask
        PROVE  wtask'[v] \in submitted' /\ ~\E i \in 1..Len(tasks') : tasks'[i] = wtask'[v]
    <3>1. CASE v = w
      BY <1>1, <1>4, <1>5, <1>8, <3>1
    <3>2. CASE v # w
      <4>1. PICK t : t = wtask[v] /\ t = wtask'[v]
        BY <1>8, <3>2
      <4>a. wtask[v] # NoTask
        BY <2>3, <4>1
      <4>b. wtask[v] \in submitted /\ ~Queued(wtask[v])
        BY <4>a DEF OnceInv
      <4>2. t \in submitted /\ ~Queued(t)
        BY <4>1, <4>b
      <4>3. ~Queued(t)'
        BY <1>6, <4>2
      <4> QED
        BY <1>1, <4>1, <4>2, <4>3 DEF Queued
    <3> QED
      BY <3>1, <3>2
  <2>4. \A v, x \in Workers : wtask'[v] = wtask'[x] /\ wtask'[v] # NoTask => v = x
    BY <1>7, <1>8 DEF OnceInv
  <2>5. \A i \in 1..Len(Trace') : Trace'[i].task \in submitted'
    BY <1>1 DEF OnceInv
  <2> QED
    BY <2>1, <2>2, <2>3, <2>4, <2>5 DEF OnceInv, Queued
<1>10. PostsInOrder'
  <2>1. SUFFICES ASSUME NEW t \in Tasks
                 PROVE  /\ \A v, x \in Running(t)' : v = x
                        /\ \A i \in Of(t) : Trace[i].last => Running(t)' = {} /\ ~Queued(t)'
    BY <1>1 DEF PostsInOrder, Of
  <2>2. t # NoTask
    BY PoolAssumption
  <2>3. \A v, x \in Running(t)' : v = x
    BY <1>9, <2>2 DEF OnceInv, Running
  <2>4. ASSUME NEW i \in Of(t), Trace[i].last PROVE Running(t)' = {} /\ ~Queued(t)'
    <3>1. Running(t) = {} /\ ~Queued(t)
      BY <2>4 DEF PostsInOrder
    <3>2. t # u
      BY <1>4, <3>1
    <3>3. Running(t)' = {}
      BY <1>8, <3>1, <3>2 DEF Running
    <3> QED
      BY <1>6, <3>1, <3>3
  <2> QED
    BY <2>3, <2>4
<1> QED
  BY <1>9, <1>10

LEMMA OncePost ==
  ASSUME TypeOK, OnceInv, PostsInOrder, NEW w \in Workers, NEW last \in BOOLEAN,
         wtask[w] # NoTask, Post(w, last)
  PROVE  OnceInv' /\ PostsInOrder'
<1>1. PICK u \in Tasks : u = wtask[w] /\ u # NoTask
  BY DEF TypeOK
<1> DEFINE p == [task |-> u, n |-> posted[u] + 1, last |-> last]
<1>2. /\ submitted' = submitted /\ tasks' = tasks /\ delivered' = delivered
      /\ completions' = Append(completions, p) /\ posted' = [posted EXCEPT ![u] = @ + 1]
      /\ wtask' = (IF last THEN [wtask EXCEPT ![w] = NoTask] ELSE wtask)
      /\ wtask \in [Workers -> Tasks \cup {NoTask}] /\ posted \in [Tasks -> Nat]
  BY <1>1 DEF Post, poolVars, mainVars, TypeOK
<1>3. p \in Posts /\ p.task = u /\ p.last = last /\ p.n = posted[u] + 1
  BY <1>1, <1>2 DEF Posts
<1> HIDE DEF p
<1>4. PICK m \in Nat : m = Len(Trace)
  <2>1. delivered \o completions \in Seq(Posts)
    BY ConcatProperties DEF TypeOK
  <2> QED
    BY <2>1, LenProperties DEF Trace
<1>5. /\ \A i \in 1..m : Trace'[i] = Trace[i]
      /\ Len(Trace') = m + 1 /\ Trace'[m + 1] = p
  <2>1. delivered \in Seq(Posts) /\ completions \in Seq(Posts)
    BY DEF TypeOK
  <2>2. Trace = delivered \o completions /\ Trace' = delivered \o Append(completions, p)
    BY <1>2 DEF Trace
  <2>3. PICK d, c \in Seq(Posts) : d = delivered /\ c = completions
    BY <2>1
  <2> QED
    BY <1>3, <1>4, <2>2, <2>3, TraceAppend
<1>6. \A i \in 1..m + 1 : i \in 1..m \/ i = m + 1
  OBVIOUS
<1>7. m + 1 \in 1..m + 1 /\ m + 1 \notin 1..m /\ \A i \in 1..m : i \in 1..m + 1 /\ i < m + 1
  OBVIOUS
<1>8. Of(u)' = Of(u) \cup {m + 1} /\ \A t : t # u => Of(t)' = Of(t)
  BY <1>3, <1>4, <1>5, <1>6, <1>7 DEF Of
<1>9. \A t \in Tasks : Of(t) \subseteq 1..m
  BY <1>4 DEF Of
<1>10. \A v \in Workers : wtask'[v] = wtask[v] \/ (v = w /\ last /\ wtask'[v] = NoTask)
  BY <1>2
<1>11. OnceInv'
  <2>1. \A i \in 1..Len(Trace') : Trace'[i].task \in submitted'
    <3>1. \A i \in 1..m : Trace[i].task \in submitted
      BY <1>4 DEF OnceInv
    <3>2. u \in submitted
      BY <1>1 DEF OnceInv
    <3> QED
      BY <1>2, <1>3, <1>5, <1>6, <3>1, <3>2
  <2>2. ASSUME NEW v \in Workers, wtask'[v] # NoTask
        PROVE  wtask'[v] \in submitted' /\ ~\E i \in 1..Len(tasks') : tasks'[i] = wtask'[v]
    BY <1>2, <1>10, <2>2 DEF OnceInv, Queued
  <2>3. \A v, x \in Workers : wtask'[v] = wtask'[x] /\ wtask'[v] # NoTask => v = x
    BY <1>10 DEF OnceInv
  <2> QED
    BY <1>2, <2>1, <2>2, <2>3 DEF OnceInv, Queued
<1>12. ASSUME NEW t \in Tasks
       PROVE  /\ \A v, x \in Running(t)' : v = x
              /\ {Trace'[i].n : i \in Of(t)'} = 1..posted'[t]
              /\ \A i, j \in Of(t)' : i < j => Trace'[i].n < Trace'[j].n
              /\ \A i \in Of(t)' : Trace'[i].last =>
                   Trace'[i].n = posted'[t] /\ Running(t)' = {} /\ ~Queued(t)'
  <2>1. \A v, x \in Running(t)' : v = x
    <3>1. t # NoTask
      BY PoolAssumption
    <3> QED
      BY <1>11, <3>1 DEF OnceInv, Running
  <2>2. /\ {Trace[i].n : i \in Of(t)} = 1..posted[t]
        /\ \A i, j \in Of(t) : i < j => Trace[i].n < Trace[j].n
        /\ \A i \in Of(t) : Trace[i].last => Trace[i].n = posted[t] /\ Running(t) = {} /\ ~Queued(t)
    BY DEF PostsInOrder
  <2>3. \A i \in Of(t) : i \in 1..m /\ Trace'[i] = Trace[i]
    BY <1>5, <1>9
  <2>4. Running(t)' \subseteq Running(t) /\ (Queued(t)' => Queued(t))
    <3>1. t # NoTask
      BY PoolAssumption
    <3> QED
      BY <1>2, <1>10, <3>1 DEF Running, Queued
  <2>5. CASE t # u
    <3>1. Of(t)' = Of(t) /\ posted'[t] = posted[t]
      BY <1>2, <1>8, <2>5
    <3>2. {Trace'[i].n : i \in Of(t)} = {Trace[i].n : i \in Of(t)}
      BY <2>3
    <3> QED
      BY <2>1, <2>2, <2>3, <2>4, <3>1, <3>2
  <2>6. CASE t = u
    <3>1. posted'[t] = posted[t] + 1 /\ posted[t] \in Nat
      BY <1>2, <2>6
    <3>2. \A i \in Of(t)' : i \in Of(t) \/ i = m + 1
      BY <1>8, <2>6
    <3>3. m + 1 \in Of(t)' /\ Of(t) \subseteq Of(t)' /\ Trace'[m + 1].n = posted[t] + 1
      BY <1>3, <1>5, <1>8, <2>6
    <3>4. \A i \in Of(t) : Trace[i].n \in 1..posted[t]
      BY <2>2
    <3>5. {Trace'[i].n : i \in Of(t)'} = 1..posted'[t]
      <4>1. ASSUME NEW i \in Of(t)' PROVE Trace'[i].n \in 1..posted'[t]
        <5>1. CASE i = m + 1
          BY <3>1, <3>3, <5>1
        <5>2. CASE i \in Of(t)
          <6>1. Trace'[i].n \in 1..posted[t]
            BY <2>3, <3>4, <5>2
          <6> QED
            BY <3>1, <6>1
        <5> QED
          BY <3>2, <5>1, <5>2
      <4>2. ASSUME NEW k \in 1..posted'[t] PROVE \E i \in Of(t)' : Trace'[i].n = k
        <5>1. CASE k = posted[t] + 1
          BY <3>3, <5>1
        <5>2. CASE k # posted[t] + 1
          <6>1. k \in 1..posted[t]
            BY <3>1, <4>2, <5>2
          <6>2. PICK i \in Of(t) : Trace[i].n = k
            BY <2>2, <6>1
          <6> QED
            BY <2>3, <3>3, <6>2
        <5> QED
          BY <5>1, <5>2
      <4> QED
        BY <4>1, <4>2
    <3>6. ASSUME NEW i \in Of(t)', NEW j \in Of(t)', i < j PROVE Trace'[i].n < Trace'[j].n
      <4>1. i # m + 1 \/ j \notin Of(t)
        BY <2>3, <3>6
      <4>2. CASE j \in Of(t)
        BY <2>2, <2>3, <3>2, <3>6, <4>1, <4>2
      <4>3. CASE j = m + 1
        <5>1. i \in Of(t)
          BY <3>2, <3>6, <4>3
        <5>2. Trace'[i].n \in 1..posted[t]
          BY <2>3, <3>4, <5>1
        <5> QED
          BY <3>1, <3>3, <4>3, <5>2
      <4> QED
        BY <3>2, <4>2, <4>3
    <3>7. \A i \in Of(t) : ~Trace[i].last
      <4>1. w \in Running(t)
        BY <1>1, <2>6 DEF Running
      <4> QED
        BY <2>2, <4>1
    <3>8. last => Running(t)' = {}
      <4>1. SUFFICES ASSUME last, NEW v \in Running(t)' PROVE FALSE
        OBVIOUS
      <4>2. v \in Workers /\ wtask'[v] = u
        BY <2>6, <4>1 DEF Running
      <4>3. v # w
        BY <1>1, <1>2, <4>1, <4>2
      <4>4. wtask[v] = u
        BY <1>1, <1>10, <4>2, <4>3
      <4> QED
        BY <1>1, <4>2, <4>3, <4>4 DEF OnceInv
    <3>9. ~Queued(t)'
      <4>1. ~Queued(t)
        BY <1>1, <2>6 DEF OnceInv
      <4> QED
        BY <2>4, <4>1
    <3>10. ASSUME NEW i \in Of(t)', Trace'[i].last PROVE Trace'[i].n = posted'[t] /\ Running(t)' = {} /\ ~Queued(t)'
      <4>1. i = m + 1
        BY <2>3, <3>2, <3>7, <3>10
      <4>2. last
        BY <1>3, <1>5, <3>10, <4>1
      <4> QED
        BY <3>1, <3>3, <3>8, <3>9, <4>1, <4>2
    <3> QED
      BY <2>1, <3>5, <3>6, <3>10
  <2> QED
    BY <2>5, <2>6
<1>13. PostsInOrder'
  BY <1>12 DEF PostsInOrder
<1> QED
  BY <1>11, <1>13

(* Whichever workers take the tasks and however their posts interleave in  *)
(* completions_: each task runs once, its posts come in the order it made  *)
(* them, and the callback that enqueue_with_callback wraps around it last. *)
THEOREM PostsAlwaysInOrder == FairSpec => []PostsInOrder
<1>1. Init => OnceInv /\ PostsInOrder
  <2>1. SUFFICES ASSUME Init PROVE OnceInv /\ PostsInOrder
    OBVIOUS
  <2>2. /\ Trace = <<>> /\ tasks = <<>> /\ Len(<<>>) = 0
        /\ (\A w \in Workers : wtask[w] = NoTask) /\ \A t \in Tasks : posted[t] = 0
    BY <2>1, EmptySeq, ConcatEmptySeq DEF Init, Trace
  <2>3. OnceInv
    BY <2>2 DEF OnceInv
  <2>4. \A t \in Tasks : t # NoTask /\ Of(t) = {} /\ Running(t) = {}
    BY <2>2, PoolAssumption DEF Of, Running
  <2> QED
    BY <2>2, <2>3, <2>4 DEF PostsInOrder
<1>2. TypeOK /\ ExitInv /\ OnceInv /\ PostsInOrder /\ [Next]_vars => OnceInv' /\ PostsInOrder'
  <2> SUFFICES ASSUME TypeOK, ExitInv, OnceInv, PostsInOrder, [Next]_vars PROVE OnceInv' /\ PostsInOrder'
    OBVIOUS
  <2>1. ASSUME UNCHANGED <<tasks, submitted, wtask, posted>>, Trace' = Trace
        PROVE  OnceInv' /\ PostsInOrder'
    BY <2>1 DEF OnceInv, PostsInOrder, Of, Running, Queued
  <2>2. CASE \/ NotifyOne \/ WaitReturns \/ ReadEventfd \/ EventsDone \/ DrainDone
             \/ Stop \/ NotifyAll \/ Join \/ UNCHANGED vars
             \/ \E w \in Workers : Sleep(w) \/ Exit(w) \/ WakeReactor(w) \/ SpuriousWakeup(w)
    BY <2>1, <2>2 DEF NotifyOne, WaitReturns, ReadEventfd, EventsDone, DrainDone, Stop,
                  NotifyAll, Join, vars, Sleep, Exit, WakeReactor, SpuriousWakeup,
                  poolVars, workVars, mainVars, Trace
  <2>3. CASE RunCompletion
    <3>1. Trace' = Trace
      BY <2>3, TraceShift DEF RunCompletion, Trace, TypeOK
    <3> QED
      BY <2>1, <2>3, <3>1 DEF RunCompletion, poolVars, workVars
  <2> QED
    BY <2>2, <2>3, OnceEnqueue, OnceTake, OncePost DEF Next, Main, Worker, Emit, Finish, Done
<1> QED
  BY <1>1, <1>2, TypeCorrect, ExitIsFinal, PTL DEF FairSpec, Spec
=============================================================================

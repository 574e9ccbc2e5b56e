------------------------ MODULE ServerProcess_proofs ------------------------
(* The server uses the thread pool as its specification says, no worker is   *)
(* at work when it has stopped, and a broadcast reaches a client at most     *)
(* once and late only by a worker's doing: for any number of workers,        *)
(* connections, shards and broadcasts.                                       *)
EXTENDS ServerProcess, SequenceTheorems, TLAPS

-----------------------------------------------------------------------------
(* The pool by itself: no task is lost or run twice.                         *)

(* A worker has a task exactly while it runs it: without this a worker that  *)
(* takes a task could drop another, and one that ends could end none.        *)
TaskInHand == \A w \in Worker : task[w] # 0 <=> pc[w] = "run"

OnceInv == EachTaskOnce /\ TaskInHand

(* The tasks in a queue.                                                     *)
TasksIn(q) == {i \in Task : \E j \in 1..Len(q) : q[j] = i}

(* Taking the first task of a queue leaves the others, each as often as it   *)
(* was there.                                                                *)
LEMMA HeadTaken ==
    ASSUME NEW q \in Seq(Task), q # <<>>, IsInjective(q)
    PROVE  /\ Tail(q) \in Seq(Task) /\ IsInjective(Tail(q))
           /\ Head(q) \in TasksIn(q)
           /\ TasksIn(Tail(q)) = TasksIn(q) \ {Head(q)}
<1>1. /\ Len(q) \in Nat /\ Len(q) >= 1 /\ Head(q) = q[1] /\ q[1] \in Task
      /\ Tail(q) \in Seq(Task) /\ Len(Tail(q)) = Len(q) - 1
      /\ DOMAIN q = 1..Len(q) /\ DOMAIN Tail(q) = 1..Len(Tail(q))
      /\ \A j \in 1..Len(Tail(q)) : Tail(q)[j] = q[j + 1]
  OBVIOUS
<1>2. \A a, b \in 1..Len(q) : q[a] = q[b] => a = b
  BY <1>1 DEF IsInjective
<1>3. IsInjective(Tail(q))
  BY <1>1, <1>2 DEF IsInjective
<1>4. Head(q) \in TasksIn(q)
  BY <1>1 DEF TasksIn
<1>5. ASSUME NEW i \in Task
      PROVE  i \in TasksIn(Tail(q)) <=> i \in TasksIn(q) /\ i # Head(q)
  <2>1. ASSUME NEW j \in 1..Len(Tail(q)), Tail(q)[j] = i
        PROVE  j + 1 \in 1..Len(q) /\ q[j + 1] = i /\ i # q[1]
    BY <1>1, <1>2, <2>1
  <2>2. ASSUME NEW j \in 1..Len(q), q[j] = i, i # q[1]
        PROVE  j - 1 \in 1..Len(Tail(q)) /\ Tail(q)[j - 1] = i
    BY <1>1, <2>2
  <2> QED
    BY <1>1, <2>1, <2>2 DEF TasksIn
<1> QED
  BY <1>1, <1>3, <1>4, <1>5 DEF TasksIn

(* The k tasks that come after p.                                            *)
NextTasks(new, p, k) == new \in Seq(Task) /\ Len(new) = k /\ \A i \in 1..k : new[i] = p + i

(* Appending the next k tasks to a queue of earlier ones adds those.         *)
LEMMA AppendNew ==
    ASSUME NEW q \in Seq(Task), IsInjective(q), NEW p \in Nat, NEW k \in Nat, p + k <= MaxTasks,
           TasksIn(q) \subseteq 1..p, MaxTasks \in Nat,
           NEW new, NextTasks(new, p, k)
    PROVE  /\ q \o new \in Seq(Task) /\ IsInjective(q \o new)
           /\ TasksIn(q \o new) = TasksIn(q) \cup (p + 1..p + k)
<1> DEFINE r == q \o new
<1>1. /\ Len(q) \in Nat /\ DOMAIN q = 1..Len(q)
      /\ new \in Seq(Task) /\ Len(new) = k /\ \A i \in 1..k : new[i] = p + i
  BY DEF NextTasks
<1>2. /\ r \in Seq(Task) /\ Len(r) = Len(q) + k /\ DOMAIN r = 1..Len(r)
      /\ \A j \in 1..Len(q) : r[j] = q[j]
      /\ \A j \in Len(q) + 1..Len(r) : r[j] = new[j - Len(q)]
  <2>1. r \in Seq(Task) /\ Len(r) = Len(q) + k
    BY <1>1
  <2>2. DOMAIN r = 1..Len(r)
    BY <2>1
  <2>3. \A j \in 1..Len(q) : r[j] = q[j]
    BY <1>1
  <2>4. \A j \in Len(q) + 1..Len(q) + k : r[j] = new[j - Len(q)]
    BY <1>1
  <2> QED
    BY <2>1, <2>2, <2>3, <2>4
<1> HIDE DEF r
<1>3. \A j \in 1..Len(q) : r[j] = q[j] /\ q[j] \in 1..p
  BY <1>1, <1>2 DEF TasksIn
<1>4. \A j \in Len(q) + 1..Len(r) : r[j] = p + j - Len(q)
  <2> SUFFICES ASSUME NEW j \in Len(q) + 1..Len(r)
               PROVE  r[j] = p + j - Len(q)
    OBVIOUS
  <2>1. j - Len(q) \in 1..k /\ r[j] = new[j - Len(q)]
    BY <1>1, <1>2
  <2> QED
    BY <2>1, <1>1
<1>5. IsInjective(r)
  <2> SUFFICES ASSUME NEW a \in 1..Len(r), NEW b \in 1..Len(r), r[a] = r[b]
               PROVE  a = b
    BY <1>2 DEF IsInjective
  <2>1. CASE a <= Len(q) /\ b <= Len(q)
    <3>1. a \in 1..Len(q) /\ b \in 1..Len(q) /\ q[a] = q[b]
      BY <2>1, <1>1, <1>3
    <3> QED
      BY <3>1, <1>1 DEF IsInjective
  <2>2. CASE a > Len(q) /\ b > Len(q)
    <3>1. /\ a \in Len(q) + 1..Len(r) /\ b \in Len(q) + 1..Len(r)
          /\ a \in Int /\ b \in Int
      BY <2>2, <1>1, <1>2
    <3>2. r[a] = p + a - Len(q) /\ r[b] = p + b - Len(q)
      BY <3>1, <1>4
    <3>3. p + a - Len(q) = p + b - Len(q)
      BY <3>2
    <3> QED
      BY <3>1, <3>3, <1>1
  <2>3. ASSUME NEW c \in 1..Len(r), NEW d \in 1..Len(r), c <= Len(q), d > Len(q)
        PROVE  r[c] # r[d]
    <3>1. c \in 1..Len(q) /\ d \in Len(q) + 1..Len(r) /\ d \in Int
      BY <2>3, <1>1, <1>2
    <3>2. r[c] \in 1..p /\ r[d] = p + d - Len(q)
      BY <3>1, <1>3, <1>4
    <3> QED
      BY <3>1, <3>2, <1>1
  <2> QED
    BY <1>1, <1>2, <2>1, <2>2, <2>3
<1>6. ASSUME NEW i \in Task
      PROVE  i \in TasksIn(r) <=> i \in TasksIn(q) \/ i \in p + 1..p + k
  <2>1. ASSUME NEW j \in 1..Len(r), r[j] = i
        PROVE  i \in TasksIn(q) \/ i \in p + 1..p + k
    <3>1. CASE j <= Len(q)
      BY <3>1, <2>1, <1>1, <1>2, <1>3 DEF TasksIn
    <3>2. CASE j > Len(q)
      BY <3>2, <2>1, <1>1, <1>2, <1>4
    <3> QED
      BY <3>1, <3>2, <1>1, <1>2
  <2>2. ASSUME i \in TasksIn(q)
        PROVE  i \in TasksIn(r)
    BY <2>2, <1>1, <1>2, <1>3 DEF TasksIn
  <2>3. ASSUME i \in p + 1..p + k
        PROVE  i \in TasksIn(r)
    <3> DEFINE j == i - p + Len(q)
    <3>1. j \in Len(q) + 1..Len(r) /\ j \in 1..Len(r) /\ p + j - Len(q) = i
      BY <2>3, <1>1, <1>2
    <3>2. r[j] = i
      BY <3>1, <1>4
    <3> QED
      BY <3>1, <3>2 DEF TasksIn
  <2> QED
    BY <2>1, <2>2, <2>3 DEF TasksIn
<1>7. TasksIn(q) \subseteq Task /\ TasksIn(r) \subseteq Task
  BY DEF TasksIn
<1>8. p + 1..p + k \subseteq Task
  BY DEF Task
<1>9. TasksIn(r) = TasksIn(q) \cup (p + 1..p + k)
  BY <1>6, <1>7, <1>8
<1> QED
  BY <1>2, <1>5, <1>9 DEF r

(* What the steps that leave the tasks alone keep.                           *)
LEMMA NoTaskMoves ==
    ASSUME OnceInv, TypeOK', UNCHANGED <<task_queue, task, pushed, done>>,
           \A w \in Worker : pc'[w] = "run" <=> pc[w] = "run"
    PROVE  OnceInv'
BY DEF OnceInv, EachTaskOnce, TaskInHand, Queued, Taken, IsInjective

(* The invariant holds at the start,                                         *)
LEMMA OnceInit == Init => OnceInv
<1> SUFFICES ASSUME Init
             PROVE  OnceInv
  OBVIOUS
<1>1. TypeOK
  BY ThreadPoolAssumption DEF Init, TypeOK, Task
<1>2. TaskInHand /\ IsInjective(task_queue)
  BY DEF Init, TaskInHand, IsInjective
<1>3. Queued = {} /\ Taken = {} /\ done = {} /\ 1..pushed = {}
  BY DEF Init, Queued, Taken, Task
<1>4. \A w \in Worker : task[w] = 0
  BY DEF Init
<1> QED
  BY <1>1, <1>2, <1>3, <1>4 DEF OnceInv, EachTaskOnce

(* A worker takes the task from the head of the queue.                       *)
LEMMA TakeOnce ==
    ASSUME OnceInv, NEW w \in Worker, Take(w)
    PROVE  OnceInv'
<1> USE DEF OnceInv
<1> DEFINE t == Head(task_queue)
<1>1. /\ TypeOK /\ TaskInHand /\ IsInjective(task_queue) /\ task_queue \in Seq(Task) /\ task_queue # <<>>
      /\ pc[w] = "test" /\ task[w] = 0
  BY DEF EachTaskOnce, TypeOK, Take, TaskInHand
<1>2. /\ task_queue' \in Seq(Task) /\ IsInjective(task_queue')
      /\ t \in Queued /\ Queued' = Queued \ {t}
  BY <1>1, HeadTaken DEF Take, Queued, TasksIn
<1>3. t \in Task /\ t # 0
  BY <1>2 DEF Queued, Task
<1>4. /\ task' = [task EXCEPT ![w] = t] /\ pc' = [pc EXCEPT ![w] = "run"]
      /\ UNCHANGED <<running, waiting, caller, pushed, done>> /\ mutex' = None
  BY DEF Take, Goto
<1>5. TypeOK'
  BY <1>1, <1>2, <1>3, <1>4 DEF TypeOK
<1>6. TaskInHand'
  BY <1>1, <1>3, <1>4 DEF TypeOK, TaskInHand
<1>7. Taken' = Taken \cup {t}
  BY <1>1, <1>3, <1>4 DEF TypeOK, Taken, Task
<1>8. \A v, u \in Worker : v # u /\ task'[v] = task'[u] => task'[v] = 0
  <2>1. \A v \in Worker : task[v] # t
    BY <1>2, <1>3 DEF EachTaskOnce, Taken
  <2> QED
    BY <1>1, <1>4, <2>1 DEF TypeOK, EachTaskOnce
<1>9. /\ 1..pushed' = Queued' \cup Taken' \cup done'
      /\ Queued' \cap Taken' = {} /\ Queued' \cap done' = {} /\ Taken' \cap done' = {}
  <2> HIDE DEF t
  <2> QED
    BY <1>2, <1>4, <1>7 DEF EachTaskOnce
<1> QED
  BY <1>2, <1>5, <1>6, <1>8, <1>9 DEF EachTaskOnce

(* A worker ends the task it has.                                            *)
LEMMA RunOnce ==
    ASSUME OnceInv, NEW w \in Worker, RunTask(w)
    PROVE  OnceInv'
<1> USE DEF OnceInv
<1> DEFINE t == task[w]
<1>1. TypeOK /\ TaskInHand /\ t \in Task /\ t # 0
  BY DEF EachTaskOnce, TypeOK, RunTask, TaskInHand
<1>2. /\ task' = [task EXCEPT ![w] = 0] /\ pc' = [pc EXCEPT ![w] = "loop"] /\ done' = done \cup {t}
      /\ UNCHANGED <<running, task_queue, mutex, waiting, caller, pushed>>
  BY DEF RunTask, Goto
<1>3. TypeOK'
  BY <1>1, <1>2 DEF TypeOK
<1>4. TaskInHand'
  BY <1>1, <1>2 DEF TypeOK, TaskInHand
<1>5. Taken' = Taken \ {t} /\ t \in Taken
  <2>1. \A v \in Worker : v # w => task[v] # t
    BY <1>1 DEF EachTaskOnce
  <2> QED
    BY <1>1, <1>2, <2>1 DEF TypeOK, Taken, Task
<1>6. \A v, u \in Worker : v # u /\ task'[v] = task'[u] => task'[v] = 0
  BY <1>1, <1>2 DEF TypeOK, EachTaskOnce
<1>7. Queued' = Queued /\ IsInjective(task_queue')
  BY <1>2 DEF Queued, EachTaskOnce
<1>8. /\ 1..pushed' = Queued' \cup Taken' \cup done'
      /\ Queued' \cap Taken' = {} /\ Queued' \cap done' = {} /\ Taken' \cap done' = {}
  <2> HIDE DEF t
  <2> QED
    BY <1>2, <1>5, <1>7 DEF EachTaskOnce
<1> QED
  BY <1>3, <1>4, <1>6, <1>7, <1>8 DEF EachTaskOnce

(* New tasks have numbers that no earlier one has.                           *)
LEMMA EmplaceOnce ==
    ASSUME OnceInv, NEW k \in 1..MaxTasks, Emplace(k), UNCHANGED <<running, mutex, waiting, pc, task, done>>,
           caller' \in {"notify_one", "notify_all"}
    PROVE  OnceInv'
<1> USE DEF OnceInv
<1>1. /\ TypeOK /\ TaskInHand /\ IsInjective(task_queue) /\ task_queue \in Seq(Task)
      /\ pushed \in Nat /\ k \in Nat /\ MaxTasks \in Nat /\ pushed + k <= MaxTasks
      /\ pushed' = pushed + k
  BY ThreadPoolAssumption DEF EachTaskOnce, TypeOK, Emplace
<1>2. TasksIn(task_queue) \subseteq 1..pushed
  BY DEF EachTaskOnce, Queued, TasksIn
<1>3. /\ task_queue' \in Seq(Task) /\ IsInjective(task_queue')
      /\ Queued' = Queued \cup (pushed + 1..pushed + k)
  <2> DEFINE new == [i \in 1..k |-> pushed + i]
  <2>1. task_queue' = task_queue \o new
    BY DEF Emplace
  <2>2. \A i \in 1..k : pushed + i \in Task
    BY <1>1 DEF Task
  <2>3. NextTasks(new, pushed, k)
    BY <1>1, <2>2 DEF NextTasks
  <2> HIDE DEF new
  <2>4. /\ task_queue \o new \in Seq(Task) /\ IsInjective(task_queue \o new)
        /\ TasksIn(task_queue \o new) = TasksIn(task_queue) \cup (pushed + 1..pushed + k)
    BY <1>1, <1>2, <2>3, AppendNew
  <2> QED
    BY <2>1, <2>4 DEF Queued, TasksIn
<1>4. TypeOK'
  BY <1>1, <1>3 DEF TypeOK
<1>5. TaskInHand' /\ Taken' = Taken
  BY <1>1 DEF TaskInHand, Taken
<1>6. 1..pushed' = (1..pushed) \cup (pushed + 1..pushed + k) /\ (1..pushed) \cap (pushed + 1..pushed + k) = {}
  BY <1>1
<1>7. /\ 1..pushed' = Queued' \cup Taken' \cup done'
      /\ Queued' \cap Taken' = {} /\ Queued' \cap done' = {} /\ Taken' \cap done' = {}
  BY <1>3, <1>5, <1>6 DEF EachTaskOnce
<1> QED
  BY <1>3, <1>4, <1>5, <1>7 DEF EachTaskOnce

(* and every step keeps it.                                                  *)
LEMMA OnceStep ==
    ASSUME OnceInv, [Next]_vars
    PROVE  OnceInv'
<1>1. ASSUME NEW w \in Worker, Loop(w) \/ Lock(w) \/ TestFalse(w) \/ Block(w) \/ TestExit(w) \/ Spurious(w)
      PROVE  OnceInv'
  <2>1. TypeOK'
    BY <1>1 DEF OnceInv, EachTaskOnce, TypeOK, Loop, Lock, TestFalse, Block, TestExit, Spurious, Goto
  <2>2. /\ UNCHANGED <<task_queue, task, pushed, done>>
        /\ \A v \in Worker : pc'[v] = "run" <=> pc[v] = "run"
    BY <1>1 DEF OnceInv, EachTaskOnce, TypeOK, Loop, Lock, TestFalse, Block, TestExit, Spurious, Goto
  <2> QED
    BY <2>1, <2>2, NoTaskMoves
<1>2. ASSUME NEW w \in Worker, Take(w)
      PROVE  OnceInv'
  BY <1>2, TakeOnce
<1>3. ASSUME NEW w \in Worker, RunTask(w)
      PROVE  OnceInv'
  BY <1>3, RunOnce
<1>4. CASE push_task
  <2>1. 1 \in 1..MaxTasks
    BY <1>4, ThreadPoolAssumption DEF push_task, Emplace, OnceInv, EachTaskOnce, TypeOK
  <2> QED
    BY <1>4, <2>1, EmplaceOnce DEF push_task
<1>5. ASSUME NEW k \in 1..MaxTasks, push_batch(k)
      PROVE  OnceInv'
  BY <1>5, EmplaceOnce DEF push_batch
<1>6. CASE Notify \/ ShutdownExchange \/ ShutdownNotify \/ ShutdownJoin \/ UNCHANGED vars
  <2>1. UNCHANGED <<task_queue, task, pushed, done, pc, mutex>>
    BY <1>6 DEF Notify, ShutdownExchange, ShutdownNotify, ShutdownJoin, vars
  <2>2. TypeOK'
    BY <1>6, <2>1 DEF OnceInv, EachTaskOnce, TypeOK, Notify, NotifyOne, NotifyAll, ShutdownExchange,
                      ShutdownNotify, ShutdownJoin, vars
  <2> QED
    BY <2>1, <2>2, NoTaskMoves
<1> QED
  BY <1>1, <1>2, <1>3, <1>4, <1>5, <1>6 DEF Next, WorkerStep

(* Every task that push_task or push_batch put into the queue is queued, in  *)
(* the hands of one worker, or done, and never in two of these places.       *)
THEOREM EachTaskOnceHolds == Spec => []EachTaskOnce
<1>1. OnceInv => EachTaskOnce
  BY DEF OnceInv
<1> QED
  BY <1>1, OnceInit, OnceStep, PTL DEF Spec, Safety

-----------------------------------------------------------------------------
(* The server and its pool.                                                  *)

(* Which steps of the pool a step of the server is.                          *)
LEMMA PoolSteps ==
    ASSUME TypeOK, [ServerNext]_serverVars
    PROVE  [Next]_vars
<1>1. CASE Main
  BY <1>1 DEF Main, StartLogger, setup_signalfd, StartPool, StartNet, BroadcastWake, poolVars
<1>2. CASE Net
  <2>1. CASE EpollWait \/ ReadNotify \/ ReadSignal \/ EventsDone \/ TakeQueue \/ Stop
    BY <2>1 DEF EpollWait, ReadNotify, ReadSignal, EventsDone, TakeQueue, Stop, poolVars
  <2>2. CASE PushTasks
    <3>1. push_batch(NUM_SHARDS) /\ NUM_SHARDS \in Nat \ {0} /\ MaxTasks \in Nat
      BY <2>2, ServerProcessAssumption, ThreadPoolAssumption DEF PushTasks
    <3>2. NUM_SHARDS \in 1..MaxTasks
      <4>1. pushed \in Nat /\ pushed + NUM_SHARDS <= MaxTasks
        BY <3>1, ThreadPoolAssumption DEF TypeOK, push_batch, Emplace
      <4> QED
        BY <3>1, <4>1
    <3> QED
      BY <3>1, <3>2 DEF Next
  <2>3. CASE NotifyWorkers
    BY <2>3 DEF NotifyWorkers, Next
  <2>4. CASE ShutdownPool
    BY <2>4 DEF ShutdownPool, Next
  <2> QED
    BY <1>2, <2>1, <2>2, <2>3, <2>4 DEF Net
<1>3. ASSUME NEW w \in Worker, Work(w)
      PROVE  [Next]_vars
  <2>1. CASE PoolStep(w)
    BY <2>1 DEF PoolStep, Next, WorkerStep
  <2>2. CASE FinishTask(w)
    BY <2>2 DEF FinishTask, Next, WorkerStep
  <2>3. CASE Snapshot(w) \/ \E c \in Conn : Deliver(w, c)
    BY <2>3 DEF Snapshot, Deliver, poolVars
  <2> QED
    BY <1>3, <2>1, <2>2, <2>3 DEF Work
<1>4. CASE Asked
  <2>1. CASE Signal \/ BroadcastQueue \/ \E c \in Conn : Accept(c) \/ NetClose(c) \/ WriteFails(c) \/ Close(c)
    BY <2>1 DEF Signal, BroadcastQueue, Accept, NetClose, WriteFails, Close, poolVars
  <2>2. ASSUME NEW w \in Worker, WakesUp(w)
        PROVE  [Next]_vars
    BY <2>2 DEF WakesUp, Next
  <2> QED
    BY <1>4, <2>1, <2>2 DEF Asked
<1>5. CASE UNCHANGED serverVars
  BY <1>5 DEF serverVars, poolVars
<1> QED
  BY <1>1, <1>2, <1>3, <1>4, <1>5 DEF ServerNext

(* Everything that is proved of the pool holds in the server.                *)
THEOREM UsesThePool == ServerSpec => Safety
<1>1. ServerInit => Init /\ OnceInv
  BY OnceInit DEF ServerInit
<1>2. OnceInv /\ [ServerNext]_serverVars => OnceInv' /\ [Next]_vars
  BY PoolSteps, OnceStep DEF OnceInv, EachTaskOnce
<1> QED
  BY <1>1, <1>2, PTL DEF ServerSpec, Safety

-----------------------------------------------------------------------------
(* When the joins of shutdown have returned, the workers have left           *)
(* worker_loop and never come back; Stop comes after that; and a worker that *)
(* has connections in its hands is running a task.                           *)
JoinedIsOver == caller = "joined" => \A w \in Worker : pc[w] = "exited"
StoppedIsJoined == net = "stopped" => caller = "joined"
HandsInTask == todo = [w \in Worker |-> todo[w]] /\ \A w \in Worker : todo[w] # None => pc[w] = "run"

QuietInv == OnceInv /\ JoinedIsOver /\ StoppedIsJoined /\ HandsInTask

(* The invariant implies the property,                                       *)
LEMMA QuietInvImplies == QuietInv => StoppedIsQuiet
BY DEF QuietInv, JoinedIsOver, StoppedIsJoined, HandsInTask, StoppedIsQuiet

(* holds at the start,                                                       *)
LEMMA QuietInit == ServerInit => QuietInv
BY OnceInit DEF ServerInit, Init, QuietInv, JoinedIsOver, StoppedIsJoined, HandsInTask

(* The pool's part: nobody comes back, and a joined pool stays joined.       *)
LEMMA PoolKeeps ==
    ASSUME TypeOK, JoinedIsOver, [Next]_vars
    PROVE  /\ JoinedIsOver'
           /\ caller = "joined" => caller' = "joined"
<1>1. ASSUME NEW w \in Worker, WorkerStep(w) \/ Spurious(w)
      PROVE  /\ caller' = caller
             /\ \A v \in Worker : pc[v] = "exited" => pc'[v] = "exited"
  BY <1>1 DEF TypeOK, WorkerStep, Loop, Lock, TestFalse, Block, TestExit, Take, RunTask, Spurious, Goto
<1>2. CASE push_task \/ (\E k \in 1..MaxTasks : push_batch(k)) \/ Notify \/ ShutdownExchange \/ ShutdownNotify
           \/ UNCHANGED vars
  BY <1>2 DEF JoinedIsOver, push_task, push_batch, Emplace, Notify, ShutdownExchange, ShutdownNotify, vars
<1>3. CASE ShutdownJoin
  BY <1>3 DEF JoinedIsOver, ShutdownJoin
<1> QED
  BY <1>1, <1>2, <1>3 DEF Next, JoinedIsOver

(* and is kept by every step.                                                *)
LEMMA QuietStep ==
    ASSUME QuietInv, [ServerNext]_serverVars
    PROVE  QuietInv'
<1>1. TypeOK /\ [Next]_vars /\ OnceInv'
  BY PoolSteps, OnceStep DEF QuietInv, OnceInv, EachTaskOnce
<1>2. /\ JoinedIsOver'
      /\ caller = "joined" => caller' = "joined"
  BY <1>1, PoolKeeps DEF QuietInv
<1>3. StoppedIsJoined'
  <2>1. net' = net \/ net' # "stopped" \/ Stop
    BY DEF ServerNext, Main, Net, Work, Asked, serverVars, reactorVars, StartLogger, setup_signalfd, StartPool,
           StartNet, BroadcastWake, EpollWait, ReadNotify, ReadSignal, EventsDone, EndOfArray, TakeQueue, PushTasks,
           NotifyWorkers, ShutdownPool, PoolStep, Snapshot, Deliver, FinishTask, Signal, BroadcastQueue,
           Accept, NetClose, WriteFails, Close, WakesUp
  <2> QED
    BY <1>2, <2>1 DEF QuietInv, StoppedIsJoined, Stop
<1>4. HandsInTask'
  <2>1. CASE todo' = todo /\ \A w \in Worker : pc[w] = "run" => pc'[w] = "run"
    BY <2>1 DEF QuietInv, HandsInTask
  <2>2. ASSUME NEW w \in Worker, FinishTask(w)
        PROVE  HandsInTask'
    BY <2>2 DEF QuietInv, HandsInTask, FinishTask, RunTask, Goto
  <2>3. ASSUME NEW w \in Worker, Snapshot(w) \/ \E c \in Conn : Deliver(w, c)
        PROVE  HandsInTask'
    BY <2>3 DEF QuietInv, HandsInTask, Snapshot, Deliver, poolVars, vars
  <2>4. ASSUME NEW w \in Worker, PoolStep(w)
        PROVE  todo' = todo /\ \A v \in Worker : pc[v] = "run" => pc'[v] = "run"
    BY <1>1, <2>4 DEF TypeOK, PoolStep, Loop, Lock, TestFalse, Block, TestExit, Take, Goto
  <2>5. CASE Main \/ Net \/ Asked \/ UNCHANGED serverVars
    <3>1. todo' = todo /\ pc' = pc
      BY <2>5 DEF Main, Net, Asked, serverVars, poolVars, vars, StartLogger, setup_signalfd, StartPool, StartNet,
             BroadcastWake, EpollWait, ReadNotify, ReadSignal, EventsDone, TakeQueue, PushTasks, push_batch,
             NotifyWorkers, Notify, ShutdownPool, ShutdownExchange, ShutdownNotify, ShutdownJoin, Stop,
             Signal, BroadcastQueue, Accept, NetClose, WriteFails, Close, WakesUp, Spurious
    <3> QED
      BY <2>1, <3>1
  <2> QED
    BY <2>1, <2>2, <2>3, <2>4, <2>5 DEF ServerNext, Work
<1> QED
  BY <1>1, <1>2, <1>3, <1>4 DEF QuietInv

(* When Stop clears the maps and closes the descriptors, no worker is left   *)
(* that would use them: shutdown has joined them.                            *)
THEOREM StoppedIsQuietHolds == ServerSpec => []StoppedIsQuiet
BY QuietInit, QuietStep, QuietInvImplies, PTL DEF ServerSpec

-----------------------------------------------------------------------------
(* The way of a broadcast.  First, the types.                                *)

TaskRecord == [shard: 1..NUM_SHARDS, events: Seq(Nat)]

ServerTypes ==
    /\ main \in {"start", "setup_signalfd", "pool", "run", "logic", "wake"}
    /\ {killed, asked, piped, running_, notified, pending_broadcast} \subseteq BOOLEAN
    /\ net \in {"off", "wait", "events", "queue", "push", "notify", "stop", "stopped"}
    /\ events \subseteq {"notify", "signal"}

ListTypes ==
    /\ due \in Seq(SUBSET Conn) /\ global_queue_ \in Seq(Nat) /\ batch \in Seq(Nat)
    /\ tasks \in Seq(TaskRecord) /\ Len(tasks) = pushed

FateTypes ==
    /\ todo \in [Worker -> (SUBSET Conn) \cup {None}]
    /\ \A w \in Worker : todo[w] # None =>
           /\ pc[w] = "run" /\ task[w] \in 1..Len(tasks)
           /\ \A c \in todo[w] : shard[c] = tasks[task[w]].shard
    /\ connections \subseteq Conn /\ closed \subseteq Conn /\ connections \cap closed = {}
    /\ given \in [Conn -> Seq(Nat)] /\ dropped \in [Conn -> SUBSET Nat]

(* What a step does to the lists, the maps and the tasks at work: nothing    *)
(* but what one of these does.                                               *)
Lists == <<due, global_queue_, batch, tasks>>
Fates == <<todo, connections, closed, given, dropped>>

AtWorkStays ==
    /\ done' = done
    /\ \A w \in Worker : todo[w] # None => task'[w] = task[w] /\ pc'[w] = pc[w]

Idle ==
    /\ UNCHANGED <<Lists, Fates, pushed>> /\ AtWorkStays
    /\ net' # net => {net, net'} \cap {"push", "stopped"} = {}

Closing(c) ==
    /\ CloseConn(c) /\ UNCHANGED <<Lists, todo, given, dropped, net, pushed>> /\ AtWorkStays

(* Every step of the server is one of these.                                 *)
LEMMA ServerCases ==
    ASSUME QuietInv, [ServerNext]_serverVars
    PROVE  \/ Idle \/ BroadcastQueue \/ TakeQueue \/ PushTasks \/ Stop
           \/ \E c \in Conn : Closing(c) \/ Accept(c)
           \/ \E w \in Worker : Snapshot(w) \/ FinishTask(w) \/ \E c \in Conn : Deliver(w, c)
<1> USE DEF Lists, Fates
<1>1. TypeOK /\ \A w \in Worker : todo[w] # None => pc[w] = "run"
  BY DEF QuietInv, OnceInv, EachTaskOnce, HandsInTask
<1>2. CASE Main \/ UNCHANGED serverVars
  BY <1>2 DEF Main, StartLogger, setup_signalfd, StartPool, StartNet, BroadcastWake, serverVars, poolVars, vars,
         queueVars, taskVars, connVars, fateVars, reactorVars, Idle, AtWorkStays
<1>3. CASE EpollWait \/ ReadNotify \/ ReadSignal \/ EventsDone
  BY <1>3 DEF EpollWait, ReadNotify, ReadSignal, EventsDone, EndOfArray, poolVars, vars,
         queueVars, taskVars, connVars, fateVars, reactorVars, Idle, AtWorkStays
<1>4. CASE NotifyWorkers \/ ShutdownPool
  BY <1>4 DEF NotifyWorkers, Notify, ShutdownPool, ShutdownExchange, ShutdownNotify, ShutdownJoin,
         queueVars, taskVars, connVars, fateVars, reactorVars, Idle, AtWorkStays
<1>5. CASE Signal
  BY <1>5 DEF Signal, poolVars, vars, queueVars, taskVars, connVars, fateVars, reactorVars, Idle, AtWorkStays
<1>6. ASSUME NEW c \in Conn, NetClose(c) \/ WriteFails(c) \/ Close(c)
      PROVE  Idle \/ Closing(c)
  BY <1>6 DEF NetClose, WriteFails, Close, poolVars, vars, queueVars, taskVars, connVars, fateVars, reactorVars,
         Idle, Closing, AtWorkStays
<1>7. ASSUME NEW w \in Worker, WakesUp(w)
      PROVE  Idle
  BY <1>7 DEF WakesUp, Spurious, queueVars, taskVars, connVars, fateVars, reactorVars, Idle, AtWorkStays
<1>8. ASSUME NEW w \in Worker, PoolStep(w)
      PROVE  Idle
  <2>1. UNCHANGED <<Lists, Fates, net>>
    BY <1>8 DEF PoolStep, queueVars, taskVars, connVars, fateVars, reactorVars
  <2>2. UNCHANGED <<pushed, done>> /\ pc[w] # "run"
    BY <1>8 DEF PoolStep, Loop, Lock, TestFalse, Block, TestExit, Take
  <2>3. \A v \in Worker \ {w} : task'[v] = task[v] /\ pc'[v] = pc[v]
    BY <1>1, <1>8 DEF TypeOK, PoolStep, Loop, Lock, TestFalse, Block, TestExit, Take, Goto
  <2> QED
    BY <1>1, <2>1, <2>2, <2>3 DEF Idle, AtWorkStays
<1> QED
  BY <1>2, <1>3, <1>4, <1>5, <1>6, <1>7, <1>8 DEF ServerNext, Net, Work, Asked

(* The flags and the places of the threads.                                  *)
LEMMA ServerTypesStep ==
    ASSUME ServerTypes, [ServerNext]_serverVars
    PROVE  ServerTypes'
<1>1. CASE Main \/ UNCHANGED serverVars
  BY <1>1 DEF Main, StartLogger, setup_signalfd, StartPool, StartNet, BroadcastWake, serverVars, processVars,
         queueVars, reactorVars, ServerTypes
<1>2. CASE EpollWait \/ ReadNotify \/ ReadSignal \/ EventsDone
  BY <1>2 DEF EpollWait, ReadNotify, ReadSignal, EventsDone, EndOfArray, processVars, queueVars, reactorVars,
         ServerTypes
<1>3. CASE TakeQueue \/ PushTasks \/ NotifyWorkers \/ ShutdownPool \/ Stop
  BY <1>3 DEF TakeQueue, PushTasks, NotifyWorkers, ShutdownPool, Stop, processVars, queueVars, reactorVars,
         ServerTypes
<1>4. CASE Signal \/ BroadcastQueue \/ \E c \in Conn : Accept(c) \/ NetClose(c) \/ WriteFails(c) \/ Close(c)
  BY <1>4 DEF Signal, BroadcastQueue, Accept, NetClose, WriteFails, Close, processVars, queueVars, reactorVars,
         ServerTypes
<1>5. ASSUME NEW w \in Worker, WakesUp(w) \/ Work(w)
      PROVE  ServerTypes'
  BY <1>5 DEF WakesUp, Work, PoolStep, Snapshot, Deliver, FinishTask, processVars, queueVars, reactorVars,
         ServerTypes
<1> QED
  BY <1>1, <1>2, <1>3, <1>4, <1>5 DEF ServerNext, Net, Asked

(* The elements of a concatenation.                                          *)
LEMMA ConcatFacts ==
    ASSUME NEW S, NEW p \in Seq(S), NEW q \in Seq(S)
    PROVE  /\ p \o q \in Seq(S) /\ Len(p \o q) = Len(p) + Len(q)
           /\ \A i \in 1..Len(p) : (p \o q)[i] = p[i]
           /\ \A i \in 1..Len(q) : (p \o q)[Len(p) + i] = q[i]
OBVIOUS

(* The tasks that PushTasks adds.                                            *)
LEMMA NewTasks ==
    ASSUME ListTypes, TypeOK, PushTasks
    PROVE  /\ ListTypes' /\ pushed' = pushed + NUM_SHARDS
           /\ \A t \in 1..pushed : tasks'[t] = tasks[t]
           /\ \A t \in pushed + 1..pushed' : tasks'[t] = [shard |-> t - pushed, events |-> batch]
<1> DEFINE new == [i \in 1..NUM_SHARDS |-> [shard |-> i, events |-> batch]]
<1>1. NUM_SHARDS \in Nat \ {0} /\ pushed \in Nat
  BY ServerProcessAssumption, ThreadPoolAssumption DEF TypeOK
<1>2. /\ tasks' = tasks \o new /\ pushed' = pushed + NUM_SHARDS /\ batch' = <<>>
      /\ UNCHANGED <<due, global_queue_>>
  BY DEF PushTasks, push_batch, Emplace, queueVars
<1>3. new \in Seq(TaskRecord) /\ Len(new) = NUM_SHARDS
  <2>1. \A i \in 1..NUM_SHARDS : new[i] \in TaskRecord
    BY DEF ListTypes, TaskRecord
  <2> HIDE DEF TaskRecord
  <2> QED
    BY <1>1, <2>1
<1>4. tasks \in Seq(TaskRecord) /\ Len(tasks) = pushed
  BY DEF ListTypes
<1>5. \A i \in 1..NUM_SHARDS : new[i] = [shard |-> i, events |-> batch]
  OBVIOUS
<1> HIDE DEF new
<1>6. /\ tasks' \in Seq(TaskRecord) /\ Len(tasks') = pushed'
      /\ \A t \in 1..pushed : tasks'[t] = tasks[t]
      /\ \A t \in pushed + 1..pushed' : tasks'[t] = new[t - pushed]
  <2>1. /\ tasks' \in Seq(TaskRecord) /\ Len(tasks') = pushed'
        /\ \A t \in 1..pushed : tasks'[t] = tasks[t]
        /\ \A i \in 1..NUM_SHARDS : tasks'[pushed + i] = new[i]
    BY <1>2, <1>3, <1>4, ConcatFacts
  <2>2. ASSUME NEW t \in pushed + 1..pushed'
        PROVE  t - pushed \in 1..NUM_SHARDS /\ t = pushed + (t - pushed)
    BY <1>1, <1>2
  <2>3. \A t \in pushed + 1..pushed' : tasks'[t] = new[t - pushed]
    BY <2>1, <2>2
  <2> QED
    BY <2>1, <2>3
<1>7. \A t \in pushed + 1..pushed' : t - pushed \in 1..NUM_SHARDS
  BY <1>1, <1>2
<1> QED
  BY <1>2, <1>5, <1>6, <1>7 DEF ListTypes

(* The lists of broadcasts, and one closure for each task that was pushed.   *)
LEMMA ListTypesStep ==
    ASSUME QuietInv, ListTypes, FateTypes, [ServerNext]_serverVars
    PROVE  ListTypes'
<1>1. TypeOK
  BY DEF QuietInv, OnceInv, EachTaskOnce
<1>2. CASE Idle \/ Stop \/ \E c \in Conn : Closing(c) \/ Accept(c)
  <2>1. UNCHANGED <<Lists, pushed>>
    BY <1>2 DEF Idle, Stop, Closing, Accept, Lists, poolVars, vars, queueVars, taskVars
  <2> QED
    BY <2>1 DEF Lists, ListTypes
<1>6. CASE TakeQueue
  <2>1. batch' = global_queue_ /\ global_queue_' = <<>> /\ UNCHANGED <<due, tasks, pushed>>
    BY <1>6 DEF TakeQueue, poolVars, vars
  <2>2. <<>> \in Seq(Nat)
    OBVIOUS
  <2> QED
    BY <2>1, <2>2 DEF ListTypes
<1>3. CASE BroadcastQueue
  <2>1. /\ due' = Append(due, connections) /\ global_queue_' = Append(global_queue_, Len(due) + 1)
        /\ UNCHANGED <<batch, tasks, pushed>>
    BY <1>3 DEF BroadcastQueue, taskVars, poolVars, vars
  <2>2. connections \in SUBSET Conn
    BY DEF FateTypes
  <2> QED
    BY <2>1, <2>2 DEF ListTypes
<1>4. CASE PushTasks
  BY <1>1, <1>4, NewTasks
<1>5. ASSUME NEW w \in Worker, Snapshot(w) \/ FinishTask(w) \/ \E c \in Conn : Deliver(w, c)
      PROVE  ListTypes'
  BY <1>5 DEF Snapshot, Deliver, FinishTask, RunTask, ListTypes, poolVars, vars, queueVars, taskVars
<1> QED
  BY <1>2, <1>3, <1>4, <1>5, <1>6, ServerCases

(* A worker that runs has a task that was pushed.                            *)
LEMMA TaskAtHand ==
    ASSUME QuietInv, ListTypes, NEW w \in Worker, pc[w] = "run"
    PROVE  /\ task[w] \in 1..Len(tasks) /\ tasks[task[w]] \in TaskRecord
           /\ tasks[task[w]].events \in Seq(Nat)
<1>1. task[w] \in Task
  BY DEF QuietInv, OnceInv, EachTaskOnce, TaskInHand, TypeOK
<1>2. task[w] \in Taken
  BY <1>1 DEF Taken
<1>3. task[w] \in 1..pushed
  BY <1>2 DEF QuietInv, OnceInv, EachTaskOnce
<1>4. task[w] \in 1..Len(tasks) /\ tasks[task[w]] \in TaskRecord
  BY <1>3 DEF ListTypes
<1> QED
  BY <1>4 DEF TaskRecord

(* What reaches a client by one task: the first n of its events, the others  *)
(* are refused.                                                              *)
LEMMA Appended ==
    ASSUME NEW s \in Seq(Nat), NEW list \in Seq(Nat), NEW n \in 0..Len(list)
    PROVE  LET r == s \o SubSeq(list, 1, n)
           IN  /\ r \in Seq(Nat) /\ Len(r) = Len(s) + n
               /\ \A i \in 1..Len(s) : r[i] = s[i]
               /\ \A i \in 1..n : r[Len(s) + i] = list[i]
<1> DEFINE t == SubSeq(list, 1, n)
<1>1. t \in Seq(Nat) /\ Len(t) = n
  OBVIOUS
<1>2. \A i \in 1..n : t[i] = list[i]
  OBVIOUS
<1> HIDE DEF t
<1>3. /\ s \o t \in Seq(Nat) /\ Len(s \o t) = Len(s) + Len(t)
      /\ \A i \in 1..Len(s) : (s \o t)[i] = s[i]
      /\ \A i \in 1..Len(t) : (s \o t)[Len(s) + i] = t[i]
  <2>1. \A p, q \in Seq(Nat) :
           /\ p \o q \in Seq(Nat) /\ Len(p \o q) = Len(p) + Len(q)
           /\ \A i \in 1..Len(p) : (p \o q)[i] = p[i]
           /\ \A i \in 1..Len(q) : (p \o q)[Len(p) + i] = q[i]
    OBVIOUS
  <2> QED
    BY <1>1, <2>1, Zenon
<1>4. /\ s \o t \in Seq(Nat) /\ Len(s \o t) = Len(s) + n
      /\ \A i \in 1..Len(s) : (s \o t)[i] = s[i]
      /\ \A i \in 1..n : (s \o t)[Len(s) + i] = list[i]
  BY <1>1, <1>2, <1>3
<1> QED
  BY <1>4 DEF t

Refused(list, n) == {list[i] : i \in n + 1..Len(list)}

(* Deliver settles the events of the task for c, unless c is closed.         *)
LEMMA DeliverEffect ==
    ASSUME QuietInv, ListTypes, FateTypes, NEW w \in Worker, NEW c \in Conn, Deliver(w, c)
    PROVE  /\ pc[w] = "run" /\ todo[w] \in SUBSET Conn /\ c \in todo[w]
           /\ shard[c] = tasks[task[w]].shard
           /\ todo' = [todo EXCEPT ![w] = todo[w] \ {c}]
           /\ UNCHANGED <<Lists, vars, connections, closed, net>>
           /\ \A d \in Conn \ {c} : given'[d] = given[d] /\ dropped'[d] = dropped[d]
           /\ \/ c \in closed /\ UNCHANGED <<given, dropped>>
              \/ \E n \in 0..Len(tasks[task[w]].events) :
                    /\ given' = [given EXCEPT ![c] =
                                    given[c] \o SubSeq(tasks[task[w]].events, 1, n)]
                    /\ dropped' = [dropped EXCEPT ![c] =
                                      dropped[c] \cup Refused(tasks[task[w]].events, n)]
<1>1. /\ pc[w] = "run" /\ todo[w] # None /\ c \in todo[w]
      /\ todo' = [todo EXCEPT ![w] = todo[w] \ {c}]
      /\ UNCHANGED <<Lists, vars, connections, closed, net>>
  BY DEF Deliver, FateTypes, Lists, poolVars, queueVars, taskVars, connVars, reactorVars
<1>2. todo[w] \in SUBSET Conn /\ shard[c] = tasks[task[w]].shard
  BY <1>1 DEF FateTypes
<1>3. \/ c \in closed /\ UNCHANGED <<given, dropped>>
      \/ \E n \in 0..Len(tasks[task[w]].events) :
            /\ given' = [given EXCEPT ![c] = given[c] \o SubSeq(tasks[task[w]].events, 1, n)]
            /\ dropped' = [dropped EXCEPT ![c] = dropped[c] \cup Refused(tasks[task[w]].events, n)]
  BY DEF Deliver, FateTypes, fateVars, Refused
<1>4. \A d \in Conn \ {c} : given'[d] = given[d] /\ dropped'[d] = dropped[d]
  BY <1>3 DEF FateTypes
<1> QED
  BY <1>1, <1>2, <1>3, <1>4

(* The connections, what they were given, and who is left to the workers.    *)
LEMMA FateTypesStep ==
    ASSUME QuietInv, ListTypes, FateTypes, [ServerNext]_serverVars
    PROVE  FateTypes'
<1>1. TypeOK /\ ListTypes'
  BY ListTypesStep DEF QuietInv, OnceInv, EachTaskOnce
<1>2. Len(tasks) \in Nat
  BY DEF ListTypes
<1>3. ASSUME UNCHANGED <<tasks, todo, given, dropped>>, AtWorkStays,
             connections' \subseteq Conn, closed' \subseteq Conn, connections' \cap closed' = {}
      PROVE  FateTypes'
  BY <1>3 DEF FateTypes, AtWorkStays
<1>4. CASE Idle \/ BroadcastQueue \/ TakeQueue \/ Stop
  <2>1. UNCHANGED <<tasks, todo, given, dropped, closed>> /\ AtWorkStays
    BY <1>4 DEF Idle, BroadcastQueue, TakeQueue, Stop, Lists, Fates, AtWorkStays, poolVars, vars,
           queueVars, taskVars, connVars, fateVars
  <2>2. connections' = connections \/ connections' = {}
    BY <1>4 DEF Idle, BroadcastQueue, TakeQueue, Stop, Fates, connVars
  <2> QED
    BY <1>3, <2>1, <2>2 DEF FateTypes
<1>5. ASSUME NEW c \in Conn, Closing(c) \/ Accept(c)
      PROVE  FateTypes'
  <2>1. UNCHANGED <<tasks, todo, given, dropped>> /\ AtWorkStays
    BY <1>5 DEF Closing, Accept, Lists, AtWorkStays, poolVars, vars, queueVars, taskVars, fateVars
  <2>2. \/ connections' = connections \ {c} /\ closed' = closed \cup {c}
        \/ connections' = connections \cup {c} /\ closed' = closed /\ c \notin closed
    BY <1>5 DEF Closing, CloseConn, Accept
  <2> QED
    BY <1>3, <2>1, <2>2 DEF FateTypes
<1>6. CASE PushTasks
  <2>1. /\ pushed' = pushed + NUM_SHARDS /\ \A t \in 1..pushed : tasks'[t] = tasks[t]
        /\ Len(tasks') = pushed' /\ Len(tasks) = pushed
    BY <1>1, <1>6, NewTasks DEF ListTypes
  <2>2. UNCHANGED <<todo, connections, closed, given, dropped, pc, task>>
    BY <1>6 DEF PushTasks, push_batch, connVars, fateVars
  <2>3. \A t \in 1..Len(tasks) : t \in 1..Len(tasks') /\ tasks'[t] = tasks[t]
    BY <1>2, <2>1, ServerProcessAssumption
  <2>4. \A w \in Worker : todo'[w] # None =>
            /\ pc'[w] = "run" /\ task'[w] \in 1..Len(tasks')
            /\ \A c \in todo'[w] : shard[c] = tasks'[task'[w]].shard
    BY <2>2, <2>3 DEF FateTypes
  <2>5. /\ todo' \in [Worker -> (SUBSET Conn) \cup {None}]
        /\ connections' \subseteq Conn /\ closed' \subseteq Conn /\ connections' \cap closed' = {}
        /\ given' \in [Conn -> Seq(Nat)] /\ dropped' \in [Conn -> SUBSET Nat]
    BY <2>2 DEF FateTypes
  <2> QED
    BY <2>4, <2>5 DEF FateTypes
<1>7. ASSUME NEW w \in Worker, Snapshot(w)
      PROVE  FateTypes'
  <2>1. /\ todo' = [todo EXCEPT ![w] = {c \in connections : shard[c] = tasks[task[w]].shard}]
        /\ UNCHANGED <<tasks, connections, closed, given, dropped, pc, task>> /\ pc[w] = "run"
    BY <1>7 DEF Snapshot, poolVars, vars, taskVars, connVars, fateVars
  <2>2. task[w] \in 1..Len(tasks)
    BY <2>1, TaskAtHand
  <2> QED
    BY <2>1, <2>2 DEF FateTypes
<1>8. ASSUME NEW w \in Worker, FinishTask(w)
      PROVE  FateTypes'
  <2>1. /\ todo' = [todo EXCEPT ![w] = None] /\ UNCHANGED <<tasks, connections, closed, given, dropped>>
        /\ pc' = [pc EXCEPT ![w] = "loop"] /\ task' = [task EXCEPT ![w] = 0]
    BY <1>8 DEF FinishTask, RunTask, Goto, taskVars, connVars, fateVars
  <2> QED
    BY <1>1, <2>1 DEF FateTypes, TypeOK
<1>9. ASSUME NEW w \in Worker, NEW c \in Conn, Deliver(w, c)
      PROVE  FateTypes'
  <2> DEFINE list == tasks[task[w]].events
  <2>1. /\ pc[w] = "run" /\ todo[w] \in SUBSET Conn
        /\ todo' = [todo EXCEPT ![w] = todo[w] \ {c}]
        /\ UNCHANGED <<Lists, vars, connections, closed, net>>
        /\ \A d \in Conn \ {c} : given'[d] = given[d] /\ dropped'[d] = dropped[d]
        /\ \/ c \in closed /\ UNCHANGED <<given, dropped>>
           \/ \E n \in 0..Len(list) :
                 /\ given' = [given EXCEPT ![c] = given[c] \o SubSeq(list, 1, n)]
                 /\ dropped' = [dropped EXCEPT ![c] = dropped[c] \cup Refused(list, n)]
    BY <1>9, DeliverEffect
  <2>2. list \in Seq(Nat) /\ Len(list) \in Nat
    BY <2>1, TaskAtHand
  <2> HIDE DEF list
  <2>3. given' \in [Conn -> Seq(Nat)] /\ dropped' \in [Conn -> SUBSET Nat]
    <3>1. CASE UNCHANGED <<given, dropped>>
      BY <3>1 DEF FateTypes
    <3>2. ASSUME NEW n \in 0..Len(list),
                 given' = [given EXCEPT ![c] = given[c] \o SubSeq(list, 1, n)],
                 dropped' = [dropped EXCEPT ![c] = dropped[c] \cup Refused(list, n)]
          PROVE  given' \in [Conn -> Seq(Nat)] /\ dropped' \in [Conn -> SUBSET Nat]
      <4>1. given[c] \o SubSeq(list, 1, n) \in Seq(Nat)
        BY <2>2, Appended DEF FateTypes
      <4>2. Refused(list, n) \subseteq Nat
        BY <2>2 DEF Refused
      <4> QED
        BY <3>2, <4>1, <4>2 DEF FateTypes
    <3> QED
      BY <2>1, <3>1, <3>2
  <2>4. UNCHANGED <<tasks, pc, task>>
    BY <2>1 DEF Lists, vars
  <2>5. \A v \in Worker : todo'[v] # None => todo[v] # None /\ todo'[v] \subseteq todo[v]
    BY <2>1, ServerProcessAssumption, <1>9 DEF FateTypes, Deliver
  <2>6. todo' \in [Worker -> (SUBSET Conn) \cup {None}]
    BY <2>1 DEF FateTypes
  <2> QED
    BY <2>1, <2>3, <2>4, <2>5, <2>6 DEF FateTypes
<1> QED
  BY <1>4, <1>5, <1>6, <1>7, <1>8, <1>9, ServerCases

-----------------------------------------------------------------------------
(* The pool takes the tasks in the order in which they were pushed.          *)

QueueInOrder == \A i \in 1..Len(task_queue) : task_queue[i] = pushed - Len(task_queue) + i

(* Tasks are taken from the head and pushed at the tail, numbered.           *)
LEMMA QueueInOrderStep ==
    ASSUME TypeOK, QueueInOrder, [Next]_vars
    PROVE  QueueInOrder'
<1>1. task_queue \in Seq(Task) /\ pushed \in Nat /\ MaxTasks \in Nat /\ Len(task_queue) \in Nat
  BY ThreadPoolAssumption DEF TypeOK
<1>2. CASE UNCHANGED <<task_queue, pushed>>
  BY <1>2 DEF QueueInOrder
<1>3. ASSUME NEW w \in Worker, WorkerStep(w) \/ Spurious(w)
      PROVE  QueueInOrder'
  <2>1. CASE Take(w)
    <3>1. task_queue # <<>> /\ task_queue' = Tail(task_queue) /\ pushed' = pushed
      BY <2>1 DEF Take
    <3>2. /\ Len(task_queue') = Len(task_queue) - 1
          /\ \A i \in 1..Len(task_queue') : task_queue'[i] = task_queue[i + 1]
      BY <1>1, <3>1
    <3>3. ASSUME NEW i \in 1..Len(task_queue')
          PROVE  task_queue'[i] = pushed' - Len(task_queue') + i
      <4>1. i + 1 \in 1..Len(task_queue)
        BY <1>1, <3>2
      <4>2. task_queue[i + 1] = pushed - Len(task_queue) + (i + 1)
        BY <4>1 DEF QueueInOrder
      <4> QED
        BY <1>1, <3>1, <3>2, <4>2
    <3> QED
      BY <3>3 DEF QueueInOrder
  <2>2. CASE ~Take(w)
    <3>1. UNCHANGED <<task_queue, pushed>>
      BY <1>3, <2>2 DEF WorkerStep, Loop, Lock, TestFalse, Block, TestExit, RunTask, Spurious
    <3> QED
      BY <1>2, <3>1
  <2> QED
    BY <2>1, <2>2
<1>4. ASSUME NEW k \in Nat, Emplace(k)
      PROVE  QueueInOrder'
  <2> DEFINE new == [i \in 1..k |-> pushed + i]
  <2>1. task_queue' = task_queue \o new /\ pushed' = pushed + k
    BY <1>4 DEF Emplace
  <2>2. new \in Seq(Nat) /\ Len(new) = k /\ \A i \in 1..k : new[i] = pushed + i
    BY <1>1
  <2> HIDE DEF new
  <2>3. task_queue \in Seq(Nat)
    BY <1>1 DEF Task
  <2>4. /\ Len(task_queue') = Len(task_queue) + k
        /\ \A i \in 1..Len(task_queue) : task_queue'[i] = task_queue[i]
        /\ \A i \in 1..k : task_queue'[Len(task_queue) + i] = new[i]
    <3>1. /\ Len(task_queue \o new) = Len(task_queue) + Len(new)
          /\ \A i \in 1..Len(task_queue) : (task_queue \o new)[i] = task_queue[i]
          /\ \A i \in 1..Len(new) : (task_queue \o new)[Len(task_queue) + i] = new[i]
      <4>1. new \in Seq(Nat)
        BY <2>2
      <4> QED
        BY <2>3, <4>1, ConcatFacts
    <3> QED
      BY <2>1, <2>2, <3>1
  <2>5. ASSUME NEW i \in 1..Len(task_queue')
        PROVE  task_queue'[i] = pushed' - Len(task_queue') + i
    <3>1. CASE i <= Len(task_queue)
      <4>1. i \in 1..Len(task_queue)
        BY <1>1, <3>1
      <4>2. task_queue[i] = pushed - Len(task_queue) + i
        BY <4>1 DEF QueueInOrder
      <4> QED
        BY <1>1, <2>1, <2>4, <4>1, <4>2
    <3>2. CASE i > Len(task_queue)
      <4>1. i - Len(task_queue) \in 1..k /\ i = Len(task_queue) + (i - Len(task_queue))
        BY <1>1, <2>4, <3>2
      <4>2. task_queue'[i] = pushed + (i - Len(task_queue))
        BY <2>2, <2>4, <4>1
      <4> QED
        BY <1>1, <2>1, <2>4, <4>2
    <3> QED
      BY <1>1, <3>1, <3>2
  <2> QED
    BY <2>5 DEF QueueInOrder
<1>5. CASE push_task
  BY <1>4, <1>5 DEF push_task
<1>6. ASSUME NEW k \in 1..MaxTasks, push_batch(k)
      PROVE  QueueInOrder'
  BY <1>4, <1>6 DEF push_batch
<1>7. CASE Notify \/ ShutdownExchange \/ ShutdownNotify \/ ShutdownJoin \/ UNCHANGED vars
  BY <1>2, <1>7 DEF Notify, ShutdownExchange, ShutdownNotify, ShutdownJoin, vars
<1> QED
  BY <1>3, <1>5, <1>6, <1>7 DEF Next

(* So those before a task that was taken were taken too.                     *)
LEMMA TakenInOrder ==
    ASSUME EachTaskOnce, QueueInOrder, NEW t \in Taken \cup done, NEW u \in 1..pushed, u <= t
    PROVE  u \in Taken \cup done
<1>1. /\ pushed \in Nat /\ Len(task_queue) \in Nat /\ task_queue \in Seq(Task) /\ t \in 1..pushed
      /\ t \notin Queued /\ Taken \cup done \subseteq Task
  BY ThreadPoolAssumption DEF EachTaskOnce, TypeOK, Taken
<1>2. t <= pushed - Len(task_queue)
  <2> SUFFICES ASSUME t > pushed - Len(task_queue) PROVE FALSE
    BY <1>1
  <2>1. t - (pushed - Len(task_queue)) \in 1..Len(task_queue)
    BY <1>1
  <2>2. task_queue[t - (pushed - Len(task_queue))] = t
    BY <1>1, <2>1 DEF QueueInOrder
  <2> QED
    BY <1>1, <2>1, <2>2 DEF Queued
<1>3. u \notin Queued
  <2> SUFFICES ASSUME NEW j \in 1..Len(task_queue), task_queue[j] = u PROVE FALSE
    BY DEF Queued
  <2>1. u = pushed - Len(task_queue) + j
    BY DEF QueueInOrder
  <2> QED
    BY <1>1, <1>2, <2>1
<1> QED
  BY <1>3 DEF EachTaskOnce

-----------------------------------------------------------------------------
(* The broadcasts are numbered in the order in which they were made; the     *)
(* last of them are in global_queue_, those before in the reactor's batch,   *)
(* and the first InTasks in tasks.                                           *)
InTasks == Len(due) - Len(global_queue_) - Len(batch)

InTask(e, t) == Within(e, tasks[t].events)

Numbered ==
    /\ Len(global_queue_) + Len(batch) <= Len(due)
    /\ \A i \in 1..Len(global_queue_) : global_queue_[i] = Len(due) - Len(global_queue_) + i
    /\ \A i \in 1..Len(batch) : batch[i] = InTasks + i
    /\ batch # <<>> => net = "push"

(* Each task has its events in order; those of one shard have them one after *)
(* the other; each shard has them all; and tasks of one batch have the same. *)
TaskEvents ==
    \A t \in 1..Len(tasks) :
        LET list == tasks[t].events
        IN  /\ \A i \in 1..Len(list) : list[i] \in 1..InTasks
            /\ \A i, j \in 1..Len(list) : i < j => list[i] < list[j]

TasksOrdered ==
    \A t, u \in 1..Len(tasks) : t < u /\ tasks[t].shard = tasks[u].shard =>
        \A e, f \in 1..InTasks : InTask(e, t) /\ InTask(f, u) => e < f

TasksCover ==
    \A e \in 1..InTasks, s \in 1..NUM_SHARDS :
        \E t \in 1..Len(tasks) : tasks[t].shard = s /\ InTask(e, t)

TasksOfABatch ==
    \A t, u \in 1..Len(tasks) : \A e \in 1..InTasks :
        InTask(e, t) /\ InTask(e, u) => tasks[t].events = tasks[u].events

TasksInv == TaskEvents /\ TasksOrdered /\ TasksCover /\ TasksOfABatch

(* How many broadcasts are in tasks.                                         *)
LEMMA NumberedFacts ==
    ASSUME ListTypes, Numbered
    PROVE  /\ Len(due) \in Nat /\ Len(global_queue_) \in Nat /\ Len(batch) \in Nat /\ Len(tasks) \in Nat
           /\ InTasks \in Nat /\ InTasks <= Len(due)
BY DEF ListTypes, Numbered, InTasks

(* A broadcast goes from the queue to the batch to the tasks, in order.      *)
LEMMA NumberedStep ==
    ASSUME QuietInv, ListTypes, ListTypes', Numbered, [ServerNext]_serverVars
    PROVE  Numbered' /\ (~PushTasks => InTasks' = InTasks /\ UNCHANGED tasks)
<1>1. /\ Len(due) \in Nat /\ Len(global_queue_) \in Nat /\ Len(batch) \in Nat
      /\ due \in Seq(SUBSET Conn) /\ global_queue_ \in Seq(Nat) /\ batch \in Seq(Nat)
  BY DEF ListTypes
<1>2. ASSUME UNCHANGED Lists, net' # net => net # "push"
      PROVE  Numbered' /\ InTasks' = InTasks /\ UNCHANGED tasks
  BY <1>2 DEF Lists, Numbered, InTasks
<1>3. CASE Idle \/ Stop \/ \E c \in Conn : Closing(c) \/ Accept(c)
  <2>1. UNCHANGED Lists /\ (net' # net => net # "push")
    BY <1>3 DEF Idle, Stop, Closing, Accept, Lists, queueVars, taskVars, reactorVars
  <2> QED
    BY <1>2, <2>1
<1>4. ASSUME NEW w \in Worker, Snapshot(w) \/ FinishTask(w) \/ \E c \in Conn : Deliver(w, c)
      PROVE  Numbered' /\ InTasks' = InTasks /\ UNCHANGED tasks
  <2>1. UNCHANGED <<Lists, net>>
    BY <1>4 DEF Snapshot, FinishTask, Deliver, Lists, queueVars, taskVars, reactorVars
  <2> QED
    BY <1>2, <2>1
<1>5. CASE BroadcastQueue
  <2>1. /\ due' = Append(due, connections) /\ global_queue_' = Append(global_queue_, Len(due) + 1)
        /\ UNCHANGED <<batch, tasks, net>>
    BY <1>5 DEF BroadcastQueue, taskVars, reactorVars
  <2>2. /\ Len(due') = Len(due) + 1 /\ Len(global_queue_') = Len(global_queue_) + 1
        /\ \A i \in 1..Len(global_queue_) : global_queue_'[i] = global_queue_[i]
        /\ global_queue_'[Len(global_queue_) + 1] = Len(due) + 1
    BY <1>1, <2>1
  <2>3. InTasks' = InTasks
    BY <1>1, <2>1, <2>2 DEF InTasks
  <2>4. ASSUME NEW i \in 1..Len(global_queue_')
        PROVE  global_queue_'[i] = Len(due') - Len(global_queue_') + i
    <3>1. i \in 1..Len(global_queue_) \/ i = Len(global_queue_) + 1
      BY <1>1, <2>2
    <3> QED
      BY <1>1, <2>2, <3>1 DEF Numbered
  <2>5. Len(global_queue_') + Len(batch') <= Len(due')
    BY <1>1, <2>1, <2>2 DEF Numbered
  <2>6. (\A i \in 1..Len(batch') : batch'[i] = InTasks' + i) /\ (batch' # <<>> => net' = "push")
    BY <2>1, <2>3 DEF Numbered
  <2>7. Numbered'
    BY <2>4, <2>5, <2>6 DEF Numbered
  <2> QED
    BY <2>1, <2>3, <2>7
<1>6. CASE TakeQueue
  <2>1. /\ net = "queue" /\ batch' = global_queue_ /\ global_queue_' = <<>> /\ UNCHANGED <<due, tasks>>
        /\ net' = IF global_queue_ = <<>> THEN "wait" ELSE "push"
    BY <1>6 DEF TakeQueue
  <2>2. batch = <<>> /\ Len(batch) = 0 /\ Len(global_queue_') = 0
    BY <2>1 DEF Numbered
  <2>3. InTasks' = InTasks /\ InTasks = Len(due) - Len(global_queue_)
    BY <1>1, <2>1, <2>2 DEF InTasks
  <2> QED
    BY <1>1, <2>1, <2>2, <2>3 DEF Numbered
<1>7. CASE PushTasks
  <2>1. batch' = <<>> /\ UNCHANGED <<due, global_queue_>>
    BY <1>7 DEF PushTasks, queueVars
  <2> QED
    BY <1>1, <1>7, <2>1 DEF Numbered, InTasks
<1> QED
  BY <1>3, <1>4, <1>5, <1>6, <1>7, ServerCases

(* The events of a task are among the first InTasks.                         *)
LEMMA InTaskRange ==
    ASSUME TaskEvents, NEW t \in 1..Len(tasks), NEW e, InTask(e, t)
    PROVE  e \in 1..InTasks
BY DEF TaskEvents, InTask, Within

(* The new tasks have the events of the batch, the old ones theirs.          *)
LEMMA PushedEvents ==
    ASSUME TypeOK, ListTypes, Numbered, TaskEvents, PushTasks
    PROVE  /\ \A t \in pushed + 1..pushed' : \A e : InTask(e, t)' <=> e \in InTasks + 1..InTasks'
           /\ \A t \in 1..pushed : \A e : InTask(e, t)' <=> InTask(e, t)
           /\ \A t \in 1..pushed : \A e : InTask(e, t)' => e \in 1..InTasks
<1> DEFINE n == Len(batch)
<1>1. /\ ListTypes' /\ pushed' = pushed + NUM_SHARDS
      /\ \A t \in 1..pushed : tasks'[t] = tasks[t]
      /\ \A t \in pushed + 1..pushed' : tasks'[t] = [shard |-> t - pushed, events |-> batch]
  BY NewTasks
<1>2. /\ pushed \in Nat /\ NUM_SHARDS \in Nat \ {0} /\ Len(tasks) = pushed /\ Len(tasks') = pushed'
      /\ InTasks \in Nat /\ n \in Nat
  BY <1>1, NumberedFacts, ServerProcessAssumption DEF ListTypes
<1>3. InTasks' = InTasks + n
  <2>1. batch' = <<>> /\ UNCHANGED <<due, global_queue_>> /\ Len(batch') = 0
    BY DEF PushTasks, queueVars
  <2> QED
    BY <1>2, <2>1, NumberedFacts DEF InTasks
<1>4. \A i \in 1..n : batch[i] = InTasks + i
  BY DEF Numbered
<1>6. ASSUME NEW t \in pushed + 1..pushed'
      PROVE  tasks'[t].events = batch /\ tasks'[t].shard = t - pushed
  <2>1. tasks'[t] = [shard |-> t - pushed, events |-> batch]
    BY <1>1
  <2> QED
    BY <2>1
<1>7. ASSUME NEW t \in pushed + 1..pushed', NEW e
      PROVE  InTask(e, t)' <=> e \in InTasks + 1..InTasks + n
  <2>1. InTask(e, t)' <=> \E i \in 1..n : batch[i] = e
    BY <1>6 DEF InTask, Within
  <2>2. ASSUME e \in InTasks + 1..InTasks + n
        PROVE  \E i \in 1..n : batch[i] = e
    <3>1. e - InTasks \in 1..n /\ e = InTasks + (e - InTasks)
      BY <1>2, <2>2
    <3> QED
      BY <1>4, <3>1
  <2>3. ASSUME NEW i \in 1..n, batch[i] = e
        PROVE  e \in InTasks + 1..InTasks + n
    BY <1>2, <1>4, <2>3
  <2> QED
    BY <2>1, <2>2, <2>3
<1>8. ASSUME NEW t \in 1..pushed, NEW e
      PROVE  /\ InTask(e, t)' <=> InTask(e, t)
             /\ InTask(e, t)' => e \in 1..InTasks
  <2>1. InTask(e, t)' <=> InTask(e, t)
    BY <1>1 DEF InTask, Within
  <2> QED
    BY <1>2, <2>1, InTaskRange
<1> QED
  BY <1>3, <1>7, <1>8

(* The new tasks come after the old ones and have the batch, one per shard.  *)
LEMMA PushKeepsTasks ==
    ASSUME TypeOK, ListTypes, Numbered, TasksInv, PushTasks
    PROVE  TasksInv'
<1> DEFINE n == Len(batch)
<1>1. /\ ListTypes' /\ pushed' = pushed + NUM_SHARDS
      /\ \A t \in 1..pushed : tasks'[t] = tasks[t]
      /\ \A t \in pushed + 1..pushed' : tasks'[t] = [shard |-> t - pushed, events |-> batch]
  BY NewTasks
<1>2. /\ pushed \in Nat /\ NUM_SHARDS \in Nat \ {0} /\ Len(tasks) = pushed /\ Len(tasks') = pushed'
      /\ InTasks \in Nat /\ n \in Nat
  BY <1>1, NumberedFacts, ServerProcessAssumption DEF ListTypes
<1>3. InTasks' = InTasks + n
  <2>1. batch' = <<>> /\ UNCHANGED <<due, global_queue_>> /\ Len(batch') = 0
    BY DEF PushTasks, queueVars
  <2> QED
    BY <1>2, <2>1, NumberedFacts DEF InTasks
<1>4. \A i \in 1..n : batch[i] = InTasks + i
  BY DEF Numbered
<1>5. ASSUME NEW t \in 1..Len(tasks')
      PROVE  t \in Int /\ (t \in 1..pushed \/ t \in pushed + 1..pushed')
  BY <1>1, <1>2
<1>6. ASSUME NEW t \in pushed + 1..pushed'
      PROVE  tasks'[t].events = batch /\ tasks'[t].shard = t - pushed
  <2>1. tasks'[t] = [shard |-> t - pushed, events |-> batch]
    BY <1>1
  <2> QED
    BY <2>1
<1>7. \A t \in pushed + 1..pushed' : \A e : InTask(e, t)' <=> e \in InTasks + 1..InTasks + n
  BY <1>3, PushedEvents DEF TasksInv
<1>8. ASSUME NEW t \in 1..pushed, NEW e
      PROVE  /\ InTask(e, t)' <=> InTask(e, t)
             /\ InTask(e, t)' => e \in 1..InTasks
  BY PushedEvents DEF TasksInv
<1>9. TaskEvents'
  <2> SUFFICES ASSUME NEW t \in 1..Len(tasks')
               PROVE  LET list == tasks'[t].events
                      IN  /\ \A i \in 1..Len(list) : list[i] \in 1..InTasks'
                          /\ \A i, j \in 1..Len(list) : i < j => list[i] < list[j]
    BY DEF TaskEvents
  <2>1. CASE t \in 1..pushed
    <3>1. tasks'[t].events = tasks[t].events /\ 1..InTasks \subseteq 1..InTasks'
      BY <1>1, <1>2, <1>3, <2>1
    <3> QED
      BY <1>2, <2>1, <3>1 DEF TasksInv, TaskEvents
  <2>2. CASE t \in pushed + 1..pushed'
    <3>1. tasks'[t].events = batch
      BY <1>6, <2>2
    <3>2. \A i \in 1..n : InTasks + i \in 1..InTasks'
      BY <1>2, <1>3
    <3>3. \A i, j \in 1..n : i < j => InTasks + i < InTasks + j
      BY <1>2
    <3> QED
      BY <1>4, <3>1, <3>2, <3>3
  <2> QED
    BY <1>5, <2>1, <2>2
<1>10. TasksOrdered'
  <2> SUFFICES ASSUME NEW t \in 1..Len(tasks'), NEW u \in 1..Len(tasks'), t < u,
                      tasks'[t].shard = tasks'[u].shard, NEW e \in 1..InTasks', NEW f \in 1..InTasks',
                      InTask(e, t)', InTask(f, u)'
               PROVE  e < f
    BY DEF TasksOrdered
  <2>1. CASE t \in 1..pushed /\ u \in 1..pushed
    BY <1>1, <1>2, <1>8, <2>1 DEF TasksInv, TasksOrdered
  <2>2. CASE t \in 1..pushed /\ u \in pushed + 1..pushed'
    BY <1>2, <1>7, <1>8, <2>2
  <2>3. CASE t \in pushed + 1..pushed' /\ u \in pushed + 1..pushed'
    BY <1>1, <1>2, <1>6, <2>3
  <2>4. ~(t \in pushed + 1..pushed' /\ u \in 1..pushed)
    BY <1>1, <1>2
  <2> QED
    BY <1>5, <2>1, <2>2, <2>3, <2>4
<1>11. TasksCover'
  <2> SUFFICES ASSUME NEW e \in 1..InTasks', NEW s \in 1..NUM_SHARDS
               PROVE  \E t \in 1..Len(tasks') : tasks'[t].shard = s /\ InTask(e, t)'
    BY DEF TasksCover
  <2>1. CASE e \in 1..InTasks
    <3>1. PICK t \in 1..pushed : tasks[t].shard = s /\ InTask(e, t)
      BY <1>2, <2>1 DEF TasksInv, TasksCover
    <3>2. t \in 1..Len(tasks') /\ tasks'[t].shard = s /\ InTask(e, t)'
      BY <1>1, <1>2, <1>8, <3>1
    <3> QED
      BY <3>2
  <2>2. CASE e \in InTasks + 1..InTasks + n
    <3>1. PICK t \in pushed + 1..pushed' : t \in 1..Len(tasks') /\ t - pushed = s
      <4>1. pushed + s \in pushed + 1..pushed' /\ pushed + s \in 1..Len(tasks') /\ (pushed + s) - pushed = s
        BY <1>1, <1>2
      <4> QED
        BY <4>1
    <3>2. tasks'[t].shard = s /\ InTask(e, t)'
      BY <1>6, <1>7, <2>2, <3>1
    <3> QED
      BY <3>1, <3>2
  <2> QED
    BY <1>2, <1>3, <2>1, <2>2
<1>12. TasksOfABatch'
  <2> SUFFICES ASSUME NEW t \in 1..Len(tasks'), NEW u \in 1..Len(tasks'), NEW e \in 1..InTasks',
                      InTask(e, t)', InTask(e, u)'
               PROVE  tasks'[t].events = tasks'[u].events
    BY DEF TasksOfABatch
  <2>1. CASE t \in 1..pushed /\ u \in 1..pushed
    BY <1>1, <1>2, <1>8, <2>1 DEF TasksInv, TasksOfABatch
  <2>2. CASE t \in pushed + 1..pushed' /\ u \in pushed + 1..pushed'
    BY <1>6, <2>2
  <2>3. \A x \in 1..pushed, y \in pushed + 1..pushed' : ~(InTask(e, x)' /\ InTask(e, y)')
    BY <1>2, <1>7, <1>8
  <2> QED
    BY <1>5, <2>1, <2>2, <2>3
<1> QED
  BY <1>9, <1>10, <1>11, <1>12 DEF TasksInv

(* No other step touches the tasks.                                          *)
LEMMA TasksInvStep ==
    ASSUME QuietInv, ListTypes, ListTypes', Numbered, TasksInv, [ServerNext]_serverVars
    PROVE  TasksInv'
<1>1. CASE PushTasks
  BY <1>1, PushKeepsTasks DEF QuietInv, OnceInv, EachTaskOnce
<1>2. CASE ~PushTasks
  <2>1. InTasks' = InTasks /\ UNCHANGED tasks
    BY <1>2, NumberedStep
  <2> QED
    BY <2>1 DEF TasksInv, TaskEvents, TasksOrdered, TasksCover, TasksOfABatch, InTask, Within
<1> QED
  BY <1>1, <1>2

-----------------------------------------------------------------------------
(* What becomes of the events of a task.                                     *)

(* The task t, or the worker that runs it, is done with client c.            *)
Served(t, c) == t \in done \/ \E w \in Worker : task[w] = t /\ todo[w] # None /\ c \notin todo[w]

(* Those who were connected when a broadcast was made still are, or were     *)
(* closed, until Stop clears the maps.                                       *)
DueThere == net = "stopped" \/ \A e \in 1..Len(due) : due[e] \subseteq connections \cup closed

(* What a client was given comes from a task of its shard that is done with  *)
(* it, and such a task has settled all its events for the client.            *)
GivenServed ==
    \A c \in Conn : \A i \in 1..Len(given[c]) :
        \E t \in 1..Len(tasks) : tasks[t].shard = shard[c] /\ InTask(given[c][i], t) /\ Served(t, c)

ServedSettled ==
    \A t \in 1..Len(tasks), c \in Conn : Served(t, c) /\ tasks[t].shard = shard[c] =>
        \A e \in 1..InTasks : InTask(e, t) /\ c \in due[e] => Settled(e, c)

OrderKept ==
    \A c \in Conn : \A i, j \in 1..Len(given[c]) :
        i < j => /\ given[c][i] # given[c][j]
                 /\ given[c][i] > given[c][j] =>
                        ~\E t \in 1..Len(tasks) : InTask(given[c][i], t) /\ InTask(given[c][j], t)

FateInv == DueThere /\ GivenServed /\ ServedSettled /\ OrderKept

ListInv == ListTypes /\ FateTypes /\ Numbered /\ TasksInv

(* Nobody leaves the maps unclosed before Stop.                              *)
LEMMA DueThereStep ==
    ASSUME QuietInv, ListInv, DueThere, [ServerNext]_serverVars
    PROVE  DueThere'
<1>1. due \in Seq(SUBSET Conn)
  BY DEF ListInv, ListTypes
<1>2. CASE Idle \/ TakeQueue \/ PushTasks \/ \E c \in Conn : Closing(c) \/ Accept(c)
  <2>1. due' = due /\ connections \cup closed \subseteq connections' \cup closed'
    BY <1>2 DEF Idle, TakeQueue, PushTasks, Closing, CloseConn, Accept, Lists, Fates, queueVars, connVars
  <2>2. net = "stopped" => net' = "stopped"
    BY <1>2 DEF Idle, TakeQueue, PushTasks, Closing, Accept
  <2> QED
    BY <2>1, <2>2 DEF DueThere
<1>3. CASE BroadcastQueue
  <2>1. due' = Append(due, connections) /\ UNCHANGED <<net, connections, closed>>
    BY <1>3 DEF BroadcastQueue, reactorVars, connVars
  <2> QED
    BY <1>1, <2>1 DEF DueThere
<1>4. CASE Stop
  BY <1>4 DEF Stop, DueThere
<1>5. ASSUME NEW w \in Worker, Snapshot(w) \/ FinishTask(w) \/ \E c \in Conn : Deliver(w, c)
      PROVE  DueThere'
  BY <1>5 DEF Snapshot, FinishTask, Deliver, queueVars, connVars, reactorVars, DueThere
<1> QED
  BY <1>2, <1>3, <1>4, <1>5, ServerCases

(* A task that has what a client was given, in the client's shard, is the    *)
(* one that gave it.                                                         *)
LEMMA GivenByOne ==
    ASSUME ListInv, GivenServed, NEW c \in Conn, NEW i \in 1..Len(given[c]),
           NEW t \in 1..Len(tasks), tasks[t].shard = shard[c], InTask(given[c][i], t)
    PROVE  Served(t, c)
<1>1. PICK u \in 1..Len(tasks) : tasks[u].shard = shard[c] /\ InTask(given[c][i], u) /\ Served(u, c)
  BY DEF GivenServed
<1>2. given[c][i] \in 1..InTasks /\ InTasks \in Nat /\ Len(tasks) \in Nat
  BY InTaskRange, NumberedFacts DEF ListInv, TasksInv
<1>3. ~(t < u) /\ ~(u < t)
  BY <1>1, <1>2 DEF ListInv, TasksInv, TasksOrdered
<1>4. t = u
  BY <1>2, <1>3
<1> QED
  BY <1>1, <1>4

(* Steps that give nobody anything.  A client that a task is done with now   *)
(* and was not before has its events settled.                                *)
LEMMA FateKept ==
    ASSUME ListInv, FateInv, DueThere', UNCHANGED <<tasks, given, dropped>>, InTasks' = InTasks,
           closed \subseteq closed', \A e \in 1..InTasks : due'[e] = due[e],
           \A t \in 1..Len(tasks), c \in Conn : Served(t, c) => Served(t, c)',
           \A t \in 1..Len(tasks), c \in Conn :
               Served(t, c)' /\ tasks[t].shard = shard[c] =>
                   \A e \in 1..InTasks : InTask(e, t) /\ c \in due[e] => Settled(e, c)
    PROVE  FateInv'
<1>1. GivenServed'
  <2> SUFFICES ASSUME NEW c \in Conn, NEW i \in 1..Len(given[c])
               PROVE  \E t \in 1..Len(tasks) :
                          tasks[t].shard = shard[c] /\ InTask(given[c][i], t) /\ Served(t, c)'
    BY DEF GivenServed, InTask
  <2> QED
    BY DEF FateInv, GivenServed
<1>2. \A e, c : Settled(e, c) => Settled(e, c)'
  BY DEF Settled, Within
<1>3. ServedSettled'
  <2> SUFFICES ASSUME NEW t \in 1..Len(tasks), NEW c \in Conn, Served(t, c)', tasks[t].shard = shard[c],
                      NEW e \in 1..InTasks, InTask(e, t), c \in due[e]
               PROVE  Settled(e, c)'
    BY DEF ServedSettled, InTask
  <2> QED
    BY <1>2
<1>4. OrderKept'
  BY DEF FateInv, OrderKept, InTask
<1> QED
  BY <1>1, <1>3, <1>4 DEF FateInv

(* ... and the tasks that are at work stay at work.                          *)
LEMMA FateIdle ==
    ASSUME ListInv, FateInv, DueThere', UNCHANGED <<tasks, todo, given, dropped>>, InTasks' = InTasks,
           closed \subseteq closed', \A e \in 1..InTasks : due'[e] = due[e], AtWorkStays,
           \A w \in Worker : todo[w] = None => todo'[w] = None
    PROVE  FateInv'
<1>1. \A t, c : Served(t, c)' <=> Served(t, c)
  BY DEF Served, AtWorkStays
<1>2. \A t \in 1..Len(tasks), c \in Conn :
          Served(t, c)' /\ tasks[t].shard = shard[c] =>
              \A e \in 1..InTasks : InTask(e, t) /\ c \in due[e] => Settled(e, c)
  BY <1>1 DEF FateInv, ServedSettled
<1> QED
  BY <1>1, <1>2, FateKept

(* Nobody has been given anything of the new tasks.                          *)
LEMMA PushFate ==
    ASSUME QuietInv, ListInv, FateInv, DueThere', PushTasks
    PROVE  FateInv'
<1>1. TypeOK /\ done \subseteq 1..pushed /\ \A w \in Worker : task[w] # 0 => task[w] \in 1..pushed
  <2>1. TypeOK /\ 1..pushed = Queued \cup Taken \cup done
    BY DEF QuietInv, OnceInv, EachTaskOnce
  <2>2. \A w \in Worker : task[w] # 0 => task[w] \in Taken
    BY <2>1 DEF TypeOK, Taken
  <2> QED
    BY <2>1, <2>2
<1>2. /\ pushed' = pushed + NUM_SHARDS /\ pushed \in Nat /\ NUM_SHARDS \in Nat \ {0}
      /\ Len(tasks) = pushed /\ Len(tasks') = pushed'
      /\ \A t \in 1..pushed : tasks'[t] = tasks[t]
  BY <1>1, NewTasks, ServerProcessAssumption, ThreadPoolAssumption DEF ListInv, ListTypes, TypeOK
<1>3. /\ \A t \in pushed + 1..pushed' : \A e : InTask(e, t)' => e \notin 1..InTasks
      /\ \A t \in 1..pushed : \A e : InTask(e, t)' <=> InTask(e, t)
      /\ \A t \in 1..pushed : \A e : InTask(e, t)' => e \in 1..InTasks
      /\ InTasks \in Nat
  BY <1>1, PushedEvents, NumberedFacts DEF ListInv, TasksInv
<1>4. UNCHANGED <<due, todo, closed, given, dropped, done, task>>
  BY DEF PushTasks, push_batch, queueVars, connVars, fateVars
<1>5. \A t, c : Served(t, c)' <=> Served(t, c)
  BY <1>4 DEF Served
<1>6. ASSUME NEW t \in pushed + 1..pushed', NEW c
      PROVE  ~Served(t, c)
  <2>1. t \notin 1..pushed /\ t # 0
    BY <1>2
  <2> QED
    BY <1>1, <2>1 DEF Served
<1>7. \A t \in 1..Len(tasks') : t \in 1..pushed \/ t \in pushed + 1..pushed'
  BY <1>2
<1>8. GivenServed'
  <2> SUFFICES ASSUME NEW c \in Conn, NEW i \in 1..Len(given[c]), NEW e, e = given[c][i]
               PROVE  \E t \in 1..Len(tasks') :
                          tasks'[t].shard = shard[c] /\ InTask(e, t)' /\ Served(t, c)'
    BY <1>4 DEF GivenServed, InTask
  <2>1. PICK t \in 1..pushed : tasks[t].shard = shard[c] /\ InTask(e, t) /\ Served(t, c)
    BY <1>2 DEF FateInv, GivenServed
  <2> QED
    BY <1>2, <1>3, <1>5, <2>1
<1>9. ServedSettled'
  <2> SUFFICES ASSUME NEW t \in 1..Len(tasks'), NEW c \in Conn, Served(t, c)', tasks'[t].shard = shard[c],
                      NEW e \in 1..InTasks', InTask(e, t)', c \in due[e]
               PROVE  Settled(e, c)'
    BY <1>4 DEF ServedSettled
  <2>1. t \in 1..pushed /\ Served(t, c)
    BY <1>5, <1>6, <1>7
  <2>2. e \in 1..InTasks /\ InTask(e, t) /\ tasks[t].shard = shard[c] /\ t \in 1..Len(tasks)
    BY <1>2, <1>3, <2>1
  <2>3. Settled(e, c)
    BY <2>1, <2>2 DEF FateInv, ServedSettled
  <2> QED
    BY <1>4, <2>3 DEF Settled, Within
<1>10. OrderKept'
  <2> SUFFICES ASSUME NEW c \in Conn, NEW i \in 1..Len(given[c]), NEW j \in 1..Len(given[c]), i < j,
                      NEW e, e = given[c][i], NEW f, f = given[c][j]
               PROVE  e # f /\ (e > f => ~\E t \in 1..Len(tasks') : InTask(e, t)' /\ InTask(f, t)')
    BY <1>4 DEF OrderKept, InTask
  <2>1. e \in 1..InTasks
    BY InTaskRange DEF FateInv, GivenServed, ListInv, TasksInv
  <2>2. \A t \in 1..Len(tasks') : InTask(e, t)' => t \in 1..pushed
    BY <1>3, <1>7, <2>1
  <2>3. \A t \in 1..pushed : InTask(e, t)' /\ InTask(f, t)' => InTask(e, t) /\ InTask(f, t)
    BY <1>3
  <2>4. e # f /\ (e > f => ~\E t \in 1..pushed : InTask(e, t) /\ InTask(f, t))
    BY <1>2 DEF FateInv, OrderKept
  <2> QED
    BY <2>2, <2>3, <2>4
<1> QED
  BY <1>8, <1>9, <1>10 DEF FateInv

(* The clients that a task leaves out from the start have left.              *)
LEMMA SnapshotFate ==
    ASSUME QuietInv, ListInv, FateInv, DueThere', NEW w \in Worker, Snapshot(w)
    PROVE  FateInv'
<1> DEFINE here == {c \in connections : shard[c] = tasks[task[w]].shard}
<1>1. /\ pc[w] = "run" /\ todo[w] = None /\ todo' = [todo EXCEPT ![w] = here]
      /\ UNCHANGED <<Lists, connections, closed, given, dropped, done, task, net>>
  BY DEF Snapshot, poolVars, vars, queueVars, taskVars, connVars, fateVars, reactorVars, Lists
<1>2. todo \in [Worker -> (SUBSET Conn) \cup {None}] /\ connections \subseteq Conn
  BY DEF ListInv, FateTypes
<1>3. todo'[w] = here /\ here # None /\ \A v \in Worker \ {w} : todo'[v] = todo[v]
  BY <1>1, <1>2, ServerProcessAssumption
<1>4. UNCHANGED <<tasks, due, closed, given, dropped, InTasks, done, task, connections>>
  BY <1>1 DEF Lists, InTasks
<1>5. ASSUME NEW t, NEW c
      PROVE  /\ Served(t, c) => Served(t, c)'
             /\ Served(t, c)' => Served(t, c) \/ (t = task[w] /\ c \notin here)
  <2>1. Served(t, c) => t \in done \/ \E v \in Worker \ {w} : task[v] = t /\ todo[v] # None /\ c \notin todo[v]
    BY <1>1 DEF Served
  <2>2. Served(t, c)' <=> t \in done \/ \E v \in Worker : task[v] = t /\ todo'[v] # None /\ c \notin todo'[v]
    BY <1>4 DEF Served
  <2> HIDE DEF here
  <2> QED
    BY <1>3, <2>1, <2>2 DEF Served
<1>6. net # "stopped"
  BY <1>1, QuietInvImplies DEF StoppedIsQuiet
<1>7. ASSUME NEW t \in 1..Len(tasks), NEW c \in Conn, Served(t, c)', tasks[t].shard = shard[c],
             NEW e \in 1..InTasks, InTask(e, t), c \in due[e]
      PROVE  Settled(e, c)
  <2>1. CASE Served(t, c)
    BY <1>7, <2>1 DEF FateInv, ServedSettled
  <2>2. CASE t = task[w] /\ c \notin here
    <3>1. c \notin connections
      BY <1>7, <2>2
    <3>2. e \in 1..Len(due)
      BY NumberedFacts DEF ListInv
    <3>3. c \in closed
      BY <1>6, <1>7, <3>1, <3>2 DEF FateInv, DueThere
    <3> QED
      BY <3>3 DEF Settled
  <2> HIDE DEF here
  <2> QED
    BY <1>5, <1>7, <2>1, <2>2
<1> HIDE DEF here
<1> QED
  BY <1>4, <1>5, <1>7, FateKept

(* A task ends when it has nobody left.                                      *)
LEMMA FinishFate ==
    ASSUME QuietInv, ListInv, FateInv, DueThere', NEW w \in Worker, FinishTask(w)
    PROVE  FateInv'
<1>1. /\ todo[w] = {} /\ todo' = [todo EXCEPT ![w] = None]
      /\ done' = done \cup {task[w]} /\ task' = [task EXCEPT ![w] = 0]
      /\ UNCHANGED <<Lists, connections, closed, given, dropped, net>>
  BY DEF FinishTask, RunTask, queueVars, taskVars, connVars, fateVars, reactorVars, Lists
<1>2. todo \in [Worker -> (SUBSET Conn) \cup {None}] /\ task \in [Worker -> Task \cup {0}] /\ {} # None
  BY ServerProcessAssumption DEF ListInv, FateTypes, QuietInv, OnceInv, EachTaskOnce, TypeOK
<1>3. UNCHANGED <<tasks, due, closed, given, dropped, InTasks>>
  BY <1>1 DEF Lists, InTasks
<1>4. /\ todo'[w] = None
      /\ \A v \in Worker \ {w} : todo'[v] = todo[v] /\ task'[v] = task[v]
  BY <1>1, <1>2
<1>5. ASSUME NEW t, NEW c
      PROVE  Served(t, c)' <=> Served(t, c)
  <2>1. Served(t, c)' <=> \/ t \in done \/ t = task[w]
                          \/ \E v \in Worker \ {w} : task[v] = t /\ todo[v] # None /\ c \notin todo[v]
    BY <1>1, <1>4 DEF Served
  <2>2. Served(t, c) <=> \/ t \in done \/ t = task[w]
                         \/ \E v \in Worker \ {w} : task[v] = t /\ todo[v] # None /\ c \notin todo[v]
    BY <1>1, <1>2 DEF Served
  <2> QED
    BY <2>1, <2>2
<1>6. \A t \in 1..Len(tasks), c \in Conn :
          Served(t, c)' /\ tasks[t].shard = shard[c] =>
              \A e \in 1..InTasks : InTask(e, t) /\ c \in due[e] => Settled(e, c)
  BY <1>5 DEF FateInv, ServedSettled
<1> QED
  BY <1>3, <1>5, <1>6, FateKept

(* The task has given c nothing before, so what it gives is new and, since   *)
(* it has all of its batch, after the rest of that batch it has not given.   *)
LEMMA DeliverFate ==
    ASSUME QuietInv, ListInv, FateInv, DueThere', NEW w \in Worker, NEW c \in Conn, Deliver(w, c)
    PROVE  FateInv'
<1> DEFINE t0 == task[w]
           list == tasks[t0].events
<1>1. /\ pc[w] = "run" /\ todo[w] \in SUBSET Conn /\ c \in todo[w] /\ shard[c] = tasks[t0].shard
      /\ todo' = [todo EXCEPT ![w] = todo[w] \ {c}]
      /\ UNCHANGED <<Lists, vars, connections, closed, net>>
      /\ \A d \in Conn \ {c} : given'[d] = given[d] /\ dropped'[d] = dropped[d]
      /\ \/ c \in closed /\ UNCHANGED <<given, dropped>>
         \/ \E n \in 0..Len(list) :
               /\ given' = [given EXCEPT ![c] = given[c] \o SubSeq(list, 1, n)]
               /\ dropped' = [dropped EXCEPT ![c] = dropped[c] \cup Refused(list, n)]
  BY DeliverEffect DEF ListInv
<1>2. /\ todo \in [Worker -> (SUBSET Conn) \cup {None}] /\ given \in [Conn -> Seq(Nat)]
      /\ dropped \in [Conn -> SUBSET Nat]
  BY DEF ListInv, FateTypes
<1>3. UNCHANGED <<tasks, due, closed, InTasks, done, task>>
  BY <1>1 DEF Lists, InTasks, vars
<1>4. t0 \in 1..Len(tasks) /\ list \in Seq(Nat) /\ Len(list) \in Nat
  BY <1>1, TaskAtHand DEF ListInv
<1>5. ASSUME NEW t, NEW d
      PROVE  Served(t, d)' <=> Served(t, d) \/ (t = t0 /\ d = c)
  <2>1. todo'[w] = todo[w] \ {c} /\ \A v \in Worker \ {w} : todo'[v] = todo[v]
    BY <1>1, <1>2
  <2>2. todo'[w] # None /\ todo[w] # None
    BY <1>1, <2>1, ServerProcessAssumption
  <2>3. Served(t, d)' <=> \/ t \in done \/ (task[w] = t /\ d \notin todo[w] \ {c})
                          \/ \E v \in Worker \ {w} : task[v] = t /\ todo[v] # None /\ d \notin todo[v]
    BY <1>3, <2>1, <2>2 DEF Served
  <2>4. Served(t, d) <=> \/ t \in done \/ (task[w] = t /\ d \notin todo[w])
                         \/ \E v \in Worker \ {w} : task[v] = t /\ todo[v] # None /\ d \notin todo[v]
    BY <2>2 DEF Served
  <2> QED
    BY <2>3, <2>4
<1>6. ~Served(t0, c)
  <2>1. t0 \in Task /\ t0 # 0 /\ t0 \notin done
    <3>1. t0 \in Task /\ t0 # 0
      BY <1>1 DEF QuietInv, OnceInv, EachTaskOnce, TypeOK, TaskInHand
    <3>2. t0 \in Taken
      BY <3>1 DEF Taken
    <3> QED
      BY <3>1, <3>2 DEF QuietInv, OnceInv, EachTaskOnce
  <2>2. \A v \in Worker : task[v] = t0 => v = w
    BY <2>1 DEF QuietInv, OnceInv, EachTaskOnce
  <2> QED
    BY <1>1, <2>1, <2>2 DEF Served
<1>7. \A i \in 1..Len(given[c]) : ~InTask(given[c][i], t0)
  BY <1>1, <1>4, <1>6, GivenByOne DEF FateInv
<1>8. CASE c \in closed /\ UNCHANGED <<given, dropped>>
  <2>1. \A t \in 1..Len(tasks), d \in Conn :
            Served(t, d)' /\ tasks[t].shard = shard[d] =>
                \A e \in 1..InTasks : InTask(e, t) /\ d \in due[e] => Settled(e, d)
    BY <1>5, <1>8 DEF FateInv, ServedSettled, Settled
  <2>2. \A t \in 1..Len(tasks), d \in Conn : Served(t, d) => Served(t, d)'
    BY <1>5
  <2> HIDE DEF t0, list
  <2> QED
    BY <1>3, <1>8, <2>1, <2>2, FateKept
<1>9. ASSUME NEW n \in 0..Len(list),
             given' = [given EXCEPT ![c] = given[c] \o SubSeq(list, 1, n)],
             dropped' = [dropped EXCEPT ![c] = dropped[c] \cup Refused(list, n)]
      PROVE  FateInv'
  <2> DEFINE old == given[c]
             new == given'[c]
  <2> HIDE DEF t0, list
  <2>1. /\ new = old \o SubSeq(list, 1, n) /\ dropped'[c] = dropped[c] \cup Refused(list, n)
        /\ old \in Seq(Nat) /\ Len(old) \in Nat
    BY <1>2, <1>9
  <2>2. /\ new \in Seq(Nat) /\ Len(new) = Len(old) + n
        /\ \A i \in 1..Len(old) : new[i] = old[i]
        /\ \A i \in 1..n : new[Len(old) + i] = list[i]
    <3> HIDE DEF old
    <3> DEFINE r == old \o SubSeq(list, 1, n)
    <3>1. /\ r \in Seq(Nat) /\ Len(r) = Len(old) + n
          /\ \A i \in 1..Len(old) : r[i] = old[i]
          /\ \A i \in 1..n : r[Len(old) + i] = list[i]
      BY <1>4, <2>1, Appended
    <3>2. new = r
      BY <2>1
    <3> HIDE DEF r, new
    <3> QED
      BY <3>1, <3>2
  <2>3. ASSUME NEW i \in 1..Len(new), i \notin 1..Len(old)
        PROVE  /\ i - Len(old) \in 1..n /\ i - Len(old) \in 1..Len(list)
               /\ new[i] = list[i - Len(old)]
    <3>1. i - Len(old) \in 1..n /\ i = Len(old) + (i - Len(old))
      BY <1>4, <1>9, <2>1, <2>2, <2>3
    <3> QED
      BY <1>4, <1>9, <2>2, <3>1
  <2>4. \A k \in 1..Len(list) : InTask(list[k], t0)
    BY DEF InTask, Within, list
  <2>5. \A e, d : Settled(e, d) /\ d \in Conn => Settled(e, d)'
    <3> SUFFICES ASSUME NEW e, NEW d \in Conn, Settled(e, d) PROVE Settled(e, d)'
      OBVIOUS
    <3>1. CASE d = c
      <4>1. \A i \in 1..Len(old) : i \in 1..Len(new)
        BY <1>9, <2>1, <2>2
      <4> QED
        BY <1>3, <2>1, <2>2, <3>1, <4>1 DEF Settled, Within
    <3>2. CASE d # c
      BY <1>1, <1>3, <3>2 DEF Settled, Within
    <3> QED
      BY <3>1, <3>2
  <2>6. GivenServed'
    <3> SUFFICES ASSUME NEW d \in Conn, NEW i \in 1..Len(given'[d]), NEW e, e = given'[d][i]
                 PROVE  \E t \in 1..Len(tasks) : tasks[t].shard = shard[d] /\ InTask(e, t) /\ Served(t, d)'
      BY <1>3 DEF GivenServed, InTask
    <3>1. ASSUME NEW k \in 1..Len(given[d]), e = given[d][k]
          PROVE  \E t \in 1..Len(tasks) : tasks[t].shard = shard[d] /\ InTask(e, t) /\ Served(t, d)'
      BY <1>5, <3>1 DEF FateInv, GivenServed
    <3>2. CASE d # c
      BY <1>1, <3>1, <3>2
    <3>3. CASE d = c /\ i \in 1..Len(old)
      BY <2>2, <3>1, <3>3
    <3>4. CASE d = c /\ i \notin 1..Len(old)
      <4>1. InTask(e, t0)
        BY <2>3, <2>4, <3>4
      <4> QED
        BY <1>1, <1>4, <1>5, <3>4, <4>1
    <3> QED
      BY <3>2, <3>3, <3>4
  <2>7. ServedSettled'
    <3> SUFFICES ASSUME NEW t \in 1..Len(tasks), NEW d \in Conn, Served(t, d)', tasks[t].shard = shard[d],
                        NEW e \in 1..InTasks, InTask(e, t), d \in due[e]
                 PROVE  Settled(e, d)'
      BY <1>3 DEF ServedSettled, InTask
    <3>1. CASE Served(t, d)
      BY <2>5, <3>1 DEF FateInv, ServedSettled
    <3>2. CASE t = t0 /\ d = c
      <4>1. PICK k \in 1..Len(list) : list[k] = e
        BY <3>2 DEF InTask, Within, list
      <4>2. CASE k <= n
        <5>1. Len(old) + k \in 1..Len(new) /\ k \in 1..n
          <6> HIDE DEF old, new
          <6>1. k \in 1..n /\ n \in Nat
            BY <1>4, <1>9, <4>2
          <6> QED
            BY <2>1, <2>2, <6>1
        <5>2. new[Len(old) + k] = e
          BY <2>2, <4>1, <5>1
        <5> QED
          BY <3>2, <5>1, <5>2 DEF Settled, Within
      <4>3. CASE k > n
        <5>1. k \in n + 1..Len(list)
          BY <1>4, <1>9, <4>3
        <5>2. e \in Refused(list, n)
          BY <4>1, <5>1 DEF Refused
        <5> QED
          BY <2>1, <3>2, <5>2 DEF Settled
      <4> QED
        BY <1>4, <1>9, <4>2, <4>3
    <3> QED
      BY <1>5, <3>1, <3>2
  <2>8. OrderKept'
    <3> SUFFICES ASSUME NEW d \in Conn, NEW i \in 1..Len(given'[d]), NEW j \in 1..Len(given'[d]), i < j,
                        NEW e, e = given'[d][i], NEW f, f = given'[d][j]
                 PROVE  e # f /\ (e > f => ~\E t \in 1..Len(tasks) : InTask(e, t) /\ InTask(f, t))
      BY <1>3 DEF OrderKept, InTask
    <3>1. CASE d # c
      BY <1>1, <3>1 DEF FateInv, OrderKept
    <3>2. CASE d = c /\ j \in 1..Len(old)
      <4>1. i \in 1..Len(old)
        BY <2>1, <2>2, <3>2
      <4>2. i \in 1..Len(given[c]) /\ j \in 1..Len(given[c]) /\ e = given[c][i] /\ f = given[c][j]
        BY <2>2, <3>2, <4>1
      <4> QED
        BY <4>2 DEF FateInv, OrderKept
    <3>3. CASE d = c /\ j \notin 1..Len(old) /\ i \in 1..Len(old)
      <4>1. InTask(f, t0) /\ ~InTask(e, t0)
        BY <1>7, <2>2, <2>3, <2>4, <3>3
      <4>2. ASSUME NEW t \in 1..Len(tasks), InTask(e, t), InTask(f, t)
            PROVE  FALSE
        <5>1. f \in 1..InTasks
          BY <4>2, InTaskRange DEF ListInv, TasksInv
        <5>2. tasks[t].events = tasks[t0].events
          BY <1>4, <4>1, <4>2, <5>1 DEF ListInv, TasksInv, TasksOfABatch
        <5> QED
          BY <4>1, <4>2, <5>2 DEF InTask
      <4> QED
        BY <4>1, <4>2
    <3>4. CASE d = c /\ j \notin 1..Len(old) /\ i \notin 1..Len(old)
      <4>1. /\ i - Len(old) \in 1..Len(list) /\ e = list[i - Len(old)]
            /\ j - Len(old) \in 1..Len(list) /\ f = list[j - Len(old)]
        BY <2>3, <3>4
      <4>2. i - Len(old) < j - Len(old)
        BY <2>1, <2>2, <3>4
      <4>3. e < f /\ e \in Nat /\ f \in Nat
        <5>1. /\ \A a \in 1..Len(list) : list[a] \in 1..InTasks
              /\ \A a, b \in 1..Len(list) : a < b => list[a] < list[b]
          BY <1>4 DEF ListInv, TasksInv, TaskEvents, list
        <5>2. list[i - Len(old)] < list[j - Len(old)]
          BY <4>1, <4>2, <5>1
        <5> QED
          BY <4>1, <5>1, <5>2
      <4> QED
        BY <4>3
    <3> QED
      BY <3>1, <3>2, <3>3, <3>4
  <2> QED
    BY <2>6, <2>7, <2>8 DEF FateInv
<1> HIDE DEF list
<1> QED
  BY <1>1, <1>8, <1>9

(* Each step keeps the promises to the clients.                              *)
LEMMA FateStep ==
    ASSUME QuietInv, ListInv, ListInv', FateInv, [ServerNext]_serverVars
    PROVE  FateInv'
<1>1. DueThere'
  BY DueThereStep DEF FateInv
<1>2. /\ due \in Seq(SUBSET Conn) /\ InTasks \in Nat /\ InTasks <= Len(due) /\ Len(due) \in Nat
      /\ todo \in [Worker -> (SUBSET Conn) \cup {None}]
  BY NumberedFacts DEF ListInv, ListTypes, FateTypes
<1>3. ASSUME UNCHANGED <<tasks, todo, given, dropped>>, closed \subseteq closed', AtWorkStays,
             InTasks' = InTasks, due' = due
      PROVE  FateInv'
  BY <1>1, <1>3, FateIdle
<1>4. ~PushTasks => InTasks' = InTasks /\ UNCHANGED tasks
  BY NumberedStep DEF ListInv
<1>5. CASE (Idle \/ TakeQueue \/ Stop \/ \E c \in Conn : Closing(c) \/ Accept(c)) /\ ~PushTasks
  <2>1. UNCHANGED <<todo, given, dropped, due>> /\ closed \subseteq closed' /\ AtWorkStays
    BY <1>5 DEF Idle, TakeQueue, Stop, Closing, CloseConn, Accept, AtWorkStays, Lists, Fates, poolVars, vars,
           queueVars, connVars, fateVars
  <2> QED
    BY <1>3, <1>4, <1>5, <2>1
<1>6. CASE BroadcastQueue
  <2>1. /\ due' = Append(due, connections) /\ UNCHANGED <<todo, given, dropped, closed, tasks>> /\ AtWorkStays
    BY <1>6 DEF BroadcastQueue, AtWorkStays, poolVars, vars, taskVars, connVars, fateVars
  <2>2. InTasks' = InTasks
    <3>1. /\ global_queue_' = Append(global_queue_, Len(due) + 1) /\ batch' = batch
          /\ global_queue_ \in Seq(Nat) /\ Len(global_queue_) \in Nat /\ Len(batch) \in Nat
      BY <1>6 DEF BroadcastQueue, taskVars, ListInv, ListTypes
    <3>2. Len(due') = Len(due) + 1 /\ Len(global_queue_') = Len(global_queue_) + 1
      BY <1>2, <2>1, <3>1
    <3> QED
      BY <1>2, <3>1, <3>2 DEF InTasks
  <2>3. \A e \in 1..InTasks : due'[e] = due[e]
    BY <1>2, <2>1
  <2> QED
    BY <1>1, <2>1, <2>2, <2>3, FateIdle
<1> QED
  BY <1>1, <1>5, <1>6, PushFate, SnapshotFate, FinishFate, DeliverFate, ServerCases

ServerInv == QuietInv /\ ServerTypes /\ QueueInOrder /\ ListInv /\ FateInv

(* All of it holds at the start ...                                          *)
LEMMA ServerInvInit == ServerInit => ServerInv
<1> SUFFICES ASSUME ServerInit PROVE ServerInv
  OBVIOUS
<1>1. QuietInv
  BY QuietInit
<1>2. ServerTypes
  BY DEF ServerInit, ServerTypes
<1>3. QueueInOrder /\ pushed = 0
  BY DEF ServerInit, Init, QueueInOrder
<1>4. /\ due = <<>> /\ global_queue_ = <<>> /\ batch = <<>> /\ tasks = <<>>
      /\ todo = [w \in Worker |-> None] /\ connections = {} /\ closed = {}
      /\ given = [c \in Conn |-> <<>>] /\ dropped = [c \in Conn |-> {}]
  BY DEF ServerInit
<1>5. ListTypes
  BY <1>3, <1>4 DEF ListTypes
<1>6. FateTypes
  BY <1>4 DEF FateTypes
<1>7. Numbered /\ InTasks = 0 /\ Len(tasks) = 0
  <2>1. Len(due) = 0 /\ Len(global_queue_) = 0 /\ Len(batch) = 0 /\ Len(tasks) = 0 /\ 1..0 = {}
    BY <1>4
  <2>2. InTasks = 0
    BY <2>1 DEF InTasks
  <2>3. /\ \A i \in 1..Len(global_queue_) : global_queue_[i] = Len(due) - Len(global_queue_) + i
        /\ \A i \in 1..Len(batch) : batch[i] = InTasks + i
    BY <2>1
  <2> QED
    BY <1>4, <2>1, <2>2, <2>3 DEF Numbered
<1>8. TasksInv
  BY <1>7 DEF TasksInv, TaskEvents, TasksOrdered, TasksCover, TasksOfABatch
<1>9. FateInv
  BY <1>4, <1>7 DEF FateInv, DueThere, GivenServed, ServedSettled, OrderKept
<1> QED
  BY <1>1, <1>2, <1>3, <1>5, <1>6, <1>7, <1>8, <1>9 DEF ServerInv, ListInv

(* ... is kept by every step ...                                             *)
LEMMA ServerInvNext == ServerInv /\ [ServerNext]_serverVars => ServerInv'
<1> SUFFICES ASSUME ServerInv, [ServerNext]_serverVars PROVE ServerInv'
  OBVIOUS
<1>1. QuietInv' /\ ServerTypes'
  BY QuietStep, ServerTypesStep DEF ServerInv
<1>2. TypeOK /\ [Next]_vars
  BY PoolSteps DEF ServerInv, QuietInv, OnceInv, EachTaskOnce
<1>3. QueueInOrder'
  BY <1>2, QueueInOrderStep DEF ServerInv
<1>4. ListTypes' /\ FateTypes'
  BY ListTypesStep, FateTypesStep DEF ServerInv, ListInv
<1>5. Numbered' /\ TasksInv'
  BY <1>4, NumberedStep, TasksInvStep DEF ServerInv, ListInv
<1>6. ListInv'
  BY <1>4, <1>5 DEF ListInv
<1>7. FateInv'
  BY <1>6, FateStep DEF ServerInv
<1> QED
  BY <1>1, <1>3, <1>6, <1>7 DEF ServerInv

(* ... and so always holds.                                                  *)
LEMMA ServerInvInvariant == ServerSpec => []ServerInv
BY ServerInvInit, ServerInvNext, PTL DEF ServerSpec

(* The types, and that a worker only holds clients of its task's shard.      *)
THEOREM ServerTypeCorrect == ServerSpec => []ServerTypeOK
<1>1. ServerInv => ServerTypeOK
  BY DEF ServerInv, QuietInv, OnceInv, EachTaskOnce, ServerTypes, ListInv, ListTypes, FateTypes, ServerTypeOK
<1> QED
  BY <1>1, ServerInvInvariant, PTL

(* The tasks of a shard are taken in their order, so an earlier broadcast is *)
(* settled or in the hands of a worker.                                      *)
LEMMA LateOnlyInHandsFollows == ServerInv => LateOnlyInHands
<1> SUFFICES ASSUME ServerInv PROVE LateOnlyInHands
  OBVIOUS
<1> USE DEF ServerInv
<1> SUFFICES ASSUME NEW c \in Conn, NEW i \in 1..Len(due), NEW j \in 1..Len(due), i < j, c \in due[i],
                    NEW k \in 1..Len(given[c]), given[c][k] = j
             PROVE  \/ Settled(i, c)
                    \/ \E w \in Worker : task[w] # 0 /\ Within(i, tasks[task[w]].events)
  BY DEF LateOnlyInHands, Within
<1>1. PICK t \in 1..Len(tasks) : tasks[t].shard = shard[c] /\ InTask(j, t) /\ Served(t, c)
  BY DEF FateInv, GivenServed
<1>2. j \in 1..InTasks /\ InTasks \in Nat /\ Len(tasks) \in Nat /\ Len(tasks) = pushed
  BY <1>1, InTaskRange, NumberedFacts DEF ListInv, ListTypes, TasksInv
<1>3. i \in 1..InTasks /\ shard[c] \in 1..NUM_SHARDS
  BY <1>2, ServerProcessAssumption
<1>4. PICK u \in 1..Len(tasks) : tasks[u].shard = shard[c] /\ InTask(i, u)
  BY <1>3 DEF ListInv, TasksInv, TasksCover
<1>5. u <= t
  <2>1. ~(t < u)
    BY <1>1, <1>2, <1>3, <1>4 DEF ListInv, TasksInv, TasksOrdered
  <2> QED
    BY <1>2, <2>1
<1>6. t \in Taken \cup done
  <2>1. t \in Task
    BY <1>2, ThreadPoolAssumption DEF QuietInv, OnceInv, EachTaskOnce, TypeOK, Task
  <2> QED
    BY <1>1, <2>1 DEF Served, Taken
<1>7. u \in Taken \cup done
  BY <1>2, <1>5, <1>6, TakenInOrder DEF QuietInv, OnceInv
<1>8. CASE u \in done
  <2>1. Served(u, c)
    BY <1>8 DEF Served
  <2> QED
    BY <1>3, <1>4, <2>1 DEF FateInv, ServedSettled
<1>9. CASE u \in Taken
  <2>1. PICK w \in Worker : task[w] = u
    BY <1>9 DEF Taken
  <2>2. task[w] # 0
    BY <1>2, <2>1
  <2> QED
    BY <1>4, <2>1, <2>2 DEF InTask
<1> QED
  BY <1>7, <1>8, <1>9

(* A broadcast overtakes an earlier one on its way to a client only while a  *)
(* worker has the earlier one in its hands, or when the earlier one was      *)
(* refused or the client is closed.                                          *)
THEOREM LateOnlyInHandsHolds == ServerSpec => []LateOnlyInHands
BY LateOnlyInHandsFollows, ServerInvInvariant, PTL

(* No client gets a broadcast twice, those that the reactor took together    *)
(* arrive in the order in which they were made, and others change places     *)
(* only in the hands of the workers.                                         *)
THEOREM OnceAndInOrderHolds == ServerSpec => []OnceAndInOrder
<1>1. ServerInv => OnceAndInOrder
  BY LateOnlyInHandsFollows
     DEF ServerInv, QuietInv, OnceInv, EachTaskOnce, ServerTypes, ListInv, ListTypes, FateTypes, ServerTypeOK,
         FateInv, OrderKept, InTask, OnceAndInOrder
<1> QED
  BY <1>1, ServerInvInvariant, PTL
-----------------------------------------------------------------------------
(* The server implements the broadcasts of Broadcast.  The invariant above   *)
(* says where what was given comes from; the same is needed of what was      *)
(* refused, and that the reactor looks at a queue that is not empty.         *)
FromItsTask(e, c) ==
    \E t \in 1..Len(tasks) : tasks[t].shard = shard[c] /\ InTask(e, t) /\ Served(t, c)

DroppedServed == \A c \in Conn : \A e \in dropped[c] : FromItsTask(e, c) /\ ~Within(e, given[c])

WakeInv == global_queue_ # <<>> => main \in {"logic", "wake"} /\ WakeupComes

WayInv == ServerInv /\ DroppedServed /\ WakeInv

(* A broadcast is in one task of each shard.                                 *)
LEMMA OneTask ==
    ASSUME ListInv, NEW t \in 1..Len(tasks), NEW u \in 1..Len(tasks), tasks[t].shard = tasks[u].shard,
           NEW e, InTask(e, t), InTask(e, u)
    PROVE  t = u
<1>1. e \in 1..InTasks /\ InTasks \in Nat /\ Len(tasks) \in Nat
  BY InTaskRange, NumberedFacts DEF ListInv, TasksInv
<1>2. ~(t < u) /\ ~(u < t)
  BY <1>1 DEF ListInv, TasksInv, TasksOrdered
<1> QED
  BY <1>1, <1>2

(* A task and its events stay, and it does not come back to a client that it *)
(* is done with.                                                             *)
LEMMA TasksStay ==
    ASSUME QuietInv, ListInv, [ServerNext]_serverVars
    PROVE  /\ Len(tasks) <= Len(tasks') /\ Len(tasks) \in Nat /\ Len(tasks') \in Nat
           /\ \A t \in 1..Len(tasks) : /\ t \in 1..Len(tasks') /\ tasks'[t].shard = tasks[t].shard
                                       /\ \A e : InTask(e, t)' <=> InTask(e, t)
<1>1. ListTypes /\ ListTypes' /\ Numbered /\ TaskEvents /\ TypeOK
  BY ListTypesStep DEF ListInv, TasksInv, QuietInv, OnceInv, EachTaskOnce
<1>2. CASE PushTasks
  <2>1. /\ Len(tasks) = pushed /\ Len(tasks') = pushed' /\ pushed \in Nat /\ pushed' = pushed + NUM_SHARDS
        /\ NUM_SHARDS \in Nat
    BY <1>1, <1>2, NewTasks, ServerProcessAssumption DEF ListTypes
  <2>2. \A t \in 1..pushed : tasks'[t] = tasks[t]
    BY <1>1, <1>2, NewTasks
  <2>3. \A t \in 1..pushed : t \in 1..pushed' /\ tasks'[t].shard = tasks[t].shard
    BY <2>1, <2>2
  <2>4. \A t \in 1..pushed : \A e : InTask(e, t)' <=> InTask(e, t)
    BY <2>2 DEF InTask
  <2> QED
    BY <2>1, <2>3, <2>4
<1>3. CASE ~PushTasks
  <2>1. UNCHANGED tasks
    BY <1>1, <1>3, NumberedStep
  <2>2. Len(tasks) \in Nat
    BY <1>1 DEF ListTypes
  <2> QED
    BY <2>1, <2>2 DEF InTask
<1> QED
  BY <1>2, <1>3

(* Neither does one that has ended run again.                                *)
LEMMA ServedStays ==
    ASSUME QuietInv, ListInv, [ServerNext]_serverVars, NEW t, NEW c, Served(t, c)
    PROVE  Served(t, c)'
<1>1. FateTypes /\ ListTypes /\ todo \in [Worker -> (SUBSET Conn) \cup {None}] /\ TypeOK
  BY DEF ListInv, FateTypes, QuietInv, OnceInv, EachTaskOnce
<1>2. ASSUME todo' = todo, AtWorkStays
      PROVE  Served(t, c)'
  BY <1>2 DEF Served, AtWorkStays
<1>3. CASE Idle \/ BroadcastQueue \/ TakeQueue \/ PushTasks \/ Stop \/ \E d \in Conn : Closing(d) \/ Accept(d)
  <2>1. todo' = todo /\ AtWorkStays
    BY <1>3 DEF Idle, BroadcastQueue, TakeQueue, PushTasks, push_batch, Stop, Closing, Accept, Fates, AtWorkStays,
           poolVars, vars
  <2> QED
    BY <1>2, <2>1
<1>4. ASSUME NEW w \in Worker, Snapshot(w)
      PROVE  Served(t, c)'
  <2>1. todo[w] = None /\ UNCHANGED <<done, task>>
    BY <1>4 DEF Snapshot, poolVars, vars
  <2>2. \A v \in Worker \ {w} : todo'[v] = todo[v]
    BY <1>1, <1>4 DEF Snapshot
  <2> QED
    BY <2>1, <2>2 DEF Served
<1>5. ASSUME NEW w \in Worker, FinishTask(w)
      PROVE  Served(t, c)'
  <2>1. done' = done \cup {task[w]} /\ task' = [task EXCEPT ![w] = 0] /\ todo' = [todo EXCEPT ![w] = None]
    BY <1>5 DEF FinishTask, RunTask
  <2>2. \A v \in Worker \ {w} : todo'[v] = todo[v] /\ task'[v] = task[v]
    BY <1>1, <2>1 DEF TypeOK
  <2> QED
    BY <2>1, <2>2 DEF Served
<1>6. ASSUME NEW w \in Worker, NEW d \in Conn, Deliver(w, d)
      PROVE  Served(t, c)'
  <2>1. UNCHANGED vars /\ todo[w] \in SUBSET Conn /\ todo' = [todo EXCEPT ![w] = todo[w] \ {d}]
    BY <1>1, <1>6, DeliverEffect
  <2>2. todo'[w] = todo[w] \ {d} /\ todo'[w] # None /\ \A v \in Worker \ {w} : todo'[v] = todo[v]
    BY <1>1, <2>1, ServerProcessAssumption
  <2> QED
    BY <2>1, <2>2 DEF Served, vars
<1> QED
  BY <1>3, <1>4, <1>5, <1>6, ServerCases

(* A delivery: what is new to c, given or refused, is what the task has, all *)
(* of it is new, and nothing of it is both.                                  *)
LEMMA DeliverIs ==
    ASSUME WayInv, NEW w \in Worker, NEW c \in Conn, Deliver(w, c)
    PROVE  /\ UNCHANGED <<due, tasks, closed>> /\ dropped' \in [Conn -> SUBSET Nat]
           /\ task[w] \in 1..Len(tasks) /\ tasks[task[w]].shard = shard[c]
           /\ \A d \in Conn : /\ Len(given[d]) <= Len(given'[d])
                              /\ \A i \in 1..Len(given[d]) : given'[d][i] = given[d][i]
                              /\ dropped[d] \subseteq dropped'[d]
           /\ \A d \in Conn \ {c} : given'[d] = given[d] /\ dropped'[d] = dropped[d]
           /\ \A e : InTask(e, task[w]) => ~Within(e, given[c]) /\ e \notin dropped[c]
           /\ \A e : Within(e, given'[c]) => Within(e, given[c]) \/ (c \notin closed /\ InTask(e, task[w]))
           /\ \A e : e \in dropped'[c] => e \in dropped[c] \/ (c \notin closed /\ InTask(e, task[w]))
           /\ Served(task[w], c)'
           /\ \A e \in dropped'[c] : ~Within(e, given'[c])
<1> DEFINE t0 == task[w]
           list == tasks[t0].events
<1>0. QuietInv /\ ListInv /\ ListTypes /\ FateTypes /\ FateInv
  BY DEF WayInv, ServerInv, ListInv
<1>1. /\ pc[w] = "run" /\ todo[w] \in SUBSET Conn /\ c \in todo[w] /\ shard[c] = tasks[t0].shard
      /\ todo' = [todo EXCEPT ![w] = todo[w] \ {c}]
      /\ UNCHANGED <<Lists, vars, connections, closed, net>>
      /\ \A d \in Conn \ {c} : given'[d] = given[d] /\ dropped'[d] = dropped[d]
      /\ \/ c \in closed /\ UNCHANGED <<given, dropped>>
         \/ \E n \in 0..Len(list) :
               /\ given' = [given EXCEPT ![c] = given[c] \o SubSeq(list, 1, n)]
               /\ dropped' = [dropped EXCEPT ![c] = dropped[c] \cup Refused(list, n)]
  BY <1>0, DeliverEffect
<1>2. /\ todo \in [Worker -> (SUBSET Conn) \cup {None}] /\ given \in [Conn -> Seq(Nat)]
      /\ dropped \in [Conn -> SUBSET Nat]
  BY <1>0 DEF FateTypes
<1>3. UNCHANGED <<tasks, due, closed, done, task>>
  BY <1>1 DEF Lists, vars
<1>4. t0 \in 1..Len(tasks) /\ list \in Seq(Nat) /\ Len(list) \in Nat
  BY <1>0, <1>1, TaskAtHand
<1>5. Served(t0, c)'
  <2>1. todo'[w] = todo[w] \ {c} /\ todo'[w] # None
    BY <1>1, <1>2, ServerProcessAssumption
  <2> QED
    BY <1>3, <2>1 DEF Served
<1>6. ~Served(t0, c)
  <2>1. t0 \in Task /\ t0 # 0 /\ t0 \notin done
    <3>1. t0 \in Task /\ t0 # 0
      BY <1>0, <1>1 DEF QuietInv, OnceInv, EachTaskOnce, TypeOK, TaskInHand
    <3>2. t0 \in Taken
      BY <3>1 DEF Taken
    <3> QED
      BY <1>0, <3>1, <3>2 DEF QuietInv, OnceInv, EachTaskOnce
  <2>2. \A v \in Worker : task[v] = t0 => v = w
    BY <1>0, <2>1 DEF QuietInv, OnceInv, EachTaskOnce
  <2> QED
    BY <1>1, <2>1, <2>2 DEF Served
<1>7. ASSUME NEW e, InTask(e, t0) PROVE ~Within(e, given[c]) /\ e \notin dropped[c]
  <2>1. ~Within(e, given[c])
    BY <1>0, <1>1, <1>4, <1>6, <1>7, GivenByOne DEF FateInv, Within
  <2>2. e \in dropped[c] => FromItsTask(e, c)
    BY DEF WayInv, DroppedServed
  <2>3. ~FromItsTask(e, c)
    <3> SUFFICES ASSUME NEW u \in 1..Len(tasks), tasks[u].shard = shard[c], InTask(e, u), Served(u, c)
                 PROVE  FALSE
      BY DEF FromItsTask
    <3>1. u = t0
      BY <1>0, <1>1, <1>4, <1>7, OneTask
    <3> QED
      BY <1>6, <3>1
  <2> QED
    BY <2>1, <2>2, <2>3
<1>8. \A e \in dropped[c] : ~Within(e, given[c])
  BY DEF WayInv, DroppedServed
<1>9. \A k \in 1..Len(list) : InTask(list[k], t0)
  BY DEF InTask, Within
<1>10. \A a, b \in 1..Len(list) : a < b => list[a] # list[b]
  <2>1. \A a, b \in 1..Len(list) : a < b => list[a] < list[b]
    BY <1>0, <1>4 DEF ListInv, TasksInv, TaskEvents
  <2>2. \A a \in 1..Len(list) : list[a] \in Nat
    BY <1>4
  <2> HIDE DEF list
  <2> QED
    BY <2>1, <2>2
<1> DEFINE Fine(g, x) ==
              /\ Len(given[c]) <= Len(g) /\ \A i \in 1..Len(given[c]) : g[i] = given[c][i]
              /\ dropped[c] \subseteq x /\ x \subseteq Nat
              /\ \A e : Within(e, g) => Within(e, given[c]) \/ (c \notin closed /\ InTask(e, t0))
              /\ \A e : e \in x => e \in dropped[c] \/ (c \notin closed /\ InTask(e, t0))
              /\ \A e \in x : ~Within(e, g)
<1>11. ASSUME c \in closed
       PROVE  Fine(given'[c], dropped'[c]) /\ dropped' \in [Conn -> SUBSET Nat]
  <2>1. UNCHANGED <<given, dropped>>
    BY <1>11 DEF Deliver, fateVars
  <2>2. given[c] \in Seq(Nat) /\ Len(given[c]) \in Nat /\ dropped[c] \subseteq Nat
    BY <1>2
  <2>3. Fine(given[c], dropped[c])
    BY <1>8, <2>2
  <2>4. given'[c] = given[c] /\ dropped'[c] = dropped[c] /\ dropped' \in [Conn -> SUBSET Nat]
    BY <1>2, <2>1
  <2> HIDE DEF Fine
  <2> QED
    BY <2>3, <2>4
<1> HIDE DEF list
<1>12. ASSUME c \notin closed, NEW n \in 0..Len(list),
              given' = [given EXCEPT ![c] = given[c] \o SubSeq(list, 1, n)],
              dropped' = [dropped EXCEPT ![c] = dropped[c] \cup Refused(list, n)]
       PROVE  Fine(given'[c], dropped'[c])
  <2> DEFINE old == given[c]
             new == old \o SubSeq(list, 1, n)
             out == dropped[c] \cup Refused(list, n)
  <2>1. given'[c] = new /\ dropped'[c] = out /\ old \in Seq(Nat) /\ Len(old) \in Nat
    BY <1>2, <1>12
  <2>2. /\ new \in Seq(Nat) /\ Len(new) = Len(old) + n
        /\ \A i \in 1..Len(old) : new[i] = old[i]
        /\ \A i \in 1..n : new[Len(old) + i] = list[i]
    <3> HIDE DEF old
    <3> QED
      BY <1>4, <2>1, Appended
  <2> HIDE DEF new, old
  <2>3. ASSUME NEW e, Within(e, new)
        PROVE  Within(e, old) \/ \E k \in 1..n : list[k] = e
    <3>1. PICK i \in 1..Len(new) : new[i] = e
      BY <2>3 DEF Within
    <3>2. CASE i <= Len(old)
      <4>1. i \in 1..Len(old)
        BY <2>1, <3>2
      <4> QED
        BY <2>2, <3>1, <4>1 DEF Within
    <3>3. CASE i > Len(old)
      <4>1. i - Len(old) \in 1..n /\ i = Len(old) + (i - Len(old))
        BY <1>4, <1>12, <2>1, <2>2, <3>3
      <4>2. list[i - Len(old)] = e
        BY <2>2, <3>1, <4>1
      <4> QED
        BY <4>1, <4>2
    <3> QED
      BY <2>1, <2>2, <3>2, <3>3
  <2>4. \A k \in 1..n : k \in 1..Len(list)
    BY <1>4, <1>12
  <2>5. \A k \in n + 1..Len(list) : k \in 1..Len(list) /\ \A j \in 1..n : j < k
    BY <1>4, <1>12
  <2>6. Refused(list, n) = {list[k] : k \in n + 1..Len(list)}
    BY DEF Refused
  <2>7. \A e : Within(e, new) => Within(e, old) \/ InTask(e, t0)
    BY <1>9, <2>3, <2>4
  <2>8. \A e \in Refused(list, n) : e \in Nat /\ InTask(e, t0)
    BY <1>4, <1>9, <2>5, <2>6
  <2>9. \A e \in Refused(list, n) : ~Within(e, new)
    <3> SUFFICES ASSUME NEW k \in n + 1..Len(list), Within(list[k], new) PROVE FALSE
      BY <2>6
    <3>1. ~Within(list[k], old)
      BY <1>7, <1>9, <2>5 DEF old
    <3>2. PICK j \in 1..n : list[j] = list[k]
      BY <2>3, <3>1
    <3> QED
      BY <1>10, <2>4, <2>5, <3>2
  <2>10. \A e \in dropped[c] : ~Within(e, new)
    BY <1>7, <1>8, <2>7 DEF old
  <2>11. Len(old) <= Len(new) /\ dropped[c] \subseteq Nat
    BY <1>2, <1>4, <1>12, <2>1, <2>2
  <2>12. Fine(new, out)
    BY <1>12, <2>2, <2>7, <2>8, <2>9, <2>10, <2>11 DEF old
  <2> QED
    BY <2>1, <2>12
<1>13. ASSUME c \notin closed
       PROVE  Fine(given'[c], dropped'[c]) /\ dropped' \in [Conn -> SUBSET Nat]
  <2> HIDE DEF Fine
  <2>1. PICK n \in 0..Len(list) :
            /\ given' = [given EXCEPT ![c] = given[c] \o SubSeq(list, 1, n)]
            /\ dropped' = [dropped EXCEPT ![c] = dropped[c] \cup Refused(list, n)]
    BY <1>1, <1>13
  <2>2. Fine(given'[c], dropped'[c])
    BY <1>12, <1>13, <2>1
  <2>3. dropped' = [dropped EXCEPT ![c] = dropped'[c]]
    BY <1>2, <2>1
  <2>4. dropped'[c] \subseteq Nat
    BY <2>2 DEF Fine
  <2>5. dropped' \in [Conn -> SUBSET Nat]
    BY <1>2, <2>3, <2>4
  <2> QED
    BY <2>2, <2>5
<1>14. Fine(given'[c], dropped'[c]) /\ dropped' \in [Conn -> SUBSET Nat]
  <2> HIDE DEF Fine
  <2> QED
    BY <1>11, <1>13
<1>15. \A d \in Conn : /\ Len(given[d]) <= Len(given'[d])
                       /\ \A i \in 1..Len(given[d]) : given'[d][i] = given[d][i]
                       /\ dropped[d] \subseteq dropped'[d]
  <2>1. \A d \in Conn : Len(given[d]) \in Nat
    BY <1>2
  <2> QED
    BY <1>1, <1>14, <2>1
<1> QED
  BY <1>1, <1>3, <1>4, <1>5, <1>7, <1>14, <1>15

(* What was refused stays so, and comes from its task.                       *)
LEMMA DroppedServedStep ==
    ASSUME WayInv, [ServerNext]_serverVars
    PROVE  DroppedServed'
<1>0. QuietInv /\ ListInv /\ DroppedServed
  BY DEF WayInv, ServerInv
<1>1. ASSUME NEW e, NEW c \in Conn, FromItsTask(e, c) PROVE FromItsTask(e, c)'
  <2>1. PICK t \in 1..Len(tasks) : tasks[t].shard = shard[c] /\ InTask(e, t) /\ Served(t, c)
    BY <1>1 DEF FromItsTask
  <2>2. t \in 1..Len(tasks') /\ tasks'[t].shard = shard[c] /\ InTask(e, t)'
    BY <1>0, <2>1, TasksStay
  <2>3. Served(t, c)'
    BY <1>0, <2>1, ServedStays
  <2> QED
    BY <2>2, <2>3 DEF FromItsTask
<1>2. CASE UNCHANGED <<given, dropped>>
  BY <1>0, <1>1, <1>2 DEF DroppedServed, Within
<1>3. ASSUME NEW w \in Worker, NEW c \in Conn, Deliver(w, c)
      PROVE  DroppedServed'
  <2> SUFFICES ASSUME NEW d \in Conn, NEW e \in dropped'[d]
               PROVE  FromItsTask(e, d)' /\ ~Within(e, given'[d])
    BY DEF DroppedServed, Within
  <2>1. CASE d # c
    <3>1. given'[d] = given[d] /\ dropped'[d] = dropped[d]
      BY <1>3, <2>1, DeliverIs
    <3> QED
      BY <1>0, <1>1, <3>1 DEF DroppedServed
  <2>2. CASE d = c
    <3>1. ~Within(e, given'[d])
      BY <1>3, <2>2, DeliverIs
    <3>2. e \in dropped[d] \/ InTask(e, task[w])
      BY <1>3, <2>2, DeliverIs
    <3>3. CASE e \in dropped[d]
      BY <1>0, <1>1, <3>1, <3>3 DEF DroppedServed
    <3>4. CASE InTask(e, task[w])
      <4>1. PICK t \in 1..Len(tasks) : t = task[w] /\ tasks[t].shard = shard[d] /\ InTask(e, t)
        BY <1>3, <2>2, <3>4, DeliverIs
      <4>2. Served(task[w], d)' /\ UNCHANGED vars
        BY <1>0, <1>3, <2>2, DeliverIs, DeliverEffect DEF ListInv
      <4>3. Served(t, d)'
        BY <4>1, <4>2 DEF Served, vars
      <4>4. t \in 1..Len(tasks') /\ tasks'[t].shard = shard[d] /\ InTask(e, t)'
        BY <1>0, <4>1, TasksStay
      <4> QED
        BY <3>1, <4>3, <4>4 DEF FromItsTask
    <3> QED
      BY <3>2, <3>3, <3>4
  <2> QED
    BY <2>1, <2>2
<1>4. CASE Idle \/ BroadcastQueue \/ TakeQueue \/ PushTasks \/ Stop \/ \E c \in Conn : Closing(c) \/ Accept(c)
  BY <1>2, <1>4 DEF Idle, BroadcastQueue, TakeQueue, PushTasks, Stop, Closing, Accept, Fates, fateVars
<1>5. ASSUME NEW w \in Worker, Snapshot(w) \/ FinishTask(w)
      PROVE  DroppedServed'
  BY <1>2, <1>5 DEF Snapshot, FinishTask, fateVars
<1> QED
  BY <1>0, <1>3, <1>4, <1>5, ServerCases

(* Broadcast tells the reactor after it has queued, and the reactor forgets  *)
(* that it was told only when it is about to look.                           *)
LEMMA WakeStep ==
    ASSUME ServerTypes, WakeInv, [ServerNext]_serverVars
    PROVE  WakeInv'
<1>1. CASE Main \/ UNCHANGED serverVars
  BY <1>1 DEF Main, StartLogger, setup_signalfd, StartPool, StartNet, BroadcastWake, serverVars, processVars,
         queueVars, reactorVars, ServerTypes, WakeInv, WakeupComes
<1>2. CASE EpollWait \/ ReadNotify \/ ReadSignal \/ EventsDone
  BY <1>2 DEF EpollWait, ReadNotify, ReadSignal, EventsDone, EndOfArray, processVars, queueVars,
         ServerTypes, WakeInv, WakeupComes
<1>3. CASE TakeQueue \/ PushTasks \/ NotifyWorkers \/ ShutdownPool \/ Stop
  BY <1>3 DEF TakeQueue, PushTasks, NotifyWorkers, ShutdownPool, Stop, processVars, queueVars, reactorVars,
         WakeInv, WakeupComes
<1>4. CASE Signal \/ BroadcastQueue \/ \E c \in Conn : Accept(c) \/ NetClose(c) \/ WriteFails(c) \/ Close(c)
  BY <1>4 DEF Signal, BroadcastQueue, Accept, NetClose, WriteFails, Close, processVars, queueVars, reactorVars,
         WakeInv, WakeupComes
<1>5. ASSUME NEW w \in Worker, WakesUp(w) \/ Work(w)
      PROVE  WakeInv'
  BY <1>5 DEF WakesUp, Work, PoolStep, Snapshot, Deliver, FinishTask, processVars, queueVars, reactorVars,
         WakeInv, WakeupComes
<1> QED
  BY <1>1, <1>2, <1>3, <1>4, <1>5 DEF ServerNext, Net, Asked

(* Where every broadcast is, at all times.                                   *)
LEMMA WayInvariant == ServerSpec => []WayInv
<1>1. ServerInit => WayInv
  <2> SUFFICES ASSUME ServerInit PROVE WayInv
    OBVIOUS
  <2>1. DroppedServed /\ WakeInv
    BY DEF ServerInit, DroppedServed, WakeInv
  <2> QED
    BY <2>1, ServerInvInit DEF WayInv
<1>2. WayInv /\ [ServerNext]_serverVars => WayInv'
  <2> SUFFICES ASSUME WayInv, [ServerNext]_serverVars PROVE WayInv'
    OBVIOUS
  <2>1. ServerInv'
    BY ServerInvNext DEF WayInv
  <2>2. DroppedServed'
    BY DroppedServedStep
  <2>3. WakeInv'
    BY WakeStep DEF WayInv, ServerInv
  <2> QED
    BY <2>1, <2>2, <2>3 DEF WayInv
<1> QED
  BY <1>1, <1>2, PTL DEF ServerSpec

Sent == 1..Len(due)
PostsMap == [e \in Sent |-> [due |-> due[e], barred |-> {}]]
RefusedMap == {p \in Conn \X Sent : p[2] \in dropped[p[1]]}
OnWayMap == {p \in Conn \X Sent : p[1] \in due[p[2]] \ closed /\ OnItsWay(p[2], p[1])}
Unsettled ==
    {p \in Conn \X Sent : p[1] \in due[p[2]] \ closed /\ ~Within(p[2], given[p[1]]) /\ p[2] \notin dropped[p[1]]}

(* What was given or refused has left the queue and the batch, and is in a   *)
(* task.                                                                     *)
LEMMA SettledInTask ==
    ASSUME WayInv, NEW c \in Conn, NEW e, Within(e, given[c]) \/ e \in dropped[c]
    PROVE  FromItsTask(e, c) /\ e \in 1..InTasks
<1>1. FromItsTask(e, c)
  BY DEF WayInv, ServerInv, FateInv, GivenServed, DroppedServed, FromItsTask, Within
<1>2. e \in 1..InTasks
  BY <1>1, InTaskRange DEF FromItsTask, WayInv, ServerInv, ListInv, TasksInv
<1> QED
  BY <1>1, <1>2

(* What is due to an open client is on its way exactly as long as it is      *)
(* neither given nor refused.                                                *)
LEMMA OnWayIs == WayInv => OnWayMap = Unsettled
<1> SUFFICES ASSUME WayInv PROVE OnWayMap = Unsettled
  OBVIOUS
<1>0. QuietInv /\ ListInv /\ ListTypes /\ Numbered /\ FateInv /\ EachTaskOnce /\ TypeOK
  BY DEF WayInv, ServerInv, ListInv, QuietInv, OnceInv, EachTaskOnce
<1>1. /\ Len(due) \in Nat /\ Len(global_queue_) \in Nat /\ Len(batch) \in Nat /\ InTasks \in Nat
      /\ InTasks = Len(due) - Len(global_queue_) - Len(batch) /\ Len(tasks) = pushed /\ pushed \in Nat
  BY <1>0, NumberedFacts DEF InTasks, ListTypes
<1>2. ASSUME NEW e \in Sent, NEW c \in due[e] \ closed, c \in Conn, ~Within(e, given[c]), e \notin dropped[c]
      PROVE  OnItsWay(e, c)
  <2>1. CASE e > Len(due) - Len(global_queue_)
    <3> DEFINE i == e - (Len(due) - Len(global_queue_))
    <3>1. i \in 1..Len(global_queue_) /\ Len(due) - Len(global_queue_) + i = e
      BY <1>1, <2>1 DEF Sent
    <3> HIDE DEF i
    <3>2. Within(e, global_queue_)
      BY <1>0, <3>1 DEF Numbered, Within
    <3>3. global_queue_ # <<>>
      BY <3>1
    <3> QED
      BY <3>2, <3>3 DEF WayInv, WakeInv, OnItsWay
  <2>2. CASE InTasks < e /\ e <= Len(due) - Len(global_queue_)
    <3> DEFINE i == e - InTasks
    <3>1. i \in 1..Len(batch) /\ InTasks + i = e
      BY <1>1, <2>2 DEF Sent
    <3> HIDE DEF i
    <3>2. Within(e, batch)
      BY <1>0, <3>1 DEF Numbered, Within
    <3> QED
      BY <3>2 DEF OnItsWay
  <2>3. CASE e <= InTasks
    <3>1. e \in 1..InTasks /\ shard[c] \in 1..NUM_SHARDS
      BY <1>1, <1>2, <2>3, ServerProcessAssumption DEF Sent
    <3>2. PICK t \in 1..Len(tasks) : tasks[t].shard = shard[c] /\ InTask(e, t)
      BY <1>0, <3>1 DEF ListInv, TasksInv, TasksCover
    <3>3. ~Served(t, c)
      <4>1. ~Settled(e, c)
        BY <1>2 DEF Settled
      <4> QED
        BY <1>0, <1>2, <3>1, <3>2, <4>1 DEF FateInv, ServedSettled
    <3>4. t \in Queued \cup Taken
      BY <1>0, <1>1, <3>3 DEF EachTaskOnce, Served
    <3>5. CASE t \in Queued
      <4>1. Within(t, task_queue)
        BY <3>5 DEF Queued, Within
      <4> QED
        BY <3>2, <4>1 DEF OnItsWay, InTask
    <3>6. CASE t \in Taken
      <4>1. PICK w \in Worker : task[w] = t
        BY <3>6 DEF Taken
      <4>2. todo[w] # None => c \in todo[w]
        BY <3>3, <4>1 DEF Served
      <4> QED
        BY <3>2, <4>1, <4>2 DEF OnItsWay, InTask
    <3> QED
      BY <3>4, <3>5, <3>6
  <2> QED
    BY <1>1, <2>1, <2>2, <2>3 DEF Sent
<1>3. ASSUME NEW e \in Sent, NEW c \in Conn, OnItsWay(e, c), Within(e, given[c]) \/ e \in dropped[c]
      PROVE  FALSE
  <2>1. FromItsTask(e, c) /\ e \in 1..InTasks
    BY <1>3, SettledInTask
  <2>2. ~Within(e, global_queue_)
    <3> SUFFICES ASSUME NEW i \in 1..Len(global_queue_), global_queue_[i] = e PROVE FALSE
      BY DEF Within
    <3>1. e = Len(due) - Len(global_queue_) + i
      BY <1>0 DEF Numbered
    <3> QED
      BY <1>1, <2>1, <3>1
  <2>3. ~Within(e, batch)
    <3> SUFFICES ASSUME NEW i \in 1..Len(batch), batch[i] = e PROVE FALSE
      BY DEF Within
    <3>1. e = InTasks + i
      BY <1>0 DEF Numbered
    <3> QED
      BY <1>1, <2>1, <3>1
  <2>4. PICK t \in 1..Len(tasks) :
            /\ tasks[t].shard = shard[c] /\ InTask(e, t)
            /\ \/ Within(t, task_queue)
               \/ \E w \in Worker : task[w] = t /\ (todo[w] # None => c \in todo[w])
    BY <1>3, <2>2, <2>3 DEF OnItsWay, InTask
  <2>5. Served(t, c)
    <3>1. PICK u \in 1..Len(tasks) : tasks[u].shard = shard[c] /\ InTask(e, u) /\ Served(u, c)
      BY <2>1 DEF FromItsTask
    <3>2. t = u
      BY <1>0, <2>4, <3>1, OneTask
    <3> QED
      BY <3>1, <3>2
  <2>6. t \in Task /\ t # 0
    BY <1>0, <1>1, ThreadPoolAssumption DEF EachTaskOnce, TypeOK, Task
  <2>7. CASE Within(t, task_queue)
    <3>1. t \in Queued
      BY <2>6, <2>7 DEF Queued, Within
    <3>2. t \notin done /\ t \notin Taken
      BY <1>0, <3>1 DEF EachTaskOnce
    <3> QED
      BY <2>5, <2>6, <3>2 DEF Served, Taken
  <2>8. ASSUME NEW w \in Worker, task[w] = t, todo[w] # None => c \in todo[w]
        PROVE  FALSE
    <3>1. t \in Taken
      BY <2>6, <2>8 DEF Taken
    <3>2. t \notin done /\ \A v \in Worker : task[v] = t => v = w
      BY <1>0, <2>6, <2>8, <3>1 DEF EachTaskOnce
    <3> QED
      BY <2>5, <2>8, <3>2 DEF Served
  <2> QED
    BY <2>4, <2>7, <2>8
<1> QED
  BY <1>2, <1>3 DEF OnWayMap, Unsettled

(* And after a step.                                                         *)
LEMMA OnWayIsThen == WayInv' => OnWayMap' = Unsettled'
<1> DEFINE Agree == OnWayMap = Unsettled
<1>1. WayInv => Agree
  BY OnWayIs
<1>2. WayInv' => Agree'
  <2> HIDE DEF Agree
  <2> QED
    BY <1>1, PTL
<1> QED
  BY <1>2

(* Where nobody speaks, leaves, or is given or refused anything, nothing of  *)
(* it changes.                                                               *)
LEMMA NothingHappens ==
    ASSUME WayInv, WayInv', UNCHANGED <<due, closed, given, dropped>>
    PROVE  UNCHANGED B!broadcastVars
<1>1. Sent' = Sent
  BY DEF Sent
<1>2. PostsMap' = PostsMap /\ RefusedMap' = RefusedMap
  BY <1>1 DEF PostsMap, RefusedMap
<1>3. Unsettled' = Unsettled
  BY <1>1 DEF Unsettled, Within
<1>4. OnWayMap' = OnWayMap
  BY <1>3, OnWayIs, OnWayIsThen
<1> QED
  BY <1>2, <1>4 DEF B!broadcastVars, PostsMap, RefusedMap, OnWayMap, Sent

(* Broadcast speaks.                                                         *)
LEMMA BroadcastSpeaks ==
    ASSUME WayInv, WayInv', BroadcastQueue
    PROVE  B!Speak
<1> DEFINE k == Len(due)
<1>0. ListInv /\ due \in Seq(SUBSET Conn) /\ FateTypes
  BY DEF WayInv, ServerInv, ListInv, ListTypes
<1>1. k \in Nat /\ InTasks \in Nat /\ InTasks <= k
  BY <1>0, NumberedFacts DEF ListInv
<1>2. due' = Append(due, connections) /\ UNCHANGED <<closed, given, dropped>>
  BY DEF BroadcastQueue, connVars, fateVars
<1>3. connections \subseteq Conn \ closed
  BY <1>0 DEF FateTypes
<1>4. /\ Len(due') = k + 1 /\ due'[k + 1] = connections /\ \A e \in 1..k : due'[e] = due[e]
  BY <1>0, <1>2, <1>3, AppendProperties
<1> HIDE DEF k
<1>5. Sent = 1..k /\ Sent' = 1..(k + 1) /\ k + 1 \in Sent' /\ k + 1 \notin Sent
  BY <1>1, <1>4 DEF Sent, k
<1>6. /\ Len(PostsMap) = k /\ Len(PostsMap') = k + 1
      /\ \A e \in 1..k : PostsMap'[e] = PostsMap[e]
      /\ PostsMap'[k + 1] = [due |-> connections, barred |-> {}]
  <2>1. PostsMap = [e \in 1..k |-> [due |-> due[e], barred |-> {}]]
    BY <1>5 DEF PostsMap
  <2>2. PostsMap' = [e \in 1..(k + 1) |-> [due |-> due'[e], barred |-> {}]]
    BY <1>5 DEF PostsMap
  <2>3. Len(PostsMap) = k /\ Len(PostsMap') = k + 1
    BY <1>1, <2>1, <2>2
  <2>4. PostsMap'[k + 1] = [due |-> connections, barred |-> {}]
    BY <1>4, <1>5, <2>2
  <2>5. ASSUME NEW e \in 1..k PROVE PostsMap'[e] = PostsMap[e]
    <3>1. e \in 1..(k + 1) /\ due'[e] = due[e]
      BY <1>1, <1>4
    <3> QED
      BY <2>1, <2>2, <3>1
  <2> QED
    BY <2>3, <2>4, <2>5
<1>7. \A c \in Conn : ~Within(k + 1, given[c]) /\ k + 1 \notin dropped[c]
  <2>1. k + 1 \notin 1..InTasks
    BY <1>1
  <2> QED
    BY <2>1, SettledInTask
<1>8. RefusedMap' = RefusedMap
  BY <1>1, <1>2, <1>5, <1>7 DEF RefusedMap
<1>9. Unsettled' = Unsettled \cup (connections \X {k + 1})
  <2>1. ASSUME NEW c \in Conn, NEW e \in 1..(k + 1)
        PROVE  <<c, e>> \in Unsettled' <=> <<c, e>> \in Unsettled \/ <<c, e>> \in connections \X {k + 1}
    <3>1. CASE e = k + 1
      <4>1. <<c, e>> \in Unsettled' <=> c \in connections
        BY <1>2, <1>3, <1>4, <1>5, <1>7, <3>1 DEF Unsettled, Within
      <4>2. <<c, e>> \notin Unsettled
        BY <1>5, <3>1 DEF Unsettled
      <4> QED
        BY <3>1, <4>1, <4>2
    <3>2. CASE e # k + 1
      <4>1. e \in 1..k
        BY <1>1, <3>2
      <4>2. <<c, e>> \in Unsettled' <=> <<c, e>> \in Unsettled
        BY <1>2, <1>4, <1>5, <4>1 DEF Unsettled, Within
      <4> QED
        BY <3>2, <4>2
    <3> QED
      BY <3>1, <3>2
  <2>2. Unsettled' \subseteq Conn \X (1..(k + 1))
    BY <1>5 DEF Unsettled
  <2>3. Unsettled \cup (connections \X {k + 1}) \subseteq Conn \X (1..(k + 1))
    BY <1>1, <1>3, <1>5 DEF Unsettled
  <2> QED
    BY <2>1, <2>2, <2>3
<1>10. OnWayMap' = OnWayMap \cup (connections \X {k + 1})
  BY <1>9, OnWayIs, OnWayIsThen
<1>11. B!Speak <=>
          /\ Len(PostsMap') = Len(PostsMap) + 1
          /\ \A i \in 1..Len(PostsMap) : PostsMap'[i] = PostsMap[i]
          /\ PostsMap'[Len(PostsMap) + 1].due \subseteq Conn \ (closed \cup PostsMap'[Len(PostsMap) + 1].barred)
          /\ OnWayMap' = OnWayMap \cup (PostsMap'[Len(PostsMap) + 1].due \X {Len(PostsMap) + 1})
          /\ given' = given /\ RefusedMap' = RefusedMap /\ closed' = closed
  BY DEF B!Speak, PostsMap, RefusedMap, OnWayMap, Sent
<1> QED
  BY <1>2, <1>3, <1>6, <1>8, <1>10, <1>11

(* close_conn is the leaving.                                                *)
LEMMA CloseLeaves ==
    ASSUME WayInv, WayInv', NEW c \in Conn, Closing(c)
    PROVE  B!Leave(c)
<1>1. UNCHANGED <<due, given, dropped>> /\ closed' = closed \cup {c}
  BY DEF Closing, CloseConn, Lists
<1>2. Sent' = Sent
  BY <1>1 DEF Sent
<1>3. PostsMap' = PostsMap /\ RefusedMap' = RefusedMap
  BY <1>1, <1>2 DEF PostsMap, RefusedMap
<1>4. Unsettled' = {p \in Unsettled : p[1] # c}
  BY <1>1, <1>2 DEF Unsettled, Within
<1>5. OnWayMap' = {p \in OnWayMap : p[1] # c}
  BY <1>4, OnWayIs, OnWayIsThen
<1> QED
  BY <1>1, <1>3, <1>5 DEF B!Leave, PostsMap, RefusedMap, OnWayMap, Sent

(* A delivery gives.                                                         *)
LEMMA DeliverGives ==
    ASSUME WayInv, WayInv', NEW w \in Worker, NEW c \in Conn, Deliver(w, c)
    PROVE  B!Give
<1>1. /\ UNCHANGED <<due, tasks, closed>> /\ dropped' \in [Conn -> SUBSET Nat]
      /\ task[w] \in 1..Len(tasks) /\ tasks[task[w]].shard = shard[c]
      /\ \A d \in Conn : /\ Len(given[d]) <= Len(given'[d])
                         /\ \A i \in 1..Len(given[d]) : given'[d][i] = given[d][i]
                         /\ dropped[d] \subseteq dropped'[d]
      /\ \A d \in Conn \ {c} : given'[d] = given[d] /\ dropped'[d] = dropped[d]
      /\ \A e : InTask(e, task[w]) => ~Within(e, given[c]) /\ e \notin dropped[c]
      /\ \A e : Within(e, given'[c]) => Within(e, given[c]) \/ (c \notin closed /\ InTask(e, task[w]))
      /\ \A e : e \in dropped'[c] => e \in dropped[c] \/ (c \notin closed /\ InTask(e, task[w]))
      /\ \A e \in dropped'[c] : ~Within(e, given'[c])
  BY DeliverIs
<1>2. Sent' = Sent
  BY <1>1 DEF Sent
<1>3. PostsMap' = PostsMap
  BY <1>1, <1>2 DEF PostsMap
<1>4. \A d \in Conn : /\ Len(given[d]) \in Nat /\ Len(given'[d]) \in Nat
                      /\ \A i, j \in 1..Len(given'[d]) : i < j => given'[d][i] # given'[d][j]
  <2>1. FateTypes /\ FateTypes' /\ OrderKept'
    BY DEF WayInv, ServerInv, ListInv, FateInv
  <2>2. \A d \in Conn : Len(given[d]) \in Nat /\ Len(given'[d]) \in Nat
    BY <2>1 DEF FateTypes
  <2> QED
    BY <2>1, <2>2 DEF OrderKept
<1>5. \A e : InTask(e, task[w]) => e \in Sent
  <2>1. TaskEvents /\ InTasks \in Nat /\ InTasks <= Len(due) /\ Len(due) \in Nat
    BY NumberedFacts DEF WayInv, ServerInv, ListInv, TasksInv
  <2>2. \A e : InTask(e, task[w]) => e \in 1..InTasks
    BY <1>1, <2>1, InTaskRange
  <2> QED
    BY <2>1, <2>2 DEF Sent
<1>6. ASSUME NEW d \in Conn, NEW i \in Len(given[d]) + 1..Len(given'[d])
      PROVE  /\ d \notin closed /\ given'[d][i] \in Sent
             /\ \A j \in 1..i - 1 : given'[d][j] # given'[d][i]
             /\ <<d, given'[d][i]>> \notin RefusedMap'
  <2> PICK e : e = given'[d][i]
    OBVIOUS
  <2>1. i \in 1..Len(given'[d]) /\ \A j \in 1..i - 1 : j \in 1..Len(given'[d]) /\ j < i
    BY <1>4
  <2>2. \A j \in 1..i - 1 : given'[d][j] # e
    BY <1>4, <2>1
  <2>3. Within(e, given'[d])
    BY <2>1 DEF Within
  <2>4. ~Within(e, given[d])
    <3>1. \A j \in 1..Len(given[d]) : j \in 1..i - 1 /\ given[d][j] = given'[d][j]
      BY <1>1, <1>4
    <3> QED
      BY <2>2, <3>1 DEF Within
  <2>5. d = c
    BY <1>1, <2>3, <2>4
  <2>6. d \notin closed /\ e \in Sent
    BY <1>1, <1>5, <2>3, <2>4, <2>5
  <2>7. e \notin dropped'[d]
    BY <1>1, <2>3, <2>5
  <2>8. <<d, e>> \notin RefusedMap'
    BY <2>7 DEF RefusedMap
  <2> QED
    BY <2>2, <2>6, <2>8
<1>7. ASSUME NEW p \in RefusedMap' \ RefusedMap
      PROVE  p \in (Conn \ closed) \X Sent /\ ~Within(p[2], given[p[1]])
  <2>1. p \in Conn \X Sent /\ p[2] \in dropped'[p[1]] /\ p[2] \notin dropped[p[1]]
    BY <1>2 DEF RefusedMap
  <2>2. p[1] = c
    BY <1>1, <2>1
  <2>3. c \notin closed /\ InTask(p[2], task[w])
    BY <1>1, <2>1, <2>2
  <2> QED
    BY <1>1, <2>1, <2>2, <2>3
<1>8. RefusedMap \subseteq RefusedMap'
  BY <1>1, <1>2 DEF RefusedMap
<1>9. \A d \in Conn : \A e : Within(e, given[d]) \/ e \in dropped[d] => Within(e, given'[d]) \/ e \in dropped'[d]
  <2>1. \A d \in Conn : \A j \in 1..Len(given[d]) : j \in 1..Len(given'[d])
    BY <1>1, <1>4
  <2> QED
    BY <1>1, <2>1 DEF Within
<1>10. Unsettled' = {p \in Unsettled : ~(Within(p[2], given'[p[1]]) \/ p[2] \in dropped'[p[1]])}
  <2>1. Unsettled' = {p \in Conn \X Sent : p[1] \in due[p[2]] \ closed
                                          /\ ~Within(p[2], given'[p[1]]) /\ p[2] \notin dropped'[p[1]]}
    BY <1>1, <1>2 DEF Unsettled, Within
  <2> QED
    BY <1>9, <2>1 DEF Unsettled
<1>11. OnWayMap' = {p \in OnWayMap : ~(Within(p[2], given'[p[1]]) \/ p[2] \in dropped'[p[1]])}
  BY <1>10, OnWayIs, OnWayIsThen
<1>12. \A d, e : B!GivenTo(d, e) <=> Within(e, given[d])
  BY DEF B!GivenTo, Within
<1>13. \A d \in Conn : \A e \in Sent : B!Fate(d, e)' <=> Within(e, given'[d]) \/ e \in dropped'[d]
  BY <1>2 DEF B!Fate, B!GivenTo, Within, Sent
<1>14. OnWayMap' = {p \in OnWayMap : ~B!Fate(p[1], p[2])'}
  BY <1>11, <1>13 DEF OnWayMap
<1>15. Len(PostsMap) = Len(due) /\ \A e \in Sent : PostsMap[e].barred = {}
  <2>1. Len(due) \in Nat
    BY DEF WayInv, ServerInv, ListInv, ListTypes
  <2> QED
    BY <2>1 DEF PostsMap, Sent
<1>16. \A d \in Conn :
          /\ Len(given[d]) <= Len(given'[d]) /\ \A i \in 1..Len(given[d]) : given'[d][i] = given[d][i]
          /\ \A i \in Len(given[d]) + 1..Len(given'[d]) :
                /\ d \notin closed
                /\ given'[d][i] \in 1..Len(PostsMap) /\ d \notin PostsMap[given'[d][i]].barred
                /\ \A j \in 1..i - 1 : given'[d][j] # given'[d][i]
                /\ <<d, given'[d][i]>> \notin RefusedMap'
  <2>1. \A e \in Sent : \A d : e \in 1..Len(PostsMap) /\ d \notin PostsMap[e].barred
    BY <1>15 DEF Sent
  <2>2. ASSUME NEW d \in Conn, NEW i \in Len(given[d]) + 1..Len(given'[d])
        PROVE  given'[d][i] \in 1..Len(PostsMap) /\ d \notin PostsMap[given'[d][i]].barred
    BY <1>6, <2>1
  <2> QED
    BY <1>1, <1>6, <2>2
<1>17. \A p \in RefusedMap' \ RefusedMap :
           p \in (Conn \ closed) \X (1..Len(PostsMap)) /\ ~B!GivenTo(p[1], p[2])
  BY <1>7, <1>12, <1>15 DEF Sent
<1> QED
  BY <1>1, <1>3, <1>8, <1>14, <1>16, <1>17 DEF B!Give, PostsMap, RefusedMap, OnWayMap, Sent

(* Every step of the server is a step of Broadcast, or none.                 *)
LEMMA StepsOfBroadcast ==
    ASSUME WayInv, WayInv', [ServerNext]_serverVars
    PROVE  [B!BroadcastNext]_(B!broadcastVars)
<1>1. ASSUME UNCHANGED <<due, closed, given, dropped>> PROVE UNCHANGED B!broadcastVars
  BY <1>1, NothingHappens
<1>2. CASE Idle \/ TakeQueue \/ PushTasks \/ Stop \/ \E c \in Conn : Accept(c)
  <2>1. UNCHANGED <<due, closed, given, dropped>>
    BY <1>2 DEF Idle, TakeQueue, PushTasks, Stop, Accept, Lists, Fates, queueVars, connVars, fateVars
  <2> QED
    BY <1>1, <2>1
<1>3. CASE BroadcastQueue
  BY <1>3, BroadcastSpeaks DEF B!BroadcastNext
<1>4. ASSUME NEW c \in Conn, Closing(c) PROVE [B!BroadcastNext]_(B!broadcastVars)
  BY <1>4, CloseLeaves DEF B!BroadcastNext
<1>5. ASSUME NEW w \in Worker, Snapshot(w) \/ FinishTask(w) PROVE [B!BroadcastNext]_(B!broadcastVars)
  <2>1. UNCHANGED <<due, closed, given, dropped>>
    BY <1>5 DEF Snapshot, FinishTask, queueVars, connVars, fateVars
  <2> QED
    BY <1>1, <2>1
<1>6. ASSUME NEW w \in Worker, NEW c \in Conn, Deliver(w, c) PROVE [B!BroadcastNext]_(B!broadcastVars)
  BY <1>6, DeliverGives DEF B!BroadcastNext
<1>7. QuietInv
  BY DEF WayInv, ServerInv
<1> QED
  BY <1>2, <1>3, <1>4, <1>5, <1>6, <1>7, ServerCases

(* The queue of the reactor, the tasks of the shards and the workers that    *)
(* run them give everybody each broadcast as Broadcast has it.               *)
THEOREM V4ImplementsBroadcast == ServerSpec => ImplementsBroadcast
<1>1. ServerInit => B!BroadcastInit
  <2> SUFFICES ASSUME ServerInit PROVE B!BroadcastInit
    OBVIOUS
  <2>1. due = <<>> /\ closed = {} /\ given = [c \in Conn |-> <<>>]
    BY DEF ServerInit
  <2>2. Sent = {}
    BY <2>1 DEF Sent
  <2>3. PostsMap = <<>> /\ OnWayMap = {} /\ RefusedMap = {}
    BY <2>2 DEF PostsMap, OnWayMap, RefusedMap
  <2> QED
    BY <2>1, <2>3 DEF B!BroadcastInit, PostsMap, OnWayMap, RefusedMap, Sent
<1>2. WayInv /\ WayInv' /\ [ServerNext]_serverVars => [B!BroadcastNext]_(B!broadcastVars)
  BY StepsOfBroadcast
<1> QED
  BY <1>1, <1>2, WayInvariant, PTL DEF ServerSpec, ImplementsBroadcast, B!BroadcastSpec

(* So nobody is forgotten, and nobody is given twice what the tasks bring,   *)
(* or what a full queue refused.                                             *)
THEOREM V4KeepsItsWord == ServerSpec => [](B!NobodyForgotten /\ B!HeardOnce)
<1>1. WayInv => B!NobodyForgotten /\ B!HeardOnce
  <2> SUFFICES ASSUME WayInv PROVE B!NobodyForgotten /\ B!HeardOnce
    OBVIOUS
  <2>1. /\ due \in Seq(SUBSET Conn) /\ Len(due) \in Nat /\ given \in [Conn -> Seq(Nat)]
        /\ Len(global_queue_) \in Nat /\ Len(batch) \in Nat /\ InTasks \in Nat /\ InTasks <= Len(due)
    BY NumberedFacts, LenProperties DEF WayInv, ServerInv, ListInv, ListTypes, FateTypes
  <2>2. Len(PostsMap) = Len(due) /\ \A e \in Sent : PostsMap[e].due = due[e] /\ PostsMap[e].barred = {}
    BY <2>1 DEF PostsMap, Sent
  <2>3. \A e \in Sent : due[e] \subseteq Conn
    BY <2>1, ElementOfSeq DEF Sent
  <2>4. \A c \in Conn : \A e \in Sent : B!Fate(c, e) <=> Within(e, given[c]) \/ e \in dropped[c]
    BY DEF B!Fate, B!GivenTo, Within, Sent
  <2>5. ASSUME NEW e \in Sent, NEW c \in PostsMap[e].due \ closed
        PROVE  B!Fate(c, e) \/ <<c, e>> \in OnWayMap
    <3>1. c \in due[e] \ closed /\ c \in Conn
      BY <2>2, <2>3
    <3>2. Within(e, given[c]) \/ e \in dropped[c] \/ <<c, e>> \in Unsettled
      BY <3>1 DEF Unsettled
    <3> QED
      BY <2>4, <3>1, <3>2, OnWayIs
  <2>6. B!NobodyForgotten
    BY <2>2, <2>5 DEF B!NobodyForgotten, PostsMap, RefusedMap, OnWayMap, Sent
  <2>7. ASSUME NEW c \in Conn, NEW i \in 1..Len(given[c])
        PROVE  /\ \A j \in 1..i - 1 : given[c][j] # given[c][i]
               /\ <<c, given[c][i]>> \notin RefusedMap
               /\ given[c][i] \in Sent
    <3>1. Len(given[c]) \in Nat
      BY <2>1, LenProperties
    <3>2. \A j \in 1..i - 1 : j \in 1..Len(given[c]) /\ j < i
      BY <3>1
    <3>3. \A j \in 1..i - 1 : given[c][j] # given[c][i]
      BY <3>2 DEF WayInv, ServerInv, FateInv, OrderKept
    <3>4. Within(given[c][i], given[c])
      BY DEF Within
    <3>5. given[c][i] \in 1..InTasks
      BY <3>4, SettledInTask
    <3>6. given[c][i] \in Sent
      BY <2>1, <3>5 DEF Sent
    <3>7. given[c][i] \notin dropped[c]
      BY <3>4 DEF WayInv, DroppedServed
    <3> QED
      BY <3>3, <3>6, <3>7 DEF RefusedMap
  <2>8. B!HeardOnce
    BY <2>2, <2>7 DEF B!HeardOnce, PostsMap, RefusedMap, Sent
  <2> QED
    BY <2>6, <2>8
<1> QED
  BY <1>1, WayInvariant, PTL

=============================================================================

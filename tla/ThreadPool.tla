----------------------------- MODULE ThreadPool -----------------------------
(* v4/threadpool.cpp, which v3 has without a change: the workers that run    *)
(* the tasks, the reactor thread that pushes them (process_global_queue) and *)
(* shuts the pool down (Stop).  push_task is for the messages of v3          *)
(* (handle_read); v4 pushes batches only.  A worker holds queue_mtx_ from    *)
(* the test of the wait's predicate until it has taken a task or blocks;     *)
(* testing and blocking are two steps.                                       *)
EXTENDS Naturals, Sequences, SequencesExt

CONSTANTS
    Worker,     \* the pool's threads
    None,       \* nobody
    MaxTasks    \* bound: the number of tasks that are pushed

ASSUME ThreadPoolAssumption == None \notin Worker /\ MaxTasks \in Nat

Task == 1..MaxTasks

VARIABLES
    running,        \* ThreadPool::running_
    task_queue,     \* ThreadPool::task_queue_
    mutex,          \* the worker that holds queue_mtx_, or None
    waiting,        \* the workers blocked on queue_cv_
    pc,             \* where each worker is in worker_loop
    task,           \* the task a worker has taken, 0 for none
    caller,         \* where the reactor thread is in push_task, push_batch or shutdown
    pushed,         \* history: tasks 1 to pushed were pushed
    done            \* history: tasks that have returned

vars == <<running, task_queue, mutex, waiting, pc, task, caller, pushed, done>>

Init ==
    /\ running = TRUE
    /\ task_queue = <<>>
    /\ mutex = None
    /\ waiting = {}
    /\ pc = [w \in Worker |-> "loop"]
    /\ task = [w \in Worker |-> 0]
    /\ caller = "idle"
    /\ pushed = 0
    /\ done = {}

Goto(w, label) == pc' = [pc EXCEPT ![w] = label]

-----------------------------------------------------------------------------
(* worker_loop                                                               *)

(* while(running_)                                                           *)
Loop(w) ==
    /\ pc[w] = "loop"
    /\ Goto(w, IF running THEN "lock" ELSE "exited")
    /\ UNCHANGED <<running, task_queue, mutex, waiting, task, caller, pushed, done>>

(* The unique_lock, or the end of wait, which takes the mutex again.         *)
Lock(w) ==
    /\ pc[w] = "lock"
    /\ w \notin waiting
    /\ mutex = None
    /\ mutex' = w
    /\ Goto(w, "test")
    /\ UNCHANGED <<running, task_queue, waiting, task, caller, pushed, done>>

(* Slip: the predicate does not look at running_.                            *)
TestQueueOnly(w) ==
    /\ pc[w] = "test"
    /\ task_queue = <<>>
    /\ Goto(w, "block")
    /\ UNCHANGED <<running, task_queue, mutex, waiting, task, caller, pushed, done>>

(* The predicate of wait is false.                                           *)
TestFalse(w) ==
    /\ pc[w] = "test"
    /\ task_queue = <<>> /\ running
    /\ Goto(w, "block")
    /\ UNCHANGED <<running, task_queue, mutex, waiting, task, caller, pushed, done>>

(* wait releases the mutex and blocks, in one step.                          *)
Block(w) ==
    /\ pc[w] = "block"
    /\ mutex' = None
    /\ waiting' = waiting \cup {w}
    /\ Goto(w, "lock")
    /\ UNCHANGED <<running, task_queue, task, caller, pushed, done>>

(* The predicate is true: the pool stops and nothing is left ...             *)
TestExit(w) ==
    /\ pc[w] = "test"
    /\ task_queue = <<>> /\ ~running
    /\ mutex' = None
    /\ Goto(w, "exited")
    /\ UNCHANGED <<running, task_queue, waiting, task, caller, pushed, done>>

(* Slip: the task stays in the queue.                                        *)
TakeCopy(w) ==
    /\ pc[w] = "test"
    /\ task_queue # <<>>
    /\ task' = [task EXCEPT ![w] = Head(task_queue)]
    /\ mutex' = None
    /\ Goto(w, "run")
    /\ UNCHANGED <<running, task_queue, waiting, caller, pushed, done>>

(* ... or there is a task.                                                   *)
Take(w) ==
    /\ pc[w] = "test"
    /\ task_queue # <<>>
    /\ task' = [task EXCEPT ![w] = Head(task_queue)]
    /\ task_queue' = Tail(task_queue)
    /\ mutex' = None
    /\ Goto(w, "run")
    /\ UNCHANGED <<running, waiting, caller, pushed, done>>

RunTask(w) ==
    /\ pc[w] = "run"
    /\ done' = done \cup {task[w]}
    /\ task' = [task EXCEPT ![w] = 0]
    /\ Goto(w, "loop")
    /\ UNCHANGED <<running, task_queue, mutex, waiting, caller, pushed>>

(* A wait may return without a notification.                                 *)
Spurious(w) ==
    /\ w \in waiting
    /\ waiting' = waiting \ {w}
    /\ UNCHANGED <<running, task_queue, mutex, pc, task, caller, pushed, done>>

-----------------------------------------------------------------------------
(* The reactor thread.                                                       *)

NotifyAll == waiting' = {}

NotifyOne == IF waiting = {} THEN UNCHANGED waiting ELSE \E w \in waiting : waiting' = waiting \ {w}

(* k tasks go to the end of the queue, under the mutex.                      *)
Emplace(k) ==
    /\ caller = "idle"
    /\ mutex = None
    /\ pushed + k <= MaxTasks
    /\ task_queue' = task_queue \o [i \in 1..k |-> pushed + i]
    /\ pushed' = pushed + k

push_task ==
    /\ Emplace(1)
    /\ caller' = "notify_one"
    /\ UNCHANGED <<running, mutex, waiting, pc, task, done>>

push_batch(k) ==
    /\ Emplace(k)
    /\ caller' = "notify_all"
    /\ UNCHANGED <<running, mutex, waiting, pc, task, done>>

(* Slip: push_task notifies nobody.                                          *)
NotifyBatchOnly ==
    /\ \/ caller = "notify_one" /\ UNCHANGED waiting
       \/ caller = "notify_all" /\ NotifyAll
    /\ caller' = "idle"
    /\ UNCHANGED <<running, task_queue, mutex, pc, task, pushed, done>>

Notify ==
    /\ \/ caller = "notify_one" /\ NotifyOne
       \/ caller = "notify_all" /\ NotifyAll
    /\ caller' = "idle"
    /\ UNCHANGED <<running, task_queue, mutex, pc, task, pushed, done>>

(* shutdown: the exchange, which does not take the mutex ...                 *)
ShutdownExchange ==
    /\ caller = "idle"
    /\ running
    /\ running' = FALSE
    /\ caller' = "notify_shutdown"
    /\ UNCHANGED <<task_queue, mutex, waiting, pc, task, pushed, done>>

ShutdownNotify ==
    /\ caller = "notify_shutdown"
    /\ NotifyAll
    /\ caller' = "join"
    /\ UNCHANGED <<running, task_queue, mutex, pc, task, pushed, done>>

(* ... and the joins, which return when every worker has.                    *)
ShutdownJoin ==
    /\ caller = "join"
    /\ \A w \in Worker : pc[w] = "exited"
    /\ caller' = "joined"
    /\ UNCHANGED <<running, task_queue, mutex, waiting, pc, task, pushed, done>>

-----------------------------------------------------------------------------
WorkerStep(w) ==
    \/ Loop(w) \/ Lock(w) \/ TestFalse(w) \/ Block(w) \/ TestExit(w) \/ Take(w) \/ RunTask(w)

Next ==
    \/ \E w \in Worker : WorkerStep(w) \/ Spurious(w)
    \/ push_task
    \/ \E k \in 1..MaxTasks : push_batch(k)
    \/ Notify
    \/ ShutdownExchange \/ ShutdownNotify \/ ShutdownJoin

(* The threads run.  Nothing is assumed of the mutex but that a worker that  *)
(* can take it for ever does; no wait is assumed to return by itself.        *)
Fairness ==
    /\ \A w \in Worker : WF_vars(WorkerStep(w))
    /\ WF_vars(Notify) /\ WF_vars(ShutdownNotify) /\ WF_vars(ShutdownJoin)

Safety == Init /\ [][Next]_vars
Spec == Safety /\ Fairness

-----------------------------------------------------------------------------
(* Properties                                                                *)

TypeOK ==
    /\ running \in BOOLEAN
    /\ task_queue \in Seq(Task)
    /\ mutex \in Worker \cup {None}
    /\ waiting \subseteq Worker
    /\ pc \in [Worker -> {"loop", "lock", "test", "block", "run", "exited"}]
    /\ task \in [Worker -> Task \cup {0}]
    /\ caller \in {"idle", "notify_one", "notify_all", "notify_shutdown", "join", "joined"}
    /\ pushed \in 0..MaxTasks
    /\ done \subseteq Task

(* No task is lost or run twice: each one that was pushed is in the queue,   *)
(* taken by one worker, or done, and only one of the three.                  *)
Queued == {i \in Task : \E j \in 1..Len(task_queue) : task_queue[j] = i}
Taken == {i \in Task : \E w \in Worker : task[w] = i}

EachTaskOnce ==
    /\ TypeOK
    /\ 1..pushed = Queued \cup Taken \cup done
    /\ Queued \cap Taken = {} /\ Queued \cap done = {} /\ Taken \cap done = {}
    /\ IsInjective(task_queue)
    /\ \A v, w \in Worker : v # w /\ task[v] = task[w] => task[v] = 0

(* As long as the pool runs, every task that was pushed is run to its end,   *)
(* although push_task wakes only one worker, and that one may find the queue *)
(* emptied by another and block again.                                       *)
(* When running_ turns false the workers leave the rest in the queue.        *)
TasksRun == \A i \in Task : i \in Queued ~> (i \in done \/ ~running)

(* shutdown "wakes up all worker threads to exit their loops", so that its   *)
(* joins return, however many tasks are running and queued.  The exception   *)
(* is a worker that stands between the test and the wait when it notifies:   *)
(* that one sleeps for ever, and so does shutdown.                           *)
ShutdownReturnsUnlessRaced ==
    caller = "join" /\ (\A w \in Worker : pc[w] # "block" /\ w \notin waiting) ~> caller = "joined"
=============================================================================

---------------------------- MODULE ServerProcess ----------------------------
(* The server process of v4 from main to Stop: its threads and the signals,  *)
(* the loop of the reactor, and what happens to a broadcast, which the logic *)
(* thread queues, the reactor turns into tasks of the thread pool, and the   *)
(* workers put into the queues of the connections.                           *)
EXTENDS ThreadPool, FiniteSets, TLC

CONSTANTS
    Conn,
    NUM_SHARDS,
    shard,          \* get_shard_idx, from 1
    MaxBroadcasts   \* bound

ASSUME ServerProcessAssumption ==
    /\ NUM_SHARDS \in Nat \ {0} /\ shard \in [Conn -> 1..NUM_SHARDS]
    /\ MaxBroadcasts \in Nat /\ MaxTasks >= NUM_SHARDS * MaxBroadcasts
    /\ \A conns \in SUBSET Conn : conns # None

VARIABLES
    main,           \* where the main thread is, which becomes the logic thread
    mask,           \* per thread that was started: it blocks SIGINT, SIGTERM, SIGPIPE
    killed,         \* a signal has ended the process
    asked, piped,   \* pending: a signal of the process, a SIGPIPE of the reactor
    running_,       \* WebServer::running_
    net,            \* where the reactor is in Run and Stop
    events,         \* what is left of the array of epoll_wait
    pending_broadcast,
    global_queue_,
    notified,       \* notify_fd_ is readable
    batch,          \* process_global_queue's events
    tasks,          \* the closures of the tasks that were pushed
    todo,           \* per worker: shard_active_conns, None before it is made
    connections,    \* those in the shards' maps
    closed,
    given, dropped, \* history, per connection: the broadcasts queued, and refused by a full queue
    due             \* history, per broadcast: the connections there were

poolVars == vars
processVars == <<main, mask, killed, asked, piped>>
reactorVars == <<running_, net, events, pending_broadcast>>
queueVars == <<global_queue_, notified, due>>
taskVars == <<batch, tasks>>
connVars == <<connections, closed>>
fateVars == <<given, dropped>>
serverVars == <<poolVars, processVars, reactorVars, queueVars, taskVars, todo, connVars, fateVars>>

ServerInit ==
    /\ Init
    /\ main = "start" /\ mask = ("main" :> FALSE)
    /\ killed = FALSE /\ asked = FALSE /\ piped = FALSE
    /\ running_ = TRUE /\ net = "off" /\ events = {} /\ pending_broadcast = FALSE
    /\ global_queue_ = <<>> /\ notified = FALSE /\ due = <<>>
    /\ batch = <<>> /\ tasks = <<>> /\ todo = [w \in Worker |-> None]
    /\ connections = {} /\ closed = {}
    /\ given = [c \in Conn |-> <<>>] /\ dropped = [c \in Conn |-> {}]

-----------------------------------------------------------------------------
(* Start and signals.                                                        *)

(* A thread inherits the mask of the thread that starts it.                  *)
StartThread(t) == mask' = (t :> mask["main"]) @@ mask

(* main logs, which starts the logger thread; then the server blocks the     *)
(* signals and starts the pool; then Run starts the reactor.                 *)
StartLogger ==
    /\ main = "start" /\ main' = "setup_signalfd"
    /\ StartThread("logger")
    /\ UNCHANGED <<poolVars, killed, asked, piped, reactorVars, queueVars, taskVars, todo, connVars, fateVars>>

setup_signalfd ==
    /\ main = "setup_signalfd" /\ main' = "pool"
    /\ mask' = [mask EXCEPT !["main"] = TRUE]
    /\ UNCHANGED <<poolVars, killed, asked, piped, reactorVars, queueVars, taskVars, todo, connVars, fateVars>>

StartPool ==
    /\ main = "pool" /\ main' = "run"
    /\ StartThread("pool")
    /\ UNCHANGED <<poolVars, killed, asked, piped, reactorVars, queueVars, taskVars, todo, connVars, fateVars>>

StartNet ==
    /\ main = "run" /\ main' = "logic"
    /\ StartThread("net") /\ net' = "wait"
    /\ UNCHANGED <<poolVars, killed, asked, piped, running_, events, pending_broadcast,
                   queueVars, taskVars, todo, connVars, fateVars>>

(* SIGINT or SIGTERM.  It goes to any thread that does not block it, and its *)
(* default action ends the process; if all do, it is pending.                *)
Signal ==
    /\ killed' = (\E t \in DOMAIN mask : ~mask[t])
    /\ asked' = (asked \/ \A t \in DOMAIN mask : mask[t])
    /\ UNCHANGED <<poolVars, main, mask, piped, reactorVars, queueVars, taskVars, todo, connVars, fateVars>>

-----------------------------------------------------------------------------
(* The logic thread.                                                         *)

(* Broadcast: the event is queued, then the reactor is told.                 *)
BroadcastQueue ==
    /\ main = "logic" /\ Len(due) < MaxBroadcasts
    /\ main' = "wake"
    /\ due' = Append(due, connections)
    /\ global_queue_' = Append(global_queue_, Len(due) + 1)
    /\ UNCHANGED <<poolVars, mask, killed, asked, piped, reactorVars, notified, taskVars, todo, connVars, fateVars>>

BroadcastWake ==
    /\ main = "wake" /\ main' = "logic"
    /\ notified' = TRUE
    /\ UNCHANGED <<poolVars, mask, killed, asked, piped, reactorVars, global_queue_, due, taskVars, todo, connVars, fateVars>>

(* close_conn, of either thread.                                             *)
CloseConn(c) ==
    /\ c \in connections
    /\ closed' = closed \cup {c} /\ connections' = connections \ {c}

Close(c) ==
    /\ main = "logic" /\ CloseConn(c)
    /\ UNCHANGED <<poolVars, processVars, reactorVars, queueVars, taskVars, todo, fateVars>>

-----------------------------------------------------------------------------
(* The reactor: Run.                                                         *)

(* The loop's condition, and epoll_wait.                                     *)
EpollWait ==
    /\ net = "wait"
    /\ IF running_ THEN net' = "events" ELSE net' = "stop"
    /\ events' = {e \in {"notify", "signal"} : IF e = "notify" THEN notified ELSE asked \/ piped}
    /\ pending_broadcast' = FALSE
    /\ UNCHANGED <<poolVars, processVars, running_, queueVars, taskVars, todo, connVars, fateVars>>

ReadNotify ==
    /\ net = "events" /\ "notify" \in events
    /\ events' = events \ {"notify"}
    /\ notified' = FALSE /\ pending_broadcast' = TRUE
    /\ UNCHANGED <<poolVars, processVars, running_, net, global_queue_, due, taskVars, todo, connVars, fateVars>>

EndOfArray == net' = IF pending_broadcast THEN "queue" ELSE "wait"

(* Any signal ends the loop, and the rest of the array is left.              *)
ReadSignal ==
    /\ net = "events" /\ "signal" \in events
    /\ running_' = FALSE /\ events' = {}
    /\ asked' = FALSE /\ piped' = FALSE
    /\ EndOfArray
    /\ UNCHANGED <<poolVars, main, mask, killed, pending_broadcast, queueVars, taskVars, todo, connVars, fateVars>>

Accept(c) ==
    /\ net = "events" /\ c \notin connections \cup closed
    /\ connections' = connections \cup {c}
    /\ UNCHANGED <<poolVars, processVars, reactorVars, queueVars, taskVars, todo, closed, fateVars>>

NetClose(c) ==
    /\ net = "events" /\ CloseConn(c)
    /\ UNCHANGED <<poolVars, processVars, reactorVars, queueVars, taskVars, todo, fateVars>>

(* attempt_write in handle_write or flush_all_queues, to a client that is    *)
(* gone: the kernel sends SIGPIPE to the thread that writes.                 *)
WriteFails(c) ==
    /\ net = "events" /\ c \in connections /\ given[c] # <<>>
    /\ piped' = TRUE
    /\ CloseConn(c) \/ UNCHANGED connVars
    /\ UNCHANGED <<poolVars, main, mask, killed, asked, reactorVars, queueVars, taskVars, todo, fateVars>>

EventsDone ==
    /\ net = "events" /\ events = {}
    /\ EndOfArray
    /\ UNCHANGED <<poolVars, processVars, running_, events, pending_broadcast, queueVars, taskVars, todo, connVars, fateVars>>

(* Slips: the queue is copied instead of swapped; only its newest event is   *)
(* kept; only its first is taken, as GLOBAL_BATCH_SIZE has it.               *)
TakeCopyOfQueue ==
    /\ net = "queue"
    /\ IF global_queue_ = <<>> THEN net' = "wait" ELSE net' = "push"
    /\ batch' = global_queue_
    /\ UNCHANGED <<poolVars, processVars, running_, events, pending_broadcast, queueVars, tasks, todo, connVars, fateVars>>

TakeNewest ==
    /\ net = "queue"
    /\ IF global_queue_ = <<>> THEN net' = "wait" ELSE net' = "push"
    /\ batch' = SelectSeq(global_queue_, LAMBDA e : e = Len(due)) /\ global_queue_' = <<>>
    /\ UNCHANGED <<poolVars, processVars, running_, events, pending_broadcast, notified, due, tasks, todo, connVars, fateVars>>

TakeFirst ==
    /\ net = "queue"
    /\ IF global_queue_ = <<>> THEN net' = "wait" ELSE net' = "push"
    /\ batch' = SubSeq(global_queue_, 1, 1) /\ global_queue_' = SubSeq(global_queue_, 2, Len(global_queue_))
    /\ UNCHANGED <<poolVars, processVars, running_, events, pending_broadcast, notified, due, tasks, todo, connVars, fateVars>>

(* process_global_queue: it takes the whole queue ...                        *)
TakeQueue ==
    /\ net = "queue"
    /\ IF global_queue_ = <<>> THEN net' = "wait" ELSE net' = "push"
    /\ batch' = global_queue_ /\ global_queue_' = <<>>
    /\ UNCHANGED <<poolVars, processVars, running_, events, pending_broadcast, notified, due, tasks, todo, connVars, fateVars>>

(* ... and makes one task of it for each shard.                              *)
PushTasks ==
    /\ net = "push" /\ net' = "notify"
    /\ push_batch(NUM_SHARDS)
    /\ tasks' = tasks \o [i \in 1..NUM_SHARDS |-> [shard |-> i, events |-> batch]]
    /\ batch' = <<>>
    /\ UNCHANGED <<processVars, running_, events, pending_broadcast, queueVars, todo, connVars, fateVars>>

NotifyWorkers ==
    /\ net = "notify" /\ net' = "wait"
    /\ Notify
    /\ UNCHANGED <<processVars, running_, events, pending_broadcast, queueVars, taskVars, todo, connVars, fateVars>>

(* Stop: the pool is shut down, then the maps are cleared and the            *)
(* descriptors closed.                                                       *)
ShutdownPool ==
    /\ net = "stop"
    /\ ShutdownExchange \/ ShutdownNotify \/ ShutdownJoin
    /\ UNCHANGED <<processVars, reactorVars, queueVars, taskVars, todo, connVars, fateVars>>

(* Slip: the workers are told, but nobody waits for them.                    *)
StopUnjoined ==
    /\ net = "stop" /\ caller = "join" /\ net' = "stopped"
    /\ connections' = {}
    /\ UNCHANGED <<poolVars, processVars, running_, events, pending_broadcast, queueVars, taskVars, todo, closed, fateVars>>

Stop ==
    /\ net = "stop" /\ caller = "joined" /\ net' = "stopped"
    /\ connections' = {}
    /\ UNCHANGED <<poolVars, processVars, running_, events, pending_broadcast, queueVars, taskVars, todo, closed, fateVars>>

-----------------------------------------------------------------------------
(* The workers: the tasks of process_global_queue.                           *)

Snapshot(w) ==
    /\ pc[w] = "run" /\ todo[w] = None
    /\ todo' = [todo EXCEPT ![w] = {c \in connections : shard[c] = tasks[task[w]].shard}]
    /\ UNCHANGED <<poolVars, processVars, reactorVars, queueVars, taskVars, connVars, fateVars>>

(* One connection, under conn->mtx; its queue may be full at any event.      *)
Deliver(w, c) ==
    /\ pc[w] = "run" /\ todo[w] # None /\ c \in todo[w]
    /\ todo' = [todo EXCEPT ![w] = @ \ {c}]
    /\ IF c \in closed
       THEN UNCHANGED fateVars
       ELSE \E n \in 0..Len(tasks[task[w]].events) :
               LET list == tasks[task[w]].events IN
               /\ given' = [given EXCEPT ![c] = @ \o SubSeq(list, 1, n)]
               /\ dropped' = [dropped EXCEPT ![c] = @ \cup {list[i] : i \in n + 1..Len(list)}]
    /\ UNCHANGED <<poolVars, processVars, reactorVars, queueVars, taskVars, connVars>>

FinishTask(w) ==
    /\ todo[w] = {} /\ todo' = [todo EXCEPT ![w] = None]
    /\ RunTask(w)
    /\ UNCHANGED <<processVars, reactorVars, queueVars, taskVars, connVars, fateVars>>

PoolStep(w) ==
    /\ "pool" \in DOMAIN mask
    /\ Loop(w) \/ Lock(w) \/ TestFalse(w) \/ Block(w) \/ TestExit(w) \/ Take(w)
    /\ UNCHANGED <<processVars, reactorVars, queueVars, taskVars, todo, connVars, fateVars>>

WakesUp(w) ==
    /\ Spurious(w)
    /\ UNCHANGED <<processVars, reactorVars, queueVars, taskVars, todo, connVars, fateVars>>

-----------------------------------------------------------------------------
Main == ~killed /\ (StartLogger \/ setup_signalfd \/ StartPool \/ StartNet \/ BroadcastWake)

Net ==
    /\ ~killed
    /\ \/ EpollWait \/ ReadNotify \/ ReadSignal \/ EventsDone
       \/ TakeQueue \/ PushTasks \/ NotifyWorkers \/ ShutdownPool \/ Stop

Work(w) == ~killed /\ (PoolStep(w) \/ Snapshot(w) \/ FinishTask(w) \/ \E c \in Conn : Deliver(w, c))

(* What clients and users do, or make the threads do.                        *)
Asked ==
    /\ ~killed
    /\ \/ Signal \/ BroadcastQueue
       \/ \E c \in Conn : Accept(c) \/ NetClose(c) \/ WriteFails(c) \/ Close(c)
       \/ \E w \in Worker : WakesUp(w)

ServerNext == Main \/ Net \/ (\E w \in Worker : Work(w)) \/ Asked

(* The threads run, and the reactor gets the mutex of the pool in the end    *)
(* although waits of workers return without need; nothing is asked of        *)
(* clients and users.                                                        *)
ServerFairness ==
    /\ WF_serverVars(Main) /\ WF_serverVars(Net) /\ SF_serverVars(~killed /\ PushTasks)
    /\ \A w \in Worker : WF_serverVars(Work(w))

ServerSpec == ServerInit /\ [][ServerNext]_serverVars /\ ServerFairness

-----------------------------------------------------------------------------
(* Properties                                                                *)

ServerTypeOK ==
    /\ TypeOK
    /\ main \in {"start", "setup_signalfd", "pool", "run", "logic", "wake"}
    /\ {killed, asked, piped, running_, notified, pending_broadcast} \subseteq BOOLEAN
    /\ net \in {"off", "wait", "events", "queue", "push", "notify", "stop", "stopped"}
    /\ events \subseteq {"notify", "signal"}
    /\ Len(tasks) = pushed
    /\ \A w \in Worker : todo[w] # None => pc[w] = "run" /\ \A c \in todo[w] : shard[c] = tasks[task[w]].shard
    /\ connections \cap closed = {}

Within(e, list) == \E i \in 1..Len(list) : list[i] = e
Settled(e, c) == Within(e, given[c]) \/ e \in dropped[c] \/ c \in closed

(* A broadcast reaches everyone who was connected when it was made, unless   *)
(* the client's queue is full: through the queue, the wake-up of the         *)
(* reactor, the pool's queue and the wake-up of a worker.  The exception is  *)
(* that the server is told to stop first.                                    *)
BroadcastArrives ==
    \A e \in 1..MaxBroadcasts, c \in Conn :
        (e <= Len(due) /\ c \in due[e]) ~> (Settled(e, c) \/ ~running_ \/ killed)

(* A broadcast overtakes another on its way to a client only while a worker  *)
(* has the other in its hands: none stays behind in a queue.                 *)
LateOnlyInHands ==
    \A c \in Conn, i, j \in 1..Len(due) :
        i < j /\ c \in due[i] /\ Within(j, given[c]) =>
            \/ Settled(i, c)
            \/ \E w \in Worker : task[w] # 0 /\ Within(i, tasks[task[w]].events)

(* No client gets a broadcast twice, those that the reactor took together    *)
(* arrive in their order, and others overtake only in the hands of workers.  *)
OnceAndInOrder ==
    /\ ServerTypeOK
    /\ \A c \in Conn : \A i, j \in 1..Len(given[c]) :
        i < j => /\ given[c][i] # given[c][j]
                 /\ given[c][i] > given[c][j] =>
                        ~\E t \in 1..Len(tasks) : Within(given[c][i], tasks[t].events) /\ Within(given[c][j], tasks[t].events)
    /\ LateOnlyInHands

(* A broadcast is on its way: in global_queue_, and the reactor will look at *)
(* that unless it is told to stop; in the batch; or in a task of the         *)
(* client's shard, which waits for a worker or has one that is not done with *)
(* the client.                                                               *)
WakeupComes ==
    \/ main = "wake" \/ notified
    \/ net = "queue" \/ (net = "events" /\ pending_broadcast)
    \/ ~running_

OnItsWay(e, c) ==
    \/ Within(e, global_queue_) /\ WakeupComes
    \/ Within(e, batch)
    \/ \E t \in 1..Len(tasks) :
          /\ tasks[t].shard = shard[c] /\ Within(e, tasks[t].events)
          /\ \/ Within(t, task_queue)
             \/ \E w \in Worker : task[w] = t /\ (todo[w] # None => c \in todo[w])

(* The queue, the tasks and the workers deliver what Broadcast promises.     *)
B == INSTANCE Broadcast WITH
        Client <- Conn, heard <- given, gone <- closed,
        posts <- [e \in 1..Len(due) |-> [due |-> due[e], barred |-> {}]],
        refused <- {p \in Conn \X (1..Len(due)) : p[2] \in dropped[p[1]]},
        onway <- {p \in Conn \X (1..Len(due)) : p[1] \in due[p[2]] \ closed /\ OnItsWay(p[2], p[1])}

ImplementsBroadcast == B!BroadcastSpec

(* When Stop clears the maps and closes the descriptors, no worker is left   *)
(* that would use them.  (The logic thread is left: it does not end, and may *)
(* still queue a broadcast and write to notify_fd_.)                         *)
StoppedIsQuiet == net = "stopped" => \A w \in Worker : pc[w] = "exited" /\ todo[w] = None

(* README.md says that signals are captured by signalfd, for a graceful      *)
(* shutdown; so none of them ends the process where it stands.               *)
SignalsCaptured == main \in {"logic", "wake"} => ~killed
=============================================================================

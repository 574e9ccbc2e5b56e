# TLA+ verification of the epoll chat server

The repository holds four generations of a chat server for Linux: `v1` (a `poll` echo server), `v2` (a
reactor that hands messages to worker threads), `v3` (the reactor with a chat application on top) and `v4`,
the current one, where the reactor and the application run in two threads and talk through an event queue.
This directory models `v4` (server and client), whose concurrency is the hardest to test, module by module, and
the servers of `v3` and `v2`, whose threads are divided differently: TLA+ specifications translated from the
source, TLC configurations that check small instances, and TLAPS proofs of the properties that matter most for
every value of the constants.

## 1. The system

### Version 4

Threads: the *reactor* (`net_thread_`, `WebServer::Run`), the *logic thread* (`ChatApp::LogicLoop`), the
*workers* of `ThreadPool`, which run broadcast tasks, and the logger thread. The logic thread is the main thread
of the process: `main` calls `ChatApp::Run`, which starts the reactor and runs `LogicLoop` itself.

| Component (source) | State | Operations | Interacts with | What makes it correct |
|---|---|---|---|---|
| Event stream (`safe_queue.h`, `event.h`) | `event_queue_` | `push`, `pop`, `stop` | reactor pushes, logic pushes (through `Close`) and pops | per connection: CONNECT, then MESSAGEs, then one DISCONNECT |
| Chat application (`chatapp.h`, `chat.proto`) | `online_users_`, `rooms_`, a `ChatSession` in each `Connection::user_data` | `HandleConnect`, `HandleDisconnect`, `HandleMessage` and the five requests | `SendPreEncoded`, `Broadcast`, `Close` of the server | names unique and released, rooms and sessions agree, packets reach whom they are for |
| Rate limit (`chatapp.h:143-163`) | `tokens`, `last_refill` of a session | refill, spend, ban | the monotonic clock | bounded throughput, no ban of patient clients |
| Connection life cycle (`webserver.cpp`, `connection.h`, `utils.h` `Socket`) | shards' `connections`, epoll set, `closed`, every `shared_ptr` | `accept_loop`, `handle_read`, `close_conn`, `Close`, `check_timeouts`, `Run` | kernel (descriptor numbers), event queue, broadcast tasks | maps and epoll set hold the open connections; no descriptor is closed while in use, or by a stranger; none leaks |
| Thread pool (`threadpool.cpp`) | `running_`, `task_queue_`, condition variable | `push_batch`, `shutdown`, `worker_loop`; `push_task`, which only `v3` calls | reactor pushes and shuts down | tasks run once, shutdown returns |
| Writing and back-pressure (`attempt_write`, `SendPreEncoded`, `handle_write`, `flush_all_queues`) | `outgoing_queue`, `pending_bytes`, `is_write_armed`, `is_reading_paused`, `current_epoll_events` | send, flush, drain | reactor, logic thread, workers, under `conn->mtx` | bytes leave in order; queued data keeps EPOLLOUT armed; a pause ends |
| Broadcast (`Broadcast`, `process_global_queue`) | `global_queue_`, `notify_fd_` | queue, wake, fan out per shard | logic → reactor → workers | everyone gets each broadcast, once |
| Idle timer (`check_timeouts`) | `timer_heap` of each shard | push, pop, re-push | accept, reads (`last_activity`) | idle connections are closed, active ones are not |
| Ring buffer and codec (`ringbuffer.h`, `codec.h`) | `buf_`, `read_pos_`, `write_pos_`, `count_` | `get_writeable_iovecs`, `commit_write`, `peek`, `consume`, `encode`, `decode` | `handle_read`, the client's receiver | the packets decoded are those that were sent, for every split into reads |
| Start and shutdown (`main.cpp`, `Stop`, destructors) | `running_` flags, `finished_` | signal, `Stop`, joins | all threads | everything ends |
| Object pool, logger, metrics (`object_pool.h`, `utils.h`, `metrics.h`) | free list; log queue; counters | acquire/release; push/write/stop | all threads | a buffer has one user; no log line is lost at exit |
| Client (`client.cpp`) | `running_`, `message_queue_`, `ui_mtx_`, the packet buffer | login, input loop, receiver, printer, stop | the server | what is shown is what was sent; its three threads end |

### Versions 3 and 2

In `v3` there is no event queue and no logic thread: the hooks of the application run in whatever thread has the
event. `handle_read` pushes one task per message, so messages of one client may be handled by two workers at a
time; `close_conn`, and with it the disconnect hook, runs in the reactor and in workers. `Broadcast`,
`process_global_queue` and the shards are those of `v4` in an earlier form. In `v2` the reactor alone reads,
writes and closes, and it handles logins; workers turn the lines of chat into broadcasts, which the reactor puts into
the buffers of all clients. A closed connection gives its descriptor back at once there, while tasks still hold
its number.

### What is hard

The reactor and the logic thread may close the same connection at the same time;
a flag read before a handler is stale when the handler runs; events of a closed connection are still
queued; the kernel reuses descriptor numbers while events, tables and other threads still hold the old
connection; wake-ups can be lost; the token bucket has boundaries. `PROJECT.json` lists the hazards one by
one, at their lines. In `v3` and `v2` the same questions are asked of other threads: names are written by workers, a
broadcast names its sender by a number that may have a new owner by the time it is delivered.

## 2. Modules

| Module | Models | Role |
|---|---|---|
| `EventStream` | the promise of the reactor to the application: the queue, the closed flag, and what the logic thread has popped | abstract specification |
| `Broadcast` | what a server promises of a broadcast: due, on its way, given, refused | abstract specification |
| `RateLimit` | refill, spend and the test of the token bucket | operators shared by the next two |
| `TokenBucket` | one session's bucket and the clock | detailed, on its own |
| `ChatApp` | `ChatApp` on top of the stream (EXTENDS `EventStream`, `RateLimit`) | composition |
| `WebServer` | the life of connections between reactor, logic thread, workers and kernel | implements `EventStream` |
| `ThreadPool` | the pool, at the grain of its mutex and condition variable | on its own, and in the next |
| `ServerProcess` | the process from `main` to `Stop`: threads, signals, the reactor's loop, and broadcasts from the logic thread to the queues of the clients | composition (EXTENDS `ThreadPool`), implements `Broadcast` |
| `ConnWriter` | what is written to one connection by three threads, and when it is read, over an edge-triggered epoll | on its own |
| `PacketBuffer` | the ring buffer and the packet codec over a stream of bytes | operators and state used by the next |
| `ChatClient` | the client: login, input loop, receiver, printer, stop | composition (EXTENDS `PacketBuffer`) |
| `ChatServerV3` | `v3`: reactor, workers, hooks, broadcasts | implements `Broadcast` |
| `ChatServerV2` | `v2`: reactor, workers, broadcasts | implements `Broadcast` |
| `*_proofs` | the theorems about `EventStream`, `ChatApp`, `TokenBucket`, `ConnWriter`, `ServerProcess` with `ThreadPool`, `WebServer`, `ChatClient` with `PacketBuffer`, `ChatServerV3`, `ChatServerV2` (those about `TokenBucket` are in `ChatApp_proofs`) | TLAPS |
| `MC*` | symmetry sets, sets of messages, and the shards of an instance, for TLC | model checking |

Definitions named after a *slip* (`TakeNewest`, `RoomsKept`, ...) are not part of any specification:
each is a plausible mistake in the definition that follows it, kept to show that the properties notice it.

### EventStream
`SafeQueue` holds its mutex for a whole push or pop, so each is one step. `CloseConn(t, c)` is `close_conn`
up to and including `closed.exchange(true)`; a thread that loses the exchange returns and changes nothing.
`PushDisconnect(t)` is the rest of it. `PushMessage` does not look at `closed`, as `handle_read` does not: it
looked the connection up before it took `conn->mtx`, and the logic thread may have closed it since. After
its *own* close the reactor pushes nothing more for that connection. `stage` is history: what the logic
thread has popped of a connection.

### Broadcast
The three servers have one purpose in common, and different ways to it: one queue emptied by the reactor (`v2`), or a
queue, a task for each shard and workers (`v3`, `v4`). `Broadcast` leaves the ways out. `posts` says whom each broadcast
is due to (the clients that were there when it was made) and who is never given it (its speaker, in `v3` and `v2`); `onway` holds the pairs
of a client and a broadcast that is still to reach it; `heard` what each was given, in order; `refused` what its full
queue turned away; `gone` who was closed. `Speak` is `Broadcast` or `queue_broadcast_message`, `Give` one delivery to
any number of clients, `Leave` the closing of one. A client that came later may be given a broadcast or not, which is
left open, and so is the order: `OnceAndInOrder` and `HeardInOrder` say how much of it each version keeps. Each server
maps `onway` to the places where the broadcast may be, a wake-up for the queue included: a step that lost a broadcast or a
wake-up would take a pair out of `onway` with nobody given or refused, which is no step of `Broadcast`.

### ChatApp
The tables belong to the logic thread alone, so a handler is one step. The reactor interleaves between any
two steps, above all between `ProcessEvent` (which reads `closed`) and `HandleEvent` (the handler), where
`checked` records that the flag has been read. A `std::unordered_map` is a function whose domain is the set
of keys; `operator[]` that creates an entry is kept (`HandleRoomChat` creates the room it looks up). A
payload is a decoded `ClientMessage` or `garbage`, which protobuf refuses; `unset` is a message without a
payload. The empty string is the value `Empty`. `sent` holds what the last handler sent, to whom, and with
which `origin_room`; the texts are left out. The elapsed time of a refill is any number of units.
`HandleTooFast` runs the exchange of `close_conn` in the same step as the error packet; the DISCONNECT that it
pushes is a step of its own (`ReportClosed("logic")`), and the logic thread pops nothing in between.
`renamed` is history: the clients that logged in while they were logged in already, which the code permits
(see *Divergences*) and which several properties have to except.

### WebServer
A `Connection` is alive while something points to it: a shard's map, a queued event, the `evt` of
`LogicLoop` (declared outside the loop, so it outlives the handling), the reactor's local `conn`, the vector
of `check_timeouts`, `online_users_`, or the snapshot of a broadcast task. Its descriptor is free for
`accept` only when it is dead. An epoll event carries a descriptor number, which `Dispatch` looks up when its
turn comes. `close_conn` is four steps in each of the two threads: exchange, push, `EPOLL_CTL_DEL`, erase.
The mapping to `EventStream` (`Stream`) reconstructs `stage` from the queue and the place of the closing
thread. Which connections time out is left open.

`Handled` is a handler as far as pointers go. Any MESSAGE may be a login that succeeds and puts the connection into
`online_users_`. `HandleDisconnect` erases one entry only, that of the session's last name: after a second login the
entry under the first name stays, and with it the connection and its descriptor, for ever. `online` are the
connections under the name of their session, and `renamed` those with an entry from before a second login, of which nothing
takes a connection out. `InUse` is what lets go of a closed connection in the end; `Alive` adds what may not: the `evt` of
`LogicLoop`, and `renamed`.

`timers` is the set of descriptor numbers that have an entry in a shard's `timer_heap`. `accept_loop` adds one;
`check_timeouts` looks the number of an entry that is due up in the map, and the entry may meet a client it was not
made for: it is pushed again for an active client, dropped when there is nobody, and consumed when the client is
idle. A number that was used before may have more entries than one, so a number may stay in the set when one entry
goes. `hung_up` and `accepted` are history for `HupUnlessReused`.

### ThreadPool
Testing the predicate of `wait` and blocking are two steps, both under `queue_mtx_`; `shutdown` takes no
mutex. The file is the same in `v3`, whose reactor pushes each message with `push_task`; in `v4` nobody calls it.
`Take` can run after `running_` has turned false, as in the code (line 76 returns only if the queue is
empty too).

### ServerProcess
`main` is the place of the main thread, which becomes the logic thread; `mask` says of each thread that was started
whether it blocks the three signals of `setup_signalfd`, a thread inheriting the mask of its creator. A signal to
the process goes to any thread that does not block it and kills (its action is the default one), or becomes
pending for the signalfd. A write to a connection that the peer has reset raises SIGPIPE in the thread that writes;
only the reactor reads the signalfd, and a signalfd shows a thread the signals of the process and its own, so
only a SIGPIPE of the reactor counts (`piped`). `net` is the reactor in `Run`: `epoll_wait`, the array, the
queue of broadcasts, and `Stop`. A broadcast is its number; `due` records who was connected when it was made.
`TakeQueue` and `PushTasks` are `process_global_queue` (the swap under its mutex, the tasks under the pool's), a task
is a shard and a list of broadcasts, and a worker that runs it copies the shard's connections (`Snapshot`) and serves
one connection at a time under its mutex (`Deliver`), whose queue may refuse events from any point on. The pool
is `ThreadPool` unchanged: its actions are conjuncts of those of the process. `sender_fd` is always -1, since
`ChatApp` calls `Broadcast` without a second argument.

### PacketBuffer and ChatClient
A byte is its place in the stream of packets, so that any loss, repetition or shift of bytes shows. The header of a
packet is `Header` bytes whose meaning the decoder finds only if they are the header of a packet; any other bytes
may stand for any length. `readv` takes any number of bytes up to the room in the ring, in the one or two
pieces of `get_writeable_iovecs`.

The client logs in with blocking calls before its threads exist (`LoginAnswer` takes the first packet that comes).
Then `Key`, `Type` and `TypeExit` are rounds of the input loop, which takes `ui_mtx_`; `Stop`, `StopQueue`,
`JoinReceiver` and `JoinPrinter` are `stop`. The receiver's `poll`, its look at the hang-up, the read and the decoding
are steps of their own. The printer pops, then takes `ui_mtx_` to print. What is typed is left out, as no other
thread sees it.

### ChatServerV3 and ChatServerV2
`at` holds for every thread of `v3` where it is and its local variables; a worker that handles a message goes
through the places of the message hook, with the lock of the connection held where the code holds it (`Locked`). The
place between the insertion of a name into `usernames_` and the assignment to `username` is a state, and so
is the disconnect hook, which looks at `username` without that lock. `raced` is history: clients that got their name
after their hook had looked. Broadcasts are numbered; `sent` records for whom each is due, `given` and `lost` what became
of it. `Broadcast` is two steps wherever it is called, by a worker with a line (`BroadcastMessage`) or by whoever closes a
client with a name (`BroadcastLeft`): `QueueEvent` under `global_queue_mtx_`, and `WakeReactor` after it, with the
thread at a place of its own in between. `v2` has the same history in `said` and `given`; an entry of the epoll array
carries, as history, the connection it was reported for, and a worker that has looked at `closed` may queue its line after the close.

### ConnWriter
One connection. `SendPreEncoded`, the broadcast task, `flush_all_queues`, `handle_read` and `handle_write` hold
`conn->mtx` from beginning to end, so each is one step; `accept_loop` (two steps after the connection is in the
map) and `close_conn` hold nothing. A packet is what is left of it to write. `attempt_write` writes anything that
fits: if it does not write all, `writev` found the socket full, and the function has returned before it looked at
the low water mark. The kernel is modelled as far as the code depends on it: `interest` is what epoll watches
(`current_epoll_events` is the program's copy), `EPOLL_CTL_MOD` polls at once and fails on a descriptor that is
not registered, room in the socket is reported only if someone was refused before (`nospace`), and an event is
reported once. `in_buf.full()` is false whenever it is asked, since `handle_read` closes the connection when the
buffer is full. `raced` is history: a worker changed the interest before `accept_loop` was done.

Three things the translation shows without a run. A broadcast that reaches the high water mark sets
`is_reading_paused` but leaves EPOLLIN in the interest, and `handle_read` does not look at the flag. Since `attempt_write` returns at EAGAIN, reading resumes when the
queue is *empty*, not at the low water mark (line 34 of `webserver.cpp` says "resume reading once they drain to this
level"). And since whatever is queued is armed (`WatchedWhenQueued`), the test of `BATCH_FLUSH_THRESHOLD` in
`SendPreEncoded` never decides anything: every reply is written at once, none is batched.

### TokenBucket
The code counts in `double`; here tokens are natural numbers of a unit, `CostUnits` units to a token, so that
fractions occur. `since` and `spent` are an observer that restarts whenever it likes: `WindowBound` therefore
speaks of every window of time, not of the time since the login. The clock is read by `HandleMessage`: what is bounded
and spaced is the handling by the logic thread. A client that spaces its messages may still be closed if they
pile up in the event queue and are handled one after the other.

## 3. What TLC checks

| Run | Instance | Shows |
|---|---|---|
| `chat_tables` | 2 connections, 3 names, 2 rooms, all messages, bucket of 1 | `PoppedInOrder`: each event popped is legal after those before; `SessionsOwnTheirNames`, `NoGhostUsers`, `RoomsAgree`, `RoomDelivery`, `DepartedInert` |
| `rate_limit` | capacity 5, cost 2, 7 units of time | `WindowBound`, `PatientServed` |
| `connection_life` | 3 connections, 2 descriptors, epoll array of 2 | `MapMatchesOpen`, `OwnDescriptor`, `TimerWatches`, `HupUnlessReused` |
| `connections_reaped` | 2 connections, 2 descriptors, one event per `epoll_wait` | `ImplementsEventStream`; `Reaped`: whoever closes, the application is told, and nothing but the event handled last and the names from before a second login keeps a closed connection alive for ever |
| `pool` | 3 workers, 4 tasks | `EachTaskOnce`, `TasksRun`, `ShutdownReturnsUnlessRaced` |
| `conn_writer` | packets of 1 and 2 bytes, 5 packets, queue of 3, water marks 1 and 3 | `Accounted`, `WatchedWhenQueued`, `Drains`, `DataIsReadUnlessRaced` |
| `server_process` | 2 workers, 2 shards, 1 connection, 2 broadcasts | `BroadcastArrives`, `OnceAndInOrder`, `StoppedIsQuiet`, `ImplementsBroadcast` |
| `client` | ring of 4 bytes, header of 2, payloads of 1, 2 and 3, 3 packets | `RingHoldsStream`, `ShownAsSent`, `NothingHeldBack`, `LoginMeansAccepted`, `AllShownAtEnd`, `Stops` |
| `server_v3` | 2 connections, 2 descriptors, 2 workers, 2 texts, 2 messages | `NamesFreedUnlessRaced`, `NoBroadcastLost`, `OwnDescriptor`, `ImplementsBroadcast` |
| `server_v2` | 2 connections, 2 descriptors, 2 workers, 2 texts, 4 lines, epoll array of 3 | `NamesExact`, `EntryMeetsItsConn`, `LostOnlyIfLate`, `HeardInOrder`, `ImplementsBroadcast` |
| `accept_race`, `ctrl_c` | the smallest instances that show it | see *Divergences* |

What a table or a queue must satisfy for a property to make sense is a conjunct of that property, not a property of
its own: `MapMatchesOpen`, `EachTaskOnce`, `Accounted`, `OnceAndInOrder`, `ShownAsSent`, `NamesFreedUnlessRaced` and
`NamesExact` include the type invariants of their modules; all of these are proved
(section 4). `Accounted` also says that a paused connection has something queued;
`OnceAndInOrder` that what has been overtaken is in the hands of a worker (`LateOnlyInHands`);
`NoBroadcastLost` and `LostOnlyIfLate` that a broadcast which waits in the global queue has a wake-up on its way (written,
read by the reactor before it takes the queue, or about to be written by the thread that queued it: `WakeupDue` in `v3`),
and that queued data is armed; `NothingHeldBack` that the client throws its buffer away only for a packet that is
too long; `Stops` that the client notices a connection the server closes; `HeardInOrder` that nobody's lines are heard
before the line that they joined, nor after the line that they left but for what a worker queued late.

Bounds. `MaxQueue` limits CONNECT and MESSAGE events only, never a DISCONNECT, so `close_conn` always
completes; a queue of one event plus DISCONNECTs is enough to have a message behind the DISCONNECT of its
own connection, and the connections are few enough that the queue is bounded anyway. Two clients suffice for
every property of the tables that speaks of two parties; the third name makes a second login of either
possible while the other's name is taken. Three connections on two numbers make a number be reused while the
other is in use, and give the timer heap entries of clients that are gone. A bucket of one message with any
elapsed time reaches the ban at once. Three workers and four tasks let one worker sleep, one run and one be between
test and wait.

In `ConnWriter` two sizes make a write end inside a packet, at its end, and after several; three bytes reach the high
water mark, and a queue of three is full while broadcasts still come. In `ServerProcess` two broadcasts are taken
together or one after the other, with four tasks for two workers, so that two batches for one shard run side by side
and the other shard's tasks keep a worker busy; connections do not interact there, and one may come, go and be served
by any worker. In `ChatClient` a header of two bytes is cut in the middle, the payloads of 1 and 2 fit the ring and
that of 3 does not, and three packets of up to 5 bytes go around a ring of 4 several times. In `ChatServerV3` two messages
are two logins, or a login and a line, or two messages of one client at two workers; in `ChatServerV2` four lines are two
logins and two lines of chat.

Symmetry is used in runs that check safety only. Deadlock is not checked where the instance really ends: when every
connection there is has come and gone, when the pool is joined, the server stopped or killed, the client
over, or all lines said.

Fairness. Every thread keeps running (weak fairness of its steps), which is what the scheduler gives. In
`WebServer` the reactor's fairness includes leaving `handle_read`, whose loop ends at EAGAIN: it assumes a
client that does not send faster than it is read for ever. In `ConnWriter` the peer reads what it is sent, and
the timer is strongly fair: the ready list of epoll is served in turn, so other descriptors cannot keep the timer
out, and `try_lock` does not fail every time, as the lock is held briefly. In `ThreadPool` no spurious wake-up is
relied on and nothing is assumed of the mutex but that a worker that can take it for ever does. `ServerProcess`
adds that the reactor gets the pool's mutex in the end (strong fairness of `PushTasks`): waits that return
without need could otherwise take it away from it for ever. Nothing is asked of clients and users: accepts,
closes, failing writes, signals and broadcasts may or may not come. In `ChatClient` the three threads run, and the
input loop, which polls with a timeout, comes round to look at `running_`; neither the server nor the user has to do anything.

### Divergences
These runs check what the repository says of the program, and TLC finds it violated:

* `accept_race` (`DataIsRead`): a broadcast worker finds a connection that `accept_loop` has in the map but not yet
  set up, fills its socket and arms EPOLLOUT from an empty interest; `accept_loop` then overwrites the cached
  interest. The kernel watches EPOLLOUT only, the cache says EPOLLIN, and the client is never read. `Drains` holds
  even then, because the timer writes what nobody watches.
* `ctrl_c` (`SignalsCaptured`): `src/README.md` (line 98) says that SIGINT is captured by signalfd for a graceful
  shutdown. `main` logs before it makes the server; the first line starts the logger's thread, which does not block
  the signals that `setup_signalfd` blocks a moment later. SIGINT and SIGTERM are delivered to that thread, and their
  default action ends the process with nothing stopped or closed.

Others are named by the exception of a property that holds otherwise:

* `NoGhostUsers` (`renamed`): a client that logs in twice leaves its first name in `online_users_`, where nobody
  can take it again, and the pointer in the table keeps the socket open (`renamed` in `WebServer`, which `Reaped` leaves
  out of what must let go).
* `HupUnlessReused` (`accepted`): the logic thread closes a connection after `epoll_wait` reported its hang-up; an
  earlier entry of the array accepts a new client on the same number, and `Run` closes the new client.
* `Reaped` (`evt`): the event handled last keeps its connection, and the socket, open until the next event comes.
* `ShutdownReturnsUnlessRaced`: `shutdown` sets `running_` and notifies without `queue_mtx_`. A worker that stands
  between its test and its wait misses the notification, and `join` never returns; so neither does `Stop`.
* `StoppedIsQuiet` is about the workers: the logic thread is there after `Stop`, and `Broadcast` may still write to
  `notify_fd_`.
* `BroadcastArrives` (`~running_`): `Run` stops at any signal it reads, and SIGPIPE is one of them. One write of the
  reactor to a connection that the peer has reset stops the server. The rest of the array of events is left
  then, although `src/README.md` (line 98) says that the loop ends after the current events are handled.
* `OnceAndInOrder`: two batches for one shard may be delivered by two workers at a time, so a client
  may get broadcasts in an order in which nobody sent them; within one batch they keep their order.
* `NamesFreedUnlessRaced` (`v3`): a client that is closed while a worker is between the insertion of its name and the
  assignment to `username` leaves a name that is taken for ever.
* `LostOnlyIfLate` (`v2`): a line that a worker queues after its speaker was closed carries the speaker's number. If the
  number has a new owner by then, the line is withheld from that client.
* `Stops` (`Stuck`): `exit`, `/exit` and `/quit` call `stop` with `ui_mtx_` held. `stop` joins the printer, which waits
  for `ui_mtx_` if it has anything to print: the client hangs.
* `AllShownAtEnd` (`Lost`): the receiver that loses the connection clears `running_`, `stop` then returns early and joins
  nobody, and the destructor of a joinable `std::thread` ends the process, perhaps before the last lines are shown.
  Also, the queue is told to finish before the receiver is joined: what the receiver adds after that may stay in it.
* `ShownAsSent` (a prefix): `receive_loop` looks at the hang-up before it reads, so the last packets before the
  server's close are not shown. If the connection breaks between `poll` and `readv`, the receiver ends with `running_`
  still true, and the client goes on without it (`Stops` speaks of a connection the server closes).
* `LoginMeansAccepted`: `login` takes the first packet for the answer, but a broadcast reaches every connection, logged in or
  not. The client then gives up although the server let it in.
* `NothingHeldBack` (`discarded`): a packet longer than the ring fills it; the receiver throws the ring away and
  goes on in the middle of that packet, where it takes payload for a header.

And two that need no run. `LogicLoop` waits in `pop` for ever once the reactor has stopped: `running_` of `ChatApp`
is never cleared and `stop` of the queue never called, so `ChatApp::Run` never returns and the last line of
`main` is never logged. And each client that is accepted on a number adds an entry to the timer heap, of which a
sweep takes out only those that meet nobody or an idle client: they accumulate while the number is in use.

The sentences quoted from `src/README.md` are in its description of the reactor, which it gives for `v2`; `v4`
dispatches the same events to the same handlers.

## 4. What is proved

TLAPS checks these for all values of the constants, from the assumptions stated in the modules
(`EventStreamAssumption`, `RateLimitAssumption`, `ChatAppAssumption`, `ChatAppMessages`, `TokenBucketAssumption`,
`ConnWriterAssumption`, `ThreadPoolAssumption`, `ServerProcessAssumption`, `WebServerAssumption`,
`PacketBufferAssumption`, `ChatClientAssumption`, `ChatServerV3Assumption`, `ChatServerV2Assumption`). TLC found each
inductive invariant to hold on an instance before it was proved; the number of states is given where it was a run of its
own.

* `EventStream_proofs`: `StreamTypeCorrect`, `OneDisconnectHolds`, `PoppedInOrderHolds`. The invariant
  `StreamIInv` adds to the type and to `OneDisconnect` how the events of one connection lie in the queue:
  nothing is queued of a connection that is not announced (`OnlyConnected`), the CONNECT is queued until it is
  seen and nothing of the connection is before it (`ConnectFirst`), and behind a DISCONNECT there is
  something only if the logic thread did the closing (`DisconnectLast`). Without them a pop could not be known
  to be legal.
* `ChatApp_proofs`: `ImplementsEventStream`, every step of the application is a step of the stream or leaves
  it alone, so `StreamIInv` holds in `ChatApp` too; `TypeCorrect`; `SessionsOwnTheirNamesHolds`,
  `NoGhostUsersHolds` and `DepartedInertHolds`. The invariant `IInv` adds `EventAtHand`: the event in the
  hands of the logic thread fits the stage of its connection; in particular a MESSAGE that has passed the
  check of `closed` is handled before the DISCONNECT of its connection is popped, however stale the flag is by
  then. Each handler has a lemma; `MessageEffect` reduces every message to *keeps the names* or *takes a free
  one*, `DisconnectEffect` says what a disconnection frees.
  `RoomsAgreeHolds` and `RoomDeliveryHolds` rest on `RoomsInv`: a room in the table is not empty, its members are
  online (`MembersOnline`), nobody that no second login has left behind is in two rooms (`MemberOfOne`), whose session
  names a room is in it (`InItsRoom`), and a session without a name names none. That a packet reaches those in the
  room and nobody else goes through `MemberFacts`: a name in a room is that of a client whose session names the room. (5 114 061
  states.)
* `WebServer_proofs`: `MapMatchesOpenHolds`, `OwnDescriptorHolds`, `TimerWatchesHolds`, `HupUnlessReusedHolds`, and the
  refinement `ImplementsEventStreamHolds`, from which `EventsLegal` takes over what is proved of the stream. The
  invariant `IInv` says who points to whom (`Pointers`), what the local variables of the two threads hold at each place in
  the code (`NetStands`, `LogicStands`: above all that the thread that goes on closing a connection is the one that
  won the exchange of `closed`), and whom the rest of a batch is about (`HupsNamed`). That a push or a pop is legal for
  the stream needs `StreamIInv`, so the invariant holds both. (6 588 379 states.)
* The last part of `ChatApp_proofs` is about `TokenBucket`: `BucketTypeCorrect`, `WindowBounded` (by the conserved
  quantity `spent + tokens`, compared with the time) and `PatientIsServed`.
* `ConnWriter_proofs`: `WatchedWhenQueuedHolds`. `WatchInv` says that what is queued is armed, what is armed is
  asked for in the cached interest, and the cached interest is the kernel's (`CacheIsTrue`), all unless `raced`;
  and that before `accept_loop` is done an unraced connection is as it was made (`FreshUntilAnnounced`), without
  which the overwritten cache could not be known to be harmless. That proof needs nothing of what `attempt_write`
  leaves in the queue. `AccountedHolds` does: `Books` says that `pending_bytes` is the sum of what is queued less what is
  written of its head, and the pauses go with the water marks. `BytesOfConcat` says that the sum of two queues is
  the sum of theirs, by an induction over the second. (43 668 states.)
* `ServerProcess_proofs`, first of `ThreadPool`: `EachTaskOnceHolds`. `EachTaskOnce` is nearly inductive; what it lacks is
  `TaskInHand`, that a worker has a task exactly while it runs it. `HeadTaken` and `AppendNew` say what taking from the
  queue and appending to it do to the set of its tasks. Then `UsesThePool`, the server's steps are steps of
  `ThreadPool` or leave it alone, so `EachTaskOnce` holds in the server; and `StoppedIsQuietHolds`, by `QuietInv`: the
  joins return when everybody has left (`JoinedIsOver`), `Stop` goes on only then (`StoppedIsJoined`), and a worker has
  connections in its hands only in a task (`HandsInTask`).
  `ServerTypeCorrect`, `OnceAndInOrderHolds` and `LateOnlyInHandsHolds` follow the broadcasts. `Numbered` says that those
  in tasks, in the batch and in the global queue are 1, 2, 3, ... in this order; `TasksInv` that each is in one task
  of each shard and that the events of a task are a stretch of these numbers; `FateInv` that what a client was given comes
  from a task of its shard that is done with it (`GivenServed`), and that such a task has settled all its
  events for it (`ServedSettled`). A second delivery would need a second task, which `EachTaskOnce` excludes. (382 060 states;
  203 226 with one worker more and no task less.)
* `ChatClient_proofs`: `ClientTypeCorrect`, `RingHoldsStreamHolds`, `ShownAsSentHolds`, `NothingHeldBackHolds`,
  `LoginMeansAcceptedHolds` and `AllShownAtEndHolds`. The ring comes first, for every capacity: `RemainderIsAround` takes
  the remainders away, and peek, take and add are shown to be those of a queue of bytes. `Stream` says where in the
  stream of bytes the ring stands, and the packets in it are those that were sent. `PlacesInOrder` relates what
  was decoded to the places of the packets, `LostIsLast` and `EndInv` which thread has ended when which flag is set:
  the printer ends only when it has shown what was there when it was told to, and `join_printer` comes after the receiver
  is done. (184 440 states.)
* `ChatServerV3_proofs`: `V3Invariant`, `OwnDescriptorHolds`, `NamesFreedUnlessRacedHolds`, `GivenOnceHolds` and
  `NoBroadcastLostHolds`. `V3Inv` has three parts. Who points to whom: `Pointers` and `OneOwner`, as a number is given out
  again only when nobody holds the connection any more. Who holds a name (`Names`): `Holder` is the client that
  has it until its disconnect hook has looked, one that got it after that, or a login between the insertion and the
  assignment; every name taken has exactly one. And where a broadcast is (`BusInv`): in the reactor's queue, in a task of a shard,
  with the worker that took that task, with one that delivers to the client, with the client, or with none; in one
  place at most for each shard and each client (`OnceForShard`, `OnceForClient`), and in one at least for each client it is
  due to (`NothingLost`). `Wakeup` says that what waits in the queue has its wake-up to come (`WakeupDue`), where each of
  the two steps of `Broadcast` needs the other: between them the wake-up is that of the thread at `wake` or `wakeLeft`,
  for the events that this thread's client is the sender of. `NotOwnGiven` needs `Posts`, that nobody a broadcast is
  due to has its sender's number, which is where `OneOwner` comes in; `RefusedOnce` that what a full queue refused is
  nowhere else. `NotOwn`, a filter over a batch, is reasoned about by the number of events it has looked at. (1 878 730 states; 935 176 with two shards and
  one worker.)
* `ChatServerV2_proofs`: `V2Invariant`, `NamesExactHolds`, `EntryMeetsItsConnHolds`, `LostOnlyIfLateHolds` and
  `HeardInOrderHolds`. One thread closes, so `Pointers` can say more than in `ChatServerV3`: who is open is in the map, who is
  closed is there only while `close_conn` is at work on it. `Entries` is why reused numbers do no harm: what is left
  of the array names connections that are in the map on the number of their entry, and none of them is the one the
  reactor is serving, so `close_conn` never takes away the connection of an entry to come. `Posts` says that
  nobody a broadcast is due to has the number it carries, unless its line is late: with `Wakeup` and `NothingLost` this
  is all that `For`, which leaves out by number, could get wrong. `Order` puts the queue behind all that was given.
  The story (`Joined`, `Left`, `JoinsFirst`, `LeavesLast`) goes by what was queued before; that late lines
  are no more than the workers is counted: the late lines of a client and the workers that have a line of it in hand
  (`Holding`) are together at most the pool, and none is late while the client is open. `For` is reasoned about by the
  length it has looked at, as `NotOwn`. (3 199 082 states.)
* That the servers implement `Broadcast`: `V4ImplementsBroadcast`, `V3ImplementsBroadcast`, `V2ImplementsBroadcast`, in
  the modules of their servers. The argument is the same for all. The mapping of `onway` names places, and is awkward to
  follow through a step; `OnWayIs` shows that it is the set `Unsettled` of the pairs that are due, open, and neither given
  nor refused, in which a step shows at once. One direction is that nothing is lost, the other that what was given or
  refused is in no place any more. Then every step that speaks (`BroadcastSpeaks`, `QueuedSpeaks`), closes
  (`CloseLeaves`, `ExchangeLeaves`, `CloseFlagLeaves`) or delivers (`DeliverGives`, `BroadcastsGive`) is shown to be the
  one of `Broadcast`, and all others leave it alone (`NothingHappens`). For `v4` this takes more than the invariant
  above: `WayInv` adds that what was refused comes from a task of the client's shard that is done with it, and was not
  given (`DroppedServed`), and that a queue that is not empty has its wake-up to come (`WakeInv`: written, read by the
  reactor before it empties the queue, or about to be written by the logic thread, unless the server is stopping). For `v2`,
  `NothingLost` is about late lines too, for all clients whose number is not that of the line: a line whose speaker was closed is
  due to those only, since `handle_broadcasts` leaves out by number.
  `V4KeepsItsWord`, `V3KeepsItsWord` and `V2KeepsItsWord` state what this means in the end: nobody a broadcast
  is due to is forgotten, and nobody hears one twice, after it was refused, or, where the speaker of a line is left out (`v3`, `v2`), his own.

Every invariant and every action property that a run checks is thus proved, and so is every refinement. Only model-checked are the liveness
properties (`TasksRun`, `Reaped`, `Drains`, `DataIsReadUnlessRaced`, `ShutdownReturnsUnlessRaced`, `BroadcastArrives`,
`Stops`), which the prover cannot do. Where a proof needs induction over the length of a queue it goes through the set of
the numbers for which the claim holds (`LeastNumber`, `SetInduction`), as the theorems of the library that take an operator
cannot be used. That the name of a closed connection is
released in the end is not a property of its own: it follows from `Reaped` and `NoGhostUsers`.

## 5. Plan

Done: `EventStream`, `RateLimit`, `TokenBucket`, `ChatApp`, `ConnWriter` and `ThreadPool`;
`ServerProcess`, which composes the pool with the reactor's loop, the signals and `Stop`; `WebServer`, which implements
`EventStream`, with the timer heap; `PacketBuffer` and `ChatClient`; `ChatServerV3` and `ChatServerV2`; `Broadcast`, which
the three servers implement; all of these with their proofs.

What could still be proved is what the liveness properties rest on without fairness: that a step of a worker or of the
reactor brings a broadcast or a closing nearer to its end, and that nothing takes it back.

## 6. Not modelled

* Texts and timestamps of packets, logging, metrics, the load bots, the build and the containers.
* The object pool: buffers are taken and given back under one mutex, and nothing depends on which buffer one gets.
* The queue of the logger, which is `SafeQueue` once more and serves the log only; its thread is in `ServerProcess`.
* The backlog of the listening socket. `accept_loop` leaves on any error while the socket is edge-triggered, so clients
  wait for the next client's edge when descriptors have run out; `WebServer` lets `accept` fail, but no more.
* What a torn read in `flush_all_queues` does, which tests `outgoing_queue.empty()` without the mutex: `ConnWriter` lets
  the timer skip the connection or take it.
* `Stop` in `v3` and `v2`, and the shutdown of their pools, which is that of `v4`; the bucket of `v3`, which is left open.
* The clients of `v3` and `v2`. That of `v3` has the threads and the stop of the `v4` client over a string instead of the
  ring, with a login in one thread before the threads start. `client.cpp` of `v2` is one thread with epoll;
  `chat_client.cpp` has a receiver that shares the line being typed under a mutex, which matters for the display only.
* `v1`: one loop with `poll` and no shared state.

The list of components in `PROJECT.json` gives the state and the reason for each.

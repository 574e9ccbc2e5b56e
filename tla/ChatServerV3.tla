---------------------------- MODULE ChatServerV3 ----------------------------
(* v3: the reactor of v3/webserver.cpp ("net"), the workers of its thread    *)
(* pool, and the hooks of v3/chatapp.h.  Unlike in v4 the hooks run in the   *)
(* thread that has the event: the message hook in a worker, one task per     *)
(* message, the disconnect hook in whichever thread closes the connection.   *)
EXTENDS Naturals, Sequences, FiniteSets, SequencesExt

CONSTANTS
    Conn,           \* Connection objects
    Fd,             \* descriptor numbers of accepted sockets
    Shard, shard,   \* the shards, and get_shard_idx
    Worker,
    Text,           \* what clients send: a name or a line of chat
    Empty,          \* the empty string
    None,
    MaxReads        \* bound: messages read from all clients together

ASSUME ChatServerV3Assumption ==
    /\ shard \in [Fd -> Shard] /\ IsFiniteSet(Shard)
    /\ "net" \notin Worker /\ Empty \notin Text /\ None \notin Conn \cup Fd
    /\ MaxReads \in Nat

Thread == Worker \cup {"net"}

VARIABLES
    fd,             \* Connection::sock, None before accept
    connections,    \* the shards' maps: Fd -> Conn or None
    closed,         \* connections whose flag is set
    username,       \* Connection::username; with a name come ACTIVE and is_broadcast_recipient
    usernames_,     \* names taken
    backlog,        \* connections whose outgoing_queue is not empty
    armed,          \* is_write_armed, with EPOLLOUT in current_epoll_events
    global_queue_,  \* events, as indices of sent
    notified,       \* notify_fd_ is readable
    task_queue_,
    at,             \* per thread: the place in the code and its local variables
    reads,
    sent,           \* history: every Broadcast, with those it is due to
    given,          \* history: the broadcasts put into the queue of a connection
    lost,           \* history: the broadcasts a full queue refused
    raced           \* history: connections that got their name after their disconnect hook

sockVars == <<fd, connections>>
nameVars == <<username, usernames_, raced>>
writeVars == <<backlog, armed>>
busVars == <<global_queue_, notified, sent>>
fateVars == <<given, lost>>
vars == <<sockVars, closed, nameVars, writeVars, busVars, fateVars, task_queue_, at, reads>>

Idle == [pc |-> "idle"]

InMap(c) == fd[c] # None /\ connections[fd[c]] = c
Active(c) == username[c] # Empty

(* c is the connection that thread t works on at one of the places pcs.      *)
In(t, pcs, c) == at[t].pc \in pcs /\ at[t].conn = c

MessagePlaces == {"message", "named", "accepted", "refuse", "spam", "chat", "wake"}
ClosePlaces == {"close", "hook", "left", "wakeLeft", "erase"}

(* close_conn has set the flag but the disconnect hook has not looked yet.   *)
HookPending(c) == \E t \in Thread : In(t, {"hook"}, c)

(* The message hook holds conn->mtx from its start to the end of the login.  *)
Locked(c) == \E w \in Worker : In(w, {"named"}, c)

(* A Connection lives, and keeps its descriptor, while something points to it. *)
Alive(c) ==
    \/ InMap(c)
    \/ \E t \in Thread : In(t, MessagePlaces \cup ClosePlaces, c)
    \/ \E t \in Thread : at[t].pc = "deliver" /\ c \in at[t].todo
    \/ \E i \in 1..Len(task_queue_) : task_queue_[i].pc = "message" /\ task_queue_[i].conn = c

(* Slip: close_conn closes the descriptor at once.                           *)
FreeWhenClosed == {f \in Fd : \A c \in Conn : fd[c] = f => c \in closed}

FreeFds == {f \in Fd : \A c \in Conn : fd[c] = f => ~Alive(c)}

Init ==
    /\ fd = [c \in Conn |-> None] /\ connections = [f \in Fd |-> None]
    /\ closed = {}
    /\ username = [c \in Conn |-> Empty] /\ usernames_ = {} /\ raced = {}
    /\ backlog = {} /\ armed = {}
    /\ global_queue_ = <<>> /\ notified = FALSE /\ sent = <<>>
    /\ given = [c \in Conn |-> <<>>] /\ lost = {}
    /\ task_queue_ = <<>>
    /\ at = [t \in Thread |-> Idle]
    /\ reads = 0

Goto(t, place) == at' = [at EXCEPT ![t].pc = place]
Return(t) == at' = [at EXCEPT ![t] = Idle]

-----------------------------------------------------------------------------
(* Writing.  All of this runs under conn->mtx.                               *)

(* writev takes what the socket has room for.                                *)
attempt_write(c) == backlog' \in {backlog, backlog \ {c}}

(* The packet is pushed and something written, unless it waits behind others *)
(* that are not many yet; then EPOLLOUT is asked for or not.                 *)
SendPreEncoded(c) ==
    /\ backlog' \in {backlog \cup {c}, backlog \ {c}}
    /\ armed' = IF c \in backlog' THEN armed \cup {c} ELSE armed \ {c}

(* What a broadcast, and the timer, do when a write leaves something behind. *)
arm_if_left(c) == armed' = IF c \in backlog' THEN armed \cup {c} ELSE armed

-----------------------------------------------------------------------------
(* Broadcast, under global_queue_mtx_: the event is pushed.  Those it is due *)
(* to are logged in and open, and not the client it is about ...             *)
QueueEvent(c, sender_fd) ==
    /\ sent' = Append(sent, [from |-> c, sender_fd |-> sender_fd,
                             due |-> {d \in Conn \ {c} : Active(d) /\ d \notin closed}])
    /\ global_queue_' = Append(global_queue_, Len(sent) + 1)
    /\ UNCHANGED notified

(* ... and after the unlock notify_fd_ is written.                           *)
WakeReactor == notified' = TRUE /\ UNCHANGED <<global_queue_, sent>>

-----------------------------------------------------------------------------
(* close_conn, in any thread.                                                *)

Exchange(t, c) ==
    /\ In(t, {"close"}, c)
    /\ IF c \in closed THEN Return(t) ELSE Goto(t, "hook")
    /\ closed' = closed \cup {c}
    /\ UNCHANGED <<sockVars, nameVars, writeVars, busVars, fateVars, task_queue_, reads>>

(* Slip: the name is kept.                                                   *)
DisconnectKeepsName(t, c) ==
    /\ In(t, {"hook"}, c)
    /\ Goto(t, IF Active(c) THEN "left" ELSE "erase")
    /\ UNCHANGED <<sockVars, closed, nameVars, writeVars, busVars, fateVars, task_queue_, reads>>

(* OnClientDisconnect reads the name under app_mtx_, not under conn->mtx.    *)
OnClientDisconnect(t, c) ==
    /\ In(t, {"hook"}, c)
    /\ usernames_' = usernames_ \ {username[c]}
    /\ Goto(t, IF Active(c) THEN "left" ELSE "erase")
    /\ UNCHANGED <<sockVars, closed, username, raced, writeVars, busVars, fateVars, task_queue_, reads>>

(* Broadcast of the leaving, in two steps.                                   *)
BroadcastLeft(t, c) ==
    /\ \/ In(t, {"left"}, c) /\ QueueEvent(c, None) /\ Goto(t, "wakeLeft")
       \/ In(t, {"wakeLeft"}, c) /\ WakeReactor /\ Goto(t, "erase")
    /\ UNCHANGED <<sockVars, closed, nameVars, writeVars, fateVars, task_queue_, reads>>

EraseConn(t, c) ==
    /\ In(t, {"erase"}, c)
    /\ connections' = [connections EXCEPT ![fd[c]] = None]
    /\ Return(t)
    /\ UNCHANGED <<fd, closed, nameVars, writeVars, busVars, fateVars, task_queue_, reads>>

-----------------------------------------------------------------------------
(* The reactor.                                                              *)

NetIdle == at["net"] = Idle

(* accept_loop, with the connect hook: the welcome is the first packet.      *)
accept_loop(c, f) ==
    /\ NetIdle
    /\ fd[c] = None /\ f \in FreeFds
    /\ fd' = [fd EXCEPT ![c] = f]
    /\ connections' = [connections EXCEPT ![f] = c]
    /\ SendPreEncoded(c)
    /\ UNCHANGED <<closed, nameVars, busVars, fateVars, task_queue_, at, reads>>

(* handle_read pushes one task for each message it decodes.                  *)
handle_read(c, text) ==
    /\ NetIdle /\ InMap(c) /\ ~Locked(c)
    /\ reads < MaxReads
    /\ reads' = reads + 1
    /\ task_queue_' = Append(task_queue_, [pc |-> "message", conn |-> c, text |-> text])
    /\ UNCHANGED <<sockVars, closed, nameVars, writeVars, busVars, fateVars, at>>

(* End of file, an error, a hang-up, a full buffer, a failed write, or the   *)
(* end of the idle time.                                                     *)
StartClose(c) ==
    /\ NetIdle /\ InMap(c)
    /\ at' = [at EXCEPT !["net"] = [pc |-> "close", conn |-> c]]
    /\ UNCHANGED <<sockVars, closed, nameVars, writeVars, busVars, fateVars, task_queue_, reads>>

handle_write(c) ==
    /\ NetIdle /\ InMap(c) /\ ~Locked(c)
    /\ c \in armed
    /\ attempt_write(c)
    /\ armed' = IF c \in backlog' THEN armed ELSE armed \ {c}
    /\ UNCHANGED <<sockVars, closed, nameVars, busVars, fateVars, task_queue_, at, reads>>

(* flush_all_queues, for one connection of the copied shard.                 *)
flush_queue(c) ==
    /\ NetIdle /\ InMap(c) /\ ~Locked(c)
    /\ c \in backlog \ closed
    /\ attempt_write(c) /\ arm_if_left(c)
    /\ UNCHANGED <<sockVars, closed, nameVars, busVars, fateVars, task_queue_, at, reads>>

(* Slip: the queue is copied, not swapped.                                   *)
ProcessCopy ==
    /\ at["net"].pc = "process"
    /\ LET tasks == {[pc |-> "snapshot", shard |-> s, events |-> global_queue_] : s \in Shard}
       IN  task_queue_' = IF global_queue_ = <<>> THEN task_queue_ ELSE task_queue_ \o SetToSeq(tasks)
    /\ Return("net")
    /\ UNCHANGED <<sockVars, closed, nameVars, writeVars, busVars, fateVars, reads>>

(* Run reads notify_fd_; then process_global_queue takes the whole queue and *)
(* pushes one task per shard.                                                *)
ReadNotify ==
    /\ NetIdle /\ notified
    /\ notified' = FALSE
    /\ at' = [at EXCEPT !["net"] = [pc |-> "process"]]
    /\ UNCHANGED <<sockVars, closed, nameVars, writeVars, global_queue_, sent, fateVars, task_queue_, reads>>

process_global_queue ==
    /\ at["net"].pc = "process"
    /\ LET tasks == {[pc |-> "snapshot", shard |-> s, events |-> global_queue_] : s \in Shard}
       IN  task_queue_' = IF global_queue_ = <<>> THEN task_queue_ ELSE task_queue_ \o SetToSeq(tasks)
    /\ global_queue_' = <<>>
    /\ Return("net")
    /\ UNCHANGED <<sockVars, closed, nameVars, writeVars, notified, sent, fateVars, reads>>

-----------------------------------------------------------------------------
(* A worker and its tasks.                                                   *)

TakeTask(w) ==
    /\ at[w] = Idle /\ task_queue_ # <<>>
    /\ at' = [at EXCEPT ![w] = Head(task_queue_)]
    /\ task_queue_' = Tail(task_queue_)
    /\ UNCHANGED <<sockVars, closed, nameVars, writeVars, busVars, fateVars, reads>>

Acceptable(text) == text \notin usernames_ /\ text # Empty

(* OnMessageRecv up to the end of the look at usernames_.  What the token    *)
(* bucket says is left open.                                                 *)
OnMessageRecv(w, c) ==
    /\ In(w, {"message"}, c) /\ ~Locked(c)
    /\ \/ c \in closed /\ Return(w) /\ UNCHANGED usernames_
       \/ c \notin closed /\ Goto(w, "spam") /\ UNCHANGED usernames_
       \/ c \notin closed /\ Active(c) /\ Goto(w, "chat") /\ UNCHANGED usernames_
       \/ /\ c \notin closed /\ ~Active(c)
          /\ IF Acceptable(at[w].text)
             THEN Goto(w, "named") /\ usernames_' = usernames_ \cup {at[w].text}
             ELSE Goto(w, "refuse") /\ UNCHANGED usernames_
    /\ UNCHANGED <<sockVars, closed, username, raced, writeVars, busVars, fateVars, task_queue_, reads>>

(* The login is completed and conn->mtx released.                            *)
SetUsername(w, c) ==
    /\ In(w, {"named"}, c)
    /\ username' = [username EXCEPT ![c] = at[w].text]
    /\ raced' = IF c \in closed /\ ~HookPending(c) THEN raced \cup {c} ELSE raced
    /\ Goto(w, "accepted")
    /\ UNCHANGED <<sockVars, closed, usernames_, writeVars, busVars, fateVars, task_queue_, reads>>

(* SendFast: accepted, refused, or too fast.                                 *)
Reply(w, c) ==
    /\ In(w, {"accepted", "refuse", "spam"}, c) /\ ~Locked(c)
    /\ IF c \in closed THEN UNCHANGED writeVars ELSE SendPreEncoded(c)
    /\ CASE at[w].pc = "accepted" -> Goto(w, "chat")
         [] at[w].pc = "refuse" -> Return(w)
         [] at[w].pc = "spam" -> at' = [at EXCEPT ![w] = [pc |-> "close", conn |-> c]]
    /\ UNCHANGED <<sockVars, closed, nameVars, busVars, fateVars, task_queue_, reads>>

(* Slip: notify_fd_ is written before the event is pushed.                   *)
BroadcastWakesFirst(w, c) ==
    /\ \/ In(w, {"chat"}, c) /\ WakeReactor /\ Goto(w, "wake")
       \/ In(w, {"wake"}, c) /\ QueueEvent(c, fd[c]) /\ Return(w)
    /\ UNCHANGED <<sockVars, closed, nameVars, writeVars, fateVars, task_queue_, reads>>

(* Broadcast, in two steps: that a client joined, or its line of chat.       *)
BroadcastMessage(w, c) ==
    /\ \/ In(w, {"chat"}, c) /\ QueueEvent(c, fd[c]) /\ Goto(w, "wake")
       \/ In(w, {"wake"}, c) /\ WakeReactor /\ Return(w)
    /\ UNCHANGED <<sockVars, closed, nameVars, writeVars, fateVars, task_queue_, reads>>

(* A broadcast task copies the recipients of its shard ...                   *)
Snapshot(w) ==
    /\ at[w].pc = "snapshot"
    /\ LET recipients == {c \in Conn \ closed : InMap(c) /\ shard[fd[c]] = at[w].shard /\ Active(c)}
       IN  at' = [at EXCEPT ![w] = IF recipients = {} THEN Idle
                                   ELSE [pc |-> "deliver", events |-> at[w].events, todo |-> recipients]]
    /\ UNCHANGED <<sockVars, closed, nameVars, writeVars, busVars, fateVars, task_queue_, reads>>

(* What is left of the events without those of the client c itself.          *)
NotOwn(c, events) ==
    LET upTo[n \in 0..Len(events)] ==
            IF n = 0 THEN <<>>
            ELSE IF sent[events[n]].sender_fd # fd[c] THEN Append(upTo[n - 1], events[n])
            ELSE upTo[n - 1]
    IN  upTo[Len(events)]

(* ... and gives each what is not its own, until its queue is full.          *)
Deliver(w, c) ==
    /\ at[w].pc = "deliver" /\ c \in at[w].todo /\ ~Locked(c)
    /\ at' = [at EXCEPT ![w] = IF at[w].todo = {c} THEN Idle ELSE [at[w] EXCEPT !.todo = @ \ {c}]]
    /\ LET events == NotOwn(c, at[w].events)
       IN  IF c \in closed \/ events = <<>> THEN UNCHANGED <<writeVars, fateVars>>
           ELSE \E room \in 0..Len(events) :
                  /\ given' = [given EXCEPT ![c] = @ \o SubSeq(events, 1, room)]
                  /\ lost' = lost \cup {<<c, events[i]>> : i \in room + 1..Len(events)}
                  /\ room < Len(events) => c \in backlog \/ room > 0
                  /\ IF room = 0 THEN UNCHANGED writeVars
                     ELSE backlog' \in {backlog \cup {c}, backlog \ {c}} /\ arm_if_left(c)
    /\ UNCHANGED <<sockVars, closed, nameVars, busVars, task_queue_, reads>>

-----------------------------------------------------------------------------
CloseConn(t, c) == Exchange(t, c) \/ OnClientDisconnect(t, c) \/ BroadcastLeft(t, c) \/ EraseConn(t, c)

Net ==
    \/ \E c \in Conn, f \in Fd : accept_loop(c, f)
    \/ \E c \in Conn, text \in Text \cup {Empty} : handle_read(c, text)
    \/ \E c \in Conn : StartClose(c) \/ handle_write(c) \/ flush_queue(c) \/ CloseConn("net", c)
    \/ ReadNotify \/ process_global_queue

Work(w) ==
    \/ TakeTask(w) \/ Snapshot(w)
    \/ \E c \in Conn : \/ OnMessageRecv(w, c) \/ SetUsername(w, c) \/ Reply(w, c)
                       \/ BroadcastMessage(w, c) \/ Deliver(w, c) \/ CloseConn(w, c)

Next == Net \/ \E w \in Worker : Work(w)

Spec == Init /\ [][Next]_vars

-----------------------------------------------------------------------------
(* Properties                                                                *)

Events == 1..Len(sent)
Task == [pc: {"message"}, conn: Conn, text: Text \cup {Empty}]
            \cup [pc: {"snapshot"}, shard: Shard, events: Seq(Events)]

TypeOK ==
    /\ fd \in [Conn -> Fd \cup {None}] /\ connections \in [Fd -> Conn \cup {None}]
    /\ closed \subseteq Conn /\ raced \subseteq Conn
    /\ username \in [Conn -> Text \cup {Empty}] /\ usernames_ \subseteq Text
    /\ backlog \subseteq Conn /\ armed \subseteq Conn
    /\ global_queue_ \in Seq(Events) /\ notified \in BOOLEAN
    /\ task_queue_ \in Seq(Task)
    /\ \A t \in Thread : at[t].pc \in MessagePlaces \cup ClosePlaces
                                      \cup {"idle", "process", "snapshot", "deliver"}
    /\ reads \in 0..MaxReads
    /\ given \in [Conn -> Seq(Events)] /\ lost \subseteq Conn \X Events

(* Names: a client that is logged in and open has its name in usernames_, so *)
(* nobody else gets it, and no other open client has it already, whichever   *)
(* workers run the logins and the disconnect hooks.                          *)
LoggedInHoldsName ==
    \A c \in Conn \ closed : Active(c) =>
        /\ username[c] \in usernames_
        /\ \A d \in Conn \ (closed \cup {c}) : username[d] # username[c]

(* And every name that is taken is that of a client whose disconnect hook is *)
(* still to come, or of a login under way; so two workers with two messages  *)
(* of one client do not log it in twice.  The exception are the names of     *)
(* logins that were completed after the hook had looked and seen no name:    *)
(* nobody frees those.                                                       *)
NamesFreedUnlessRaced ==
    /\ TypeOK /\ LoggedInHoldsName
    /\ \A n \in usernames_ :
        \E c \in Conn :
            \/ username[c] = n /\ (c \notin closed \/ HookPending(c) \/ c \in raced)
            \/ \E w \in Worker : In(w, {"named"}, c) /\ at[w].text = n

(* Within(e, events): e is one of them.  A broadcast is on its way to a      *)
(* client while it is in the reactor's queue and the reactor is notified,    *)
(* about to take it, or about to be notified of it by a thread that stands   *)
(* between the two steps of Broadcast; in a task; or in a worker's hands.    *)
Within(e, events) == \E i \in 1..Len(events) : events[i] = e
WakeupDue(e) ==
    \/ notified \/ at["net"].pc = "process"
    \/ \E t \in Thread : In(t, {"wake", "wakeLeft"}, sent[e].from)
OnItsWay(e, c) ==
    \/ Within(e, global_queue_) /\ WakeupDue(e)
    \/ \E i \in 1..Len(task_queue_) : /\ task_queue_[i].pc = "snapshot"
                                     /\ task_queue_[i].shard = shard[fd[c]]
                                     /\ Within(e, task_queue_[i].events)
    \/ \E w \in Worker : \/ at[w].pc = "snapshot" /\ at[w].shard = shard[fd[c]] /\ Within(e, at[w].events)
                         \/ at[w].pc = "deliver" /\ c \in at[w].todo /\ Within(e, at[w].events)

(* No broadcast is lost between the threads: one that is due to an open      *)
(* client is on its way, or was put into the client's queue, or was refused  *)
(* because that was full; and what is queued has EPOLLOUT armed.  Unlike in  *)
(* v4 no broadcast finds a connection that accept_loop is not done with.     *)
NoBroadcastLost ==
    /\ \A e \in Events : \A c \in sent[e].due \ closed :
          Within(e, given[c]) \/ <<c, e>> \in lost \/ OnItsWay(e, c)
    /\ backlog \ closed \subseteq armed

(* A client is given a broadcast at most once, and never its own.            *)
GivenOnce ==
    \A c \in Conn : /\ IsInjective(given[c])
                    /\ \A i \in 1..Len(given[c]) : sent[given[c][i]].from # c

(* So the queue, the tasks and the workers deliver what Broadcast promises.  *)
B == INSTANCE Broadcast WITH
        Client <- Conn, heard <- given, refused <- lost, gone <- closed,
        posts <- [e \in Events |-> [due |-> sent[e].due, barred |-> {sent[e].from}]],
        onway <- {p \in Conn \X Events : p[1] \in sent[p[2]].due \ closed /\ OnItsWay(p[2], p[1])}

ImplementsBroadcast == B!BroadcastSpec

(* close_conn erases its own connection, not one accepted on the same number, *)
(* and no two living connections share a descriptor.                         *)
OwnDescriptor ==
    /\ \A c \in Conn, t \in Thread : In(t, ClosePlaces \ {"close"}, c) => connections[fd[c]] = c
    /\ \A c, d \in Conn : c # d /\ fd[c] # None /\ fd[c] = fd[d] => ~(Alive(c) /\ Alive(d))
=============================================================================

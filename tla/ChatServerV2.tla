---------------------------- MODULE ChatServerV2 ----------------------------
(* v2: the reactor of v2/webserver.cpp, which alone reads, writes and closes *)
(* connections, and the workers of v2/threadpool.cpp, which turn lines into  *)
(* broadcasts.  A closed connection gives its descriptor back at once, while *)
(* tasks and workers still hold the Connection and its number.               *)
EXTENDS Naturals, Sequences, FiniteSets, Functions

CONSTANTS
    Conn,       \* Connection objects
    Fd,         \* descriptor numbers of accepted sockets
    Worker,
    Text,       \* lines without the newline: a name or a line of chat
    Empty,      \* the empty line
    None,       \* sender_fd -1, or no connection
    MAX_EVENTS,
    MaxLines    \* bound: lines read from all clients together

ASSUME ChatServerV2Assumption ==
    /\ Empty \notin Text /\ None \notin Conn \cup Fd /\ IsFiniteSet(Worker)
    /\ MAX_EVENTS \in Nat \ {0} /\ MaxLines \in Nat

VARIABLES
    fd,                 \* Connection::fd, None before accept
    connections_,       \* Fd -> Conn or None
    closed,             \* connections whose flag is set
    username,           \* Connection::username; with a name the state is ACTIVE
    usernames_,
    out_buf,            \* connections with something left to send
    armed,              \* connections watched for EPOLLOUT
    batch,              \* what is left of the array that epoll_wait filled
    net,                \* the reactor: [pc, conn]
    work,               \* per worker: [pc, conn]
    task_queue_,        \* the connections whose lines are to be broadcast
    broadcast_queue_,   \* indices of said
    notified,           \* notify_fd_ is readable
    lines,
    said,               \* history: what was queued for broadcast, by whom, for whom
    given               \* history: what was appended to the out_buf of a connection

netVars == <<batch, net>>
sockVars == <<fd, connections_>>
nameVars == <<username, usernames_>>
busVars == <<broadcast_queue_, notified, said>>
writeVars == <<out_buf, armed, given>>
workVars == <<task_queue_, work>>
vars == <<sockVars, closed, nameVars, writeVars, netVars, workVars, busVars, lines>>

Active(c) == username[c] # Empty
InMap(c) == fd[c] # None /\ connections_[fd[c]] = c
At(pc, c) == [pc |-> pc, conn |-> c]

Init ==
    /\ fd = [c \in Conn |-> None] /\ connections_ = [f \in Fd |-> None]
    /\ closed = {}
    /\ username = [c \in Conn |-> Empty] /\ usernames_ = {}
    /\ out_buf = {} /\ armed = {}
    /\ batch = {} /\ net = At("wait", None)
    /\ task_queue_ = <<>> /\ work = [w \in Worker |-> At("idle", None)]
    /\ broadcast_queue_ = <<>> /\ notified = FALSE
    /\ lines = 0
    /\ said = <<>> /\ given = [c \in Conn |-> <<>>]

-----------------------------------------------------------------------------
(* Slip: a queue that holds the latest first.                                *)
queue_in_front(kind, c, sender_fd) ==
    /\ said' = Append(said, [kind |-> kind, from |-> c, sender_fd |-> sender_fd,
                             late |-> c \in closed,
                             due |-> {d \in Conn \ {c} : Active(d) /\ d \notin closed}])
    /\ broadcast_queue_' = <<Len(said) + 1>> \o broadcast_queue_

(* queue_broadcast_message.  Due is who is logged in and open, but not the   *)
(* speaker of a line; late, that the speaker had been closed already.        *)
queue_broadcast_message(kind, c, sender_fd) ==
    /\ said' = Append(said, [kind |-> kind, from |-> c, sender_fd |-> sender_fd,
                             late |-> c \in closed,
                             due |-> {d \in Conn \ {c} : Active(d) /\ d \notin closed}])
    /\ broadcast_queue_' = Append(broadcast_queue_, Len(said) + 1)

-----------------------------------------------------------------------------
(* The reactor.                                                              *)

(* epoll_wait reports a number once; for is the connection it is about.      *)
Ready ==
    {[kind |-> k, fd |-> fd[c], for |-> c] : k \in {"io", "hup"}, c \in {d \in Conn : InMap(d)}}
        \cup {[kind |-> "listen", fd |-> None, for |-> None]}
        \cup (IF notified THEN {[kind |-> "notify", fd |-> None, for |-> None]} ELSE {})

EpollWait ==
    /\ net.pc = "wait"
    /\ batch' \in SUBSET Ready
    /\ batch' # {} /\ Cardinality(batch') <= MAX_EVENTS
    /\ \A e, f \in batch' : e.fd = f.fd /\ e.fd # None => e = f
    /\ net' = At("dispatch", None)
    /\ UNCHANGED <<sockVars, closed, nameVars, writeVars, workVars, busVars, lines>>

(* run, for one entry of the array: where it leads.                          *)
Handler(e) ==
    CASE e.kind = "listen" -> At("accept", None)
      [] e.kind = "notify" -> At("broadcast", None)
      [] e.kind \in {"io", "hup"} ->
            IF connections_[e.fd] = None THEN At("dispatch", None)
            ELSE At(IF e.kind = "hup" THEN "close" ELSE "read", connections_[e.fd])

Dispatch ==
    /\ net.pc = "dispatch"
    /\ \/ batch = {} /\ net' = At("wait", None) /\ UNCHANGED <<batch, notified>>
       \/ \E e \in batch :
            /\ batch' = batch \ {e}
            /\ net' = Handler(e)
            /\ notified' = (notified /\ e.kind # "notify")
    /\ UNCHANGED <<sockVars, closed, nameVars, writeVars, workVars, broadcast_queue_, said, lines>>

(* One round of accept_loop, whose welcome is sent directly.                 *)
Accept(c, f) ==
    /\ net.pc = "accept"
    /\ fd[c] = None /\ \A d \in Conn : fd[d] = f => d \in closed
    /\ fd' = [fd EXCEPT ![c] = f]
    /\ connections_' = [connections_ EXCEPT ![f] = c]
    /\ UNCHANGED <<closed, nameVars, writeVars, netVars, workVars, busVars, lines>>

AcceptEnd ==
    /\ net.pc = "accept"
    /\ net' = At("dispatch", None)
    /\ UNCHANGED <<sockVars, closed, nameVars, writeVars, batch, workVars, busVars, lines>>

(* Slip: the name is not looked up.                                          *)
ReadAnyLogin(c, name) ==
    /\ net = At("read", c) /\ ~Active(c)
    /\ lines < MaxLines /\ lines' = lines + 1
    /\ name # Empty
    /\ usernames_' = usernames_ \cup {name}
    /\ username' = [username EXCEPT ![c] = name]
    /\ queue_broadcast_message("join", c, None)
    /\ notified' = TRUE
    /\ UNCHANGED <<sockVars, closed, writeVars, netVars, workVars>>

(* handle_read: a line is a login until one succeeds, then a task.           *)
ReadLogin(c, name) ==
    /\ net = At("read", c) /\ ~Active(c)
    /\ lines < MaxLines /\ lines' = lines + 1
    /\ IF name \notin usernames_ /\ name # Empty
       THEN /\ usernames_' = usernames_ \cup {name}
            /\ username' = [username EXCEPT ![c] = name]
            /\ queue_broadcast_message("join", c, None)
            /\ notified' = TRUE
       ELSE UNCHANGED <<nameVars, busVars>>
    /\ UNCHANGED <<sockVars, closed, writeVars, netVars, workVars>>

ReadChat(c) ==
    /\ net = At("read", c) /\ Active(c)
    /\ lines < MaxLines /\ lines' = lines + 1
    /\ task_queue_' = Append(task_queue_, c)
    /\ UNCHANGED <<sockVars, closed, nameVars, writeVars, netVars, work, busVars>>

(* recv has nothing more: EAGAIN, or end of file or an error.                *)
ReadEnd(c) ==
    /\ net = At("read", c)
    /\ net' \in {At("close", c)} \cup {At(IF c \in armed THEN "write" ELSE "dispatch", c)}
    /\ UNCHANGED <<sockVars, closed, nameVars, writeVars, batch, workVars, busVars, lines>>

(* handle_write sends all and stops watching, or what there is room for, or  *)
(* fails.                                                                    *)
handle_write(c) ==
    /\ net = At("write", c)
    /\ \/ out_buf' = out_buf \ {c} /\ armed' = armed \ {c} /\ net' = At("dispatch", None)
       \/ c \in out_buf /\ UNCHANGED <<out_buf, armed>> /\ net' \in {At("dispatch", None), At("close", c)}
    /\ UNCHANGED <<sockVars, closed, nameVars, given, batch, workVars, busVars, lines>>

(* close_conn.  The workers see the flag first, then the queued leaving.     *)
CloseFlag(c) ==
    /\ net = At("close", c)
    /\ closed' = closed \cup {c}
    /\ net' = IF c \in closed THEN At("dispatch", None) ELSE At("closing", c)
    /\ UNCHANGED <<sockVars, nameVars, writeVars, batch, workVars, busVars, lines>>

CloseRest(c) ==
    /\ net = At("closing", c)
    /\ usernames_' = usernames_ \ {username[c]}
    /\ IF Active(c) THEN queue_broadcast_message("leave", c, None) /\ notified' = TRUE
                    ELSE UNCHANGED busVars
    /\ connections_' = [connections_ EXCEPT ![fd[c]] = None]
    /\ net' = At("dispatch", None)
    /\ UNCHANGED <<fd, closed, username, writeVars, batch, workVars, lines>>

(* Slips: everything is left out from the first line of its own on; the      *)
(* message is sent at once and a client is closed when it has no room.       *)
ForUpToOwn(c) ==
    IF broadcast_queue_ # <<>> /\ said[Head(broadcast_queue_)].sender_fd = fd[c] THEN <<>>
    ELSE SelectSeq(broadcast_queue_, LAMBDA m : said[m].sender_fd # fd[c])

broadcast_and_close ==
    /\ net.pc = "broadcast"
    /\ \E full \in SUBSET {c \in Conn \ closed : InMap(c) /\ Active(c) /\ broadcast_queue_ # <<>>} :
          /\ closed' = closed \cup full
          /\ connections_' = [f \in Fd |-> IF connections_[f] \in full THEN None ELSE connections_[f]]
    /\ broadcast_queue_' = <<>>
    /\ net' = At("dispatch", None)
    /\ UNCHANGED <<fd, nameVars, writeVars, batch, workVars, notified, said, lines>>

(* handle_broadcasts drains the queue and gives every active connection what *)
(* does not carry its number.                                                *)
For(c) ==
    LET upTo[n \in 0..Len(broadcast_queue_)] ==
            IF n = 0 THEN <<>>
            ELSE IF said[broadcast_queue_[n]].sender_fd # fd[c] THEN Append(upTo[n - 1], broadcast_queue_[n])
            ELSE upTo[n - 1]
    IN  upTo[Len(broadcast_queue_)]

handle_broadcasts ==
    /\ net.pc = "broadcast"
    /\ broadcast_queue_' = <<>>
    /\ LET heard == {c \in Conn \ closed : InMap(c) /\ Active(c) /\ For(c) # <<>>}
       IN  /\ given' = [c \in Conn |-> IF c \in heard THEN given[c] \o For(c) ELSE given[c]]
           /\ out_buf' = out_buf \cup heard
           /\ armed' = armed \cup heard
    /\ net' = At("dispatch", None)
    /\ UNCHANGED <<sockVars, closed, nameVars, batch, workVars, notified, said, lines>>

-----------------------------------------------------------------------------
(* worker_loop: take a task, look at the flag, queue the line, wake the      *)
(* reactor.                                                                  *)
TakeTask(w) ==
    /\ work[w].pc = "idle" /\ task_queue_ # <<>>
    /\ work' = [work EXCEPT ![w] = At("check", Head(task_queue_))]
    /\ task_queue_' = Tail(task_queue_)
    /\ UNCHANGED <<sockVars, closed, nameVars, writeVars, netVars, busVars, lines>>

Check(w) ==
    /\ work[w].pc = "check"
    /\ LET c == work[w].conn
       IN  work' = [work EXCEPT ![w] = IF c \in closed \/ ~Active(c) THEN At("idle", None) ELSE At("queue", c)]
    /\ UNCHANGED <<sockVars, closed, nameVars, writeVars, netVars, task_queue_, busVars, lines>>

QueueLine(w) ==
    /\ work[w].pc = "queue"
    /\ queue_broadcast_message("chat", work[w].conn, fd[work[w].conn])
    /\ work' = [work EXCEPT ![w] = At("notify", @.conn)]
    /\ UNCHANGED <<sockVars, closed, nameVars, writeVars, netVars, task_queue_, notified, lines>>

Notify(w) ==
    /\ work[w].pc = "notify"
    /\ notified' = TRUE
    /\ work' = [work EXCEPT ![w] = At("idle", None)]
    /\ UNCHANGED <<sockVars, closed, nameVars, writeVars, netVars, task_queue_, broadcast_queue_, said, lines>>

-----------------------------------------------------------------------------
Net ==
    \/ EpollWait \/ Dispatch \/ AcceptEnd \/ handle_broadcasts
    \/ \E c \in Conn, f \in Fd : Accept(c, f)
    \/ \E c \in Conn, name \in Text \cup {Empty} : ReadLogin(c, name)
    \/ \E c \in Conn : ReadChat(c) \/ ReadEnd(c) \/ handle_write(c) \/ CloseFlag(c) \/ CloseRest(c)

Work(w) == TakeTask(w) \/ Check(w) \/ QueueLine(w) \/ Notify(w)

Next == Net \/ \E w \in Worker : Work(w)

Spec == Init /\ [][Next]_vars

-----------------------------------------------------------------------------
(* Properties                                                                *)

Said == 1..Len(said)
NetPCs == {"wait", "dispatch", "accept", "broadcast", "read", "write", "close", "closing"}

TypeOK ==
    /\ fd \in [Conn -> Fd \cup {None}] /\ connections_ \in [Fd -> Conn \cup {None}]
    /\ closed \subseteq Conn
    /\ username \in [Conn -> Text \cup {Empty}] /\ usernames_ \subseteq Text
    /\ out_buf \subseteq Conn /\ armed \subseteq Conn
    /\ batch \subseteq [kind: {"io", "hup", "listen", "notify"}, fd: Fd \cup {None}, for: Conn \cup {None}]
    /\ net \in [pc: NetPCs, conn: Conn \cup {None}]
    /\ work \in [Worker -> [pc: {"idle", "check", "queue", "notify"}, conn: Conn \cup {None}]]
    /\ task_queue_ \in Seq({c \in Conn : Active(c)})
    /\ broadcast_queue_ \in Seq(Said) /\ notified \in BOOLEAN
    /\ lines \in 0..MaxLines
    /\ given \in [Conn -> Seq(Said)]

(* Names: usernames_ holds exactly the names of the clients that are logged  *)
(* in and that close_conn has not finished with, each for one client.        *)
NamesExact ==
    LET here == {c \in Conn : Active(c) /\ (c \notin closed \/ net = At("closing", c))}
    IN  /\ TypeOK
        /\ usernames_ = {username[c] : c \in here}
        /\ \A c, d \in here : c # d => username[c] # username[d]

(* An entry of the array never reaches another client that was accepted on   *)
(* the same number meanwhile, though numbers are given back at once: a       *)
(* connection is closed only for its own entry, and a number occurs once.    *)
EntryMeetsItsConn ==
    \A e \in batch : e.for # None => connections_[e.fd] \in {e.for, None}

(* What was queued for broadcast and is due to a client that is still there  *)
(* was given to it, or is queued and the reactor notified, or a worker about *)
(* to notify it; and what a client has left to send is watched for room.     *)
(* The exception is a line whose speaker was closed before a worker queued   *)
(* it: its number may have become the number of a listener.                  *)
Within(m, queue) == \E i \in 1..Len(queue) : queue[i] = m
WakeupPending == notified \/ net.pc = "broadcast" \/ \E w \in Worker : work[w].pc = "notify"

LostOnlyIfLate ==
    /\ \A m \in Said : ~(said[m].kind = "chat" /\ said[m].late) =>
          \A c \in said[m].due \ closed :
              Within(m, given[c]) \/ (Within(m, broadcast_queue_) /\ WakeupPending)
    /\ out_buf \ closed \subseteq armed

(* A client is given the broadcasts in the order in which they were queued,  *)
(* each once, and never its own lines.                                       *)
GivenInOrder ==
    \A c \in Conn : \A i \in 1..Len(given[c]) :
        /\ \A j \in 1..i - 1 : given[c][j] < given[c][i]
        /\ said[given[c][i]].kind = "chat" => said[given[c][i]].from # c

(* And the order tells a story that makes sense: a client is said to join    *)
(* once, before its first line and its leaving; after it was said to leave   *)
(* come only lines that a worker had in hand when the client was closed, one *)
(* for each worker.                                                          *)
LateLines(c) == {j \in Said : said[j].from = c /\ said[j].kind = "chat" /\ said[j].late}
HeardInOrder ==
    /\ GivenInOrder
    /\ \A i, j \in Said : i < j /\ said[i].from = said[j].from =>
          /\ said[j].kind # "join"
          /\ said[i].kind = "leave" => j \in LateLines(said[i].from)
    /\ \A j \in Said : said[j].kind # "join" => \E i \in 1..j - 1 : said[i].kind = "join" /\ said[i].from = said[j].from
    /\ \A c \in Conn : Cardinality(LateLines(c)) <= Cardinality(Worker)

(* So the queue delivers what Broadcast promises.  Not to a client that has  *)
(* the number of the message, as a late line can.                            *)
B == INSTANCE Broadcast WITH
        Client <- Conn, heard <- given, refused <- {}, gone <- closed,
        posts <- [m \in Said |-> [due |-> {c \in said[m].due : fd[c] # said[m].sender_fd},
                                  barred |-> IF said[m].kind = "chat" THEN {said[m].from} ELSE {}]],
        onway <- {p \in Conn \X Said :
                     /\ p[1] \in said[p[2]].due \ closed /\ fd[p[1]] # said[p[2]].sender_fd
                     /\ Within(p[2], broadcast_queue_) /\ WakeupPending}

ImplementsBroadcast == B!BroadcastSpec
=============================================================================
